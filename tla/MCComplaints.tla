---------------------------- MODULE MCComplaints ----------------------------
(***************************************************************************)
(* Small instances of Complaints for TLC: in one behaviour requests come   *)
(* one at a time, about two complaints; in another they overlap, about one *)
(* complaint.                                                              *)
(***************************************************************************)
EXTENDS Complaints, TLC

Symmetry == Permutations(Session) \cup Permutations(Complaint)

VARIABLE serial     \* requests come one at a time

Overlapping ==
    /\ DeskNext
    /\ clock' < MaxClock
    /\ Cardinality({c \in Complaint : history'[c] # <<>>}) <= 1

OneAtATime ==
    /\ SerialNext
    /\ \A s \in Session : pc[s] = "idle" /\ pc'[s] = "priority" => Len(audit[about'[s]]) < 2

(* The bounds end a behaviour, and so do complaints that are all closed; a *)
(* deadlock is a request that cannot go on.                                *)
Finished ==
    /\ \A s \in Session : pc[s] = "idle"
    /\ UNCHANGED cvars

MCInit == DeskInit /\ serial \in BOOLEAN

MCNext ==
    /\ (IF serial THEN OneAtATime ELSE Overlapping) \/ Finished
    /\ UNCHANGED serial

MCSpec == MCInit /\ [][MCNext]_<<cvars, serial>>

(* The desk, one request at a time, keeps the lifecycle's promise          *)
(* (ImplementsLifecycle, of the behaviours that are serial).               *)
ImplementsLifecycleSerially ==
    /\ serial => Promise!Init
    /\ [][serial => Promise!Next]_<<[c \in Complaint |-> Shown(c)], told>>
=============================================================================
