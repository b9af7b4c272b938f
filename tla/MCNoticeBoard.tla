---------------------------- MODULE MCNoticeBoard ----------------------------
(* A small instance of NoticeBoard for TLC. *)
EXTENDS NoticeBoard, TLC

CONSTANT other

MCNote == Announcement \cup {other}

(* Everything that may be posted and notified has been. *)
Finished ==
    /\ \A p \in Process : pc[p] = "idle"
    /\ \A p \in Web : fan[p] = NoNotice
    /\ UNCHANGED nbvars

MCNext == BoardNext \/ Finished

MCSpec ==
    /\ BoardInit /\ [][MCNext]_nbvars
    /\ DeliveryFairness
    /\ \A p \in Web : WF_nbvars(Announcing(p))
=============================================================================
