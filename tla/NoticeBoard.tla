----------------------------- MODULE NoticeBoard -----------------------------
(***************************************************************************)
(* Notices (app/routers/notices.py) on top of Notifications: a notice that *)
(* is posted as important is announced to every resident, one notify after *)
(* the other, in the request that posted it and after its commit.          *)
(*                                                                         *)
(* Each notify commits, which expires the notice in the session, so that   *)
(* the next one reads it anew.  If another request has deleted it by then, *)
(* the read raises and the residents still to come are never told.         *)
(***************************************************************************)
EXTENDS Notifications

CONSTANTS
    Notice, NoNotice,
    Resident

(* The announcement of notice x to resident r; other notifications come    *)
(* from other business requests.                                           *)
Announcement == Notice \X Resident

ASSUME NoticeAssumption ==
    /\ NoNotice \notin Notice
    /\ Announcement \subseteq Note

VARIABLES
    notice,         \* each notice, "none" before it is posted
    announced,      \* those that were posted as important
    fan,            \* the notice each request is announcing
    left,           \* the residents it has not come to yet
    fresh           \* it has the notice in memory as it posted it

board == <<notice, announced, fan, left, fresh>>

nbvars == <<nvars, board>>

BoardInit ==
    /\ NotificationsInit
    /\ notice = [x \in Notice |-> "none"]
    /\ announced = {}
    /\ fan = [p \in Web |-> NoNotice]
    /\ left = [p \in Web |-> {}]
    /\ fresh = [p \in Web |-> FALSE]

Free(p) == pc[p] = "idle" /\ fan[p] = NoNotice

(* The commit of create_notice, and the SELECT of the residents.           *)
Post(p, x) ==
    /\ Free(p) /\ notice[x] = "none"
    /\ \E kind \in {"plain", "important"} :
           /\ notice' = [notice EXCEPT ![x] = kind]
           /\ IF kind = "important"
                THEN /\ announced' = announced \cup {x}
                     /\ fan' = [fan EXCEPT ![p] = x]
                     /\ left' = [left EXCEPT ![p] = Resident]
                     /\ fresh' = [fresh EXCEPT ![p] = TRUE]
                ELSE UNCHANGED <<announced, fan, left, fresh>>
    /\ UNCHANGED nvars

(* A notice that becomes important later is announced to nobody. *)
Update(x) ==
    /\ notice[x] \in {"plain", "important"}
    /\ notice' = [notice EXCEPT ![x] = IF @ = "plain" THEN "important" ELSE "plain"]
    /\ UNCHANGED <<nvars, announced, fan, left, fresh>>

Delete(x) ==
    /\ notice[x] \in {"plain", "important"}
    /\ notice' = [notice EXCEPT ![x] = "deleted"]
    /\ UNCHANGED <<nvars, announced, fan, left, fresh>>

Readable(p) == fresh[p] \/ notice[fan[p]] # "deleted"

(* A mutation of Remaining: the loop returns after its first resident.     *)
Remaining_None(p, r) == {}

Remaining(p, r) == left[p] \ {r}

Announce(p, r) ==
    /\ pc[p] = "idle" /\ fan[p] # NoNotice
    /\ r \in left[p] /\ Readable(p)
    /\ Create(p, <<fan[p], r>>) \/ CreateFails(p, <<fan[p], r>>)
    /\ left' = [left EXCEPT ![p] = Remaining(p, r)]
    /\ fresh' = [fresh EXCEPT ![p] = FALSE]
    /\ UNCHANGED <<notice, announced, fan>>

EndFan(p) ==
    /\ fan' = [fan EXCEPT ![p] = NoNotice]
    /\ left' = [left EXCEPT ![p] = {}]
    /\ fresh' = [fresh EXCEPT ![p] = FALSE]
    /\ UNCHANGED <<notice, announced>>

(* Everybody is told, or the notice cannot be read any more. *)
Finish(p) ==
    /\ pc[p] = "idle" /\ fan[p] # NoNotice
    /\ left[p] = {} \/ ~Readable(p)
    /\ EndFan(p)
    /\ UNCHANGED nvars

(* Any other business request that notifies somebody. *)
Hook(p, n) ==
    /\ Free(p) /\ n \notin Announcement
    /\ Create(p, n) \/ CreateFails(p, n)
    /\ UNCHANGED board

WebDies(p) ==
    /\ ~Free(p)
    /\ Crash(p, {fan[p]} \X left[p])
    /\ EndFan(p)

WorkerDies(w) ==
    /\ pc[w] # "idle"
    /\ Crash(w, {})
    /\ UNCHANGED board

Announcing(p) == (\E r \in Resident : Announce(p, r)) \/ Finish(p)

BoardNext ==
    \/ \E x \in Notice : Update(x) \/ Delete(x) \/ \E p \in Web : Post(p, x)
    \/ \E p \in Web : Announcing(p) \/ WebDies(p) \/ \E n \in Note : Hook(p, n)
    \/ \E w \in Worker : WorkerDies(w)
    \/ \E p \in Process : (Deliver(p) \/ DeliveryFails(p)) /\ UNCHANGED board
    \/ Broker /\ UNCHANGED board

BoardSpec == BoardInit /\ [][BoardNext]_nbvars

FairBoardSpec ==
    /\ BoardSpec
    /\ DeliveryFairness
    /\ \A p \in Web : WF_nbvars(Announcing(p))

-----------------------------------------------------------------------------

(* Every variable has its type. *)
BoardTypeOK ==
    /\ MailTypeOK
    /\ notice \in [Notice -> {"none", "plain", "important", "deleted"}]
    /\ announced \subseteq Notice
    /\ fan \in [Web -> Notice \cup {NoNotice}]
    /\ left \in [Web -> SUBSET Resident]
    /\ fresh \in [Web -> BOOLEAN]

(* Of a notice posted as important, a delivery to every resident of that   *)
(* moment is attempted, and the attempt comes to an outcome, SENT or       *)
(* FAILED: one resident's failed mail keeps nobody else from theirs.  Left *)
(* out are the residents whose notification could not be created, whose    *)
(* outcome could not be written or whose process died (lost), and those    *)
(* without an outcome when the notice is deleted: the loop comes to no     *)
(* more of them (create_notice).                                           *)
EveryResidentAttempted ==
    \A x \in Notice, r \in Resident :
        x \in announced ~>
            Settled(<<x, r>>) \/ <<x, r>> \in lost \/ notice[x] = "deleted"
=============================================================================
