----------------------------- MODULE BoundedRead -----------------------------
(***************************************************************************)
(* What a cached dashboard promises: each answer is made of figures of the *)
(* database that were current no longer than Bound ago, and its figures    *)
(* are no older the later they stand in it.  Nothing here knows of a       *)
(* cache, of invalidation or of its failures; DashboardCache is the        *)
(* program (app/routers/dashboards.py with app/core/cache.py).             *)
(***************************************************************************)
EXTENDS Integers, Sequences

CONSTANTS Key, Bound

VARIABLES
    clock,
    commits,        \* the times of the commits that changed each dashboard
    shown           \* the versions that its last answer was made of

vars == <<clock, commits, shown>>

(* Version v is the state after v commits. *)
Version(k) == Len(commits[k])

(* It is current, or was Bound ago. *)
Recent(k, v) == v = Version(k) \/ (v < Version(k) /\ commits[k][v + 1] >= clock - Bound)

Init ==
    /\ clock = 0
    /\ commits = [k \in Key |-> <<>>]
    /\ shown = [k \in Key |-> [first |-> 0, last |-> 0]]

Tick ==
    /\ clock' = clock + 1
    /\ UNCHANGED <<commits, shown>>

Write ==
    /\ \E K \in SUBSET Key :
           commits' = [k \in Key |-> IF k \in K THEN Append(commits[k], clock) ELSE commits[k]]
    /\ UNCHANGED <<clock, shown>>

Answer(k) ==
    /\ \E a, b \in 0 .. Version(k) :
           /\ a <= b
           /\ Recent(k, a)
           /\ shown' = [shown EXCEPT ![k] = [first |-> a, last |-> b]]
    /\ UNCHANGED <<clock, commits>>

Spec == Init /\ [][Tick \/ Write \/ \E k \in Key : Answer(k)]_vars
=============================================================================
