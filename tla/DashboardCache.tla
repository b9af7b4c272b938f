--------------------------- MODULE DashboardCache ---------------------------
(***************************************************************************)
(* The dashboards (app/routers/dashboards.py) and the Redis cache in front *)
(* of them (app/core/cache.py).  A reader takes the cached answer or, on a *)
(* miss, makes several SELECTs one after the other, stores what it made    *)
(* with a time to live, and answers it.  Some writers, after their commit, *)
(* delete the keys of the dashboards that they have changed: a SCAN, then  *)
(* a DELETE of what it found.  Every cache operation is best effort.       *)
(*                                                                         *)
(* The figures of a dashboard are told apart by the number of commits that *)
(* they come after.  Handlers have no time limit; the models give a reader *)
(* at most MaxQuery from its miss to its answer.                           *)
(***************************************************************************)
EXTENDS Integers, Sequences

CONSTANTS
    Reader, Writer,
    TTL,            \* CACHE_TTL
    MaxQuery,       \* how long a reader takes: an assumption
    MaxClock,       \* bound: the clock
    MaxWrites       \* bound: commits

ASSUME CacheAssumption ==
    /\ TTL \in Nat /\ MaxQuery \in Nat /\ MaxClock \in Nat /\ MaxWrites \in Nat

(* dash:resident:<id>, dash:staff, dash:accountant:<period> *)
Key == {"resident", "staff", "accountant"}

Kind == {"capture", "billing", "status", "other"}

VARIABLES
    clock,
    commits,        \* the times of the commits that changed each dashboard
    cached,         \* what Redis has
    up,             \* Redis can be reached
    shown           \* the versions of the last answer

VARIABLES
    rpc,            \* where each reader is
    about,          \* the dashboard it is asked for
    since,          \* when it missed
    read            \* the versions its first and its last SELECT saw

reader == <<rpc, about, since, read>>

VARIABLES
    wpc,            \* where each writer is
    todo,           \* the keys it has still to invalidate, in this order
    found,          \* its SCAN found the first of them
    alone,          \* no reader was at work on that one at its SCAN
    mine            \* the versions after its commit

writer == <<wpc, todo, found, alone, mine>>

VARIABLES
    floor,          \* no version older than this is cached any more
    writes

cvars == <<clock, commits, cached, up, shown, reader, writer, floor, writes>>

NoEntry == [first |-> 0, last |-> 0, expires |-> 0]

Versions == [first : Nat, last : Nat]

Version(k) == Len(commits[k])

CacheInit ==
    /\ clock = 0
    /\ commits = [k \in Key |-> <<>>]
    /\ cached = [k \in Key |-> NoEntry]
    /\ up \in BOOLEAN
    /\ shown = [k \in Key |-> [first |-> 0, last |-> 0]]
    /\ rpc = [r \in Reader |-> "idle"]
    /\ about = [r \in Reader |-> "staff"]
    /\ since = [r \in Reader |-> 0]
    /\ read = [r \in Reader |-> [first |-> 0, last |-> 0]]
    /\ wpc = [w \in Writer |-> "idle"]
    /\ todo = [w \in Writer |-> <<>>]
    /\ found = [w \in Writer |-> FALSE]
    /\ alone = [w \in Writer |-> FALSE]
    /\ mine = [w \in Writer |-> [k \in Key |-> 0]]
    /\ floor = [k \in Key |-> 0]
    /\ writes = 0

-----------------------------------------------------------------------------
(* Redis *)

Cached(k) == clock < cached[k].expires

Forget(k) == cached' = [cached EXCEPT ![k] = NoEntry]

(* Redis goes away and comes back. *)
Toggle ==
    /\ up' = ~up
    /\ UNCHANGED <<clock, commits, cached, shown, reader, writer, floor, writes>>

(* It evicts an entry, or restarts without it. *)
Evict(k) ==
    /\ Cached(k)
    /\ Forget(k)
    /\ UNCHANGED <<clock, commits, up, shown, reader, writer, floor, writes>>

(* Time passes, entries expire, and readers keep to their time. *)
Tick ==
    /\ clock < MaxClock
    /\ \A r \in Reader : rpc[r] # "idle" => clock < since[r] + MaxQuery
    /\ clock' = clock + 1
    /\ cached' = [k \in Key |-> IF cached[k].expires > clock' THEN cached[k] ELSE NoEntry]
    /\ UNCHANGED <<commits, up, shown, reader, writer, floor, writes>>

-----------------------------------------------------------------------------
(* Readers *)

Hit(r, k) ==
    /\ rpc[r] = "idle" /\ up /\ Cached(k)
    /\ shown' = [shown EXCEPT ![k] = [first |-> cached[k].first, last |-> cached[k].last]]
    /\ UNCHANGED <<clock, commits, cached, up, reader, writer, floor, writes>>

(* cache_get finds nothing or fails; the first SELECT. *)
Miss(r, k) ==
    /\ rpc[r] = "idle" /\ ~(up /\ Cached(k))
    /\ rpc' = [rpc EXCEPT ![r] = "query"]
    /\ about' = [about EXCEPT ![r] = k]
    /\ since' = [since EXCEPT ![r] = clock]
    /\ read' = [read EXCEPT ![r] = [first |-> Version(k), last |-> Version(k)]]
    /\ UNCHANGED <<clock, commits, cached, up, shown, writer, floor, writes>>

(* A SELECT sees what is committed when it runs. *)
Select(k) == Version(k)

Query(r) ==
    /\ rpc[r] = "query"
    /\ rpc' = [rpc EXCEPT ![r] = "set"]
    /\ read' = [read EXCEPT ![r].last = Select(about[r])]
    /\ UNCHANGED <<clock, commits, cached, up, shown, about, since, writer, floor, writes>>

(* A mutation of Expiry: it is counted from the entry that was there.      *)
Expiry_Renewed(k) == IF Cached(k) THEN cached[k].expires + TTL ELSE clock + TTL

(* setex *)
Expiry(k) == clock + TTL

Entry(r) ==
    [first |-> read[r].first, last |-> read[r].last, expires |-> Expiry(about[r])]

EndReader(r) ==
    /\ rpc' = [rpc EXCEPT ![r] = "idle"]
    /\ about' = [about EXCEPT ![r] = "staff"]
    /\ since' = [since EXCEPT ![r] = 0]
    /\ read' = [read EXCEPT ![r] = [first |-> 0, last |-> 0]]

(* cache_set and the answer. *)
Answer(r) ==
    /\ rpc[r] = "set"
    /\ IF up
         THEN cached' = [cached EXCEPT ![about[r]] = Entry(r)]
         ELSE UNCHANGED cached
    /\ shown' = [shown EXCEPT ![about[r]] = read[r]]
    /\ EndReader(r)
    /\ UNCHANGED <<clock, commits, up, writer, floor, writes>>

ReaderDies(r) ==
    /\ rpc[r] # "idle"
    /\ EndReader(r)
    /\ UNCHANGED <<clock, commits, cached, up, shown, writer, floor, writes>>

-----------------------------------------------------------------------------
(* Writers *)

(* The keys each kind of write invalidates: capture_success, the billing   *)
(* run, update_status.  Complaints filed, priorities, late fees, expenses, *)
(* manual postings, notices and roles invalidate nothing.                  *)
Invalidated(kind) ==
    CASE kind = "capture" -> <<"resident", "accountant">>
      [] kind = "billing" -> <<"accountant", "resident">>
      [] kind = "status"  -> <<"staff", "resident">>
      [] kind = "other"   -> <<>>

(* The dashboards each kind changes; for the other kinds, any of them.     *)
Changes(kind) ==
    CASE kind \in {"capture", "billing"} -> {{"resident", "accountant"}}
      [] kind = "status" -> {{"resident", "staff"}}
      [] kind = "other"  -> {{k} : k \in Key}

Commit(w) ==
    /\ wpc[w] = "idle" /\ writes < MaxWrites
    /\ writes' = writes + 1
    /\ \E kind \in Kind : \E K \in Changes(kind) :
           /\ commits' = [k \in Key |-> IF k \in K THEN Append(commits[k], clock) ELSE commits[k]]
           /\ todo' = [todo EXCEPT ![w] = Invalidated(kind)]
           /\ wpc' = [wpc EXCEPT ![w] = IF kind = "other" THEN "idle" ELSE "scan"]
           /\ mine' = [mine EXCEPT ![w] =
                          [k \in Key |-> IF kind # "other" THEN Len(commits'[k]) ELSE 0]]
    /\ UNCHANGED <<clock, cached, up, shown, reader, found, alone, floor>>

EndWriter(w) ==
    /\ wpc' = [wpc EXCEPT ![w] = "idle"]
    /\ todo' = [todo EXCEPT ![w] = <<>>]
    /\ found' = [found EXCEPT ![w] = FALSE]
    /\ alone' = [alone EXCEPT ![w] = FALSE]
    /\ mine' = [mine EXCEPT ![w] = [k \in Key |-> 0]]

(* The next key, or the end of the writer. *)
Proceed(w) ==
    IF Tail(todo[w]) = <<>>
      THEN EndWriter(w)
      ELSE /\ wpc' = [wpc EXCEPT ![w] = "scan"]
           /\ todo' = [todo EXCEPT ![w] = Tail(@)]
           /\ found' = [found EXCEPT ![w] = FALSE]
           /\ alone' = [alone EXCEPT ![w] = FALSE]
           /\ UNCHANGED mine

(* A mutation of Matches: the prefix names no key. *)
Matches_None(k) == FALSE

(* The SCAN finds the key. *)
Matches(k) == Cached(k)

Scan(w) ==
    /\ wpc[w] = "scan" /\ up
    /\ wpc' = [wpc EXCEPT ![w] = "delete"]
    /\ found' = [found EXCEPT ![w] = Matches(Head(todo[w]))]
    /\ alone' = [alone EXCEPT ![w] =
                    \A r \in Reader : rpc[r] # "idle" => about[r] # Head(todo[w])]
    /\ UNCHANGED <<clock, commits, cached, up, shown, reader, todo, mine, floor, writes>>

Delete(w) ==
    /\ wpc[w] = "delete" /\ up
    /\ LET k == Head(todo[w])
       IN  /\ IF found[w] THEN Forget(k) ELSE UNCHANGED cached
           /\ floor' = IF alone[w] /\ floor[k] < mine[w][k]
                         THEN [floor EXCEPT ![k] = mine[w][k]] ELSE floor
    /\ Proceed(w)
    /\ UNCHANGED <<clock, commits, up, shown, reader, writes>>

(* Redis cannot be reached: the key is left as it is. *)
GiveUp(w) ==
    /\ wpc[w] \in {"scan", "delete"} /\ ~up
    /\ Proceed(w)
    /\ UNCHANGED <<clock, commits, cached, up, shown, reader, floor, writes>>

WriterDies(w) ==
    /\ wpc[w] # "idle"
    /\ EndWriter(w)
    /\ UNCHANGED <<clock, commits, cached, up, shown, reader, floor, writes>>

-----------------------------------------------------------------------------

Reading(r) == (\E k \in Key : Hit(r, k) \/ Miss(r, k)) \/ Query(r) \/ Answer(r) \/ ReaderDies(r)

Writing(w) == Commit(w) \/ Scan(w) \/ Delete(w) \/ GiveUp(w) \/ WriterDies(w)

CacheNext ==
    \/ Toggle \/ Tick \/ \E k \in Key : Evict(k)
    \/ \E r \in Reader : Reading(r)
    \/ \E w \in Writer : Writing(w)

CacheSpec == CacheInit /\ [][CacheNext]_cvars

-----------------------------------------------------------------------------

(* Every variable has its type. *)
CacheTypeOK ==
    /\ clock \in Nat
    /\ commits \in [Key -> Seq(Nat)]
    /\ cached \in [Key -> [first : Nat, last : Nat, expires : Nat]]
    /\ up \in BOOLEAN
    /\ shown \in [Key -> Versions]
    /\ rpc \in [Reader -> {"idle", "query", "set"}]
    /\ about \in [Reader -> Key]
    /\ since \in [Reader -> Nat]
    /\ read \in [Reader -> Versions]
    /\ wpc \in [Writer -> {"idle", "scan", "delete"}]
    /\ todo \in [Writer -> Seq(Key)]
    /\ found \in [Writer -> BOOLEAN]
    /\ alone \in [Writer -> BOOLEAN]
    /\ mine \in [Writer -> [Key -> Nat]]
    /\ floor \in [Key -> Nat]
    /\ writes \in Nat

(* Once a writer's invalidation of a key is through, and no reader was at  *)
(* work on that dashboard when its SCAN ran, nothing older than its commit *)
(* is ever cached again (invalidate_prefix after the commit, and SELECTs   *)
(* that see what is committed).                                            *)
InvalidatedStaysGone == \A k \in Key : Cached(k) => cached[k].first >= floor[k]

(* The dashboards are a read of bounded staleness, through lost            *)
(* invalidations, outages of Redis, crashes and overlapping readers: the   *)
(* bound is the time to live and the time a reader takes.                  *)
Promise == INSTANCE BoundedRead WITH Bound <- TTL + MaxQuery

ImplementsBoundedRead == Promise!Spec
=============================================================================
