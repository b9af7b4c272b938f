------------------------ MODULE DashboardCacheProofs ------------------------
(***************************************************************************)
(* Proofs about DashboardCache: for any numbers of readers and writers,    *)
(* any time to live and any number of commits, the cached dashboards are   *)
(* reads of bounded staleness, and an undisturbed invalidation is final.   *)
(***************************************************************************)
EXTENDS DashboardCache, TLAPS

(* Version v of dashboard k was still current at time t. *)
CurrentAt(k, v, t) ==
    /\ v <= Version(k)
    /\ v < Version(k) => commits[k][v + 1] >= t

(* A reader has been at work since it missed, and keeps to its time.       *)
ReaderInv(r) ==
    rpc[r] # "idle" =>
        /\ since[r] <= clock /\ clock <= since[r] + MaxQuery
        /\ read[r].first <= read[r].last /\ read[r].last <= Version(about[r])
        /\ CurrentAt(about[r], read[r].first, since[r])
        /\ read[r].first >= floor[about[r]]

(* A cached answer was begun at most MaxQuery before it was stored.        *)
EntryInv(k) ==
    Cached(k) =>
        /\ cached[k].expires <= clock + TTL
        /\ cached[k].first <= cached[k].last /\ cached[k].last <= Version(k)
        /\ CurrentAt(k, cached[k].first, cached[k].expires - TTL - MaxQuery)
        /\ cached[k].first >= floor[k]

(* Writer w is about to delete key k that no reader was at work on when it *)
(* scanned: whoever is now, and whatever was stored since, saw its commit. *)
Undisturbed(w, k) ==
    /\ \A r \in Reader : rpc[r] # "idle" /\ about[r] = k => read[r].first >= mine[w][k]
    /\ ~found[w] /\ Cached(k) => cached[k].first >= mine[w][k]

WriterInv(w) ==
    /\ wpc[w] # "idle" => todo[w] # <<>> /\ \A k \in Key : mine[w][k] <= Version(k)
    /\ wpc[w] = "delete" /\ alone[w] => Undisturbed(w, Head(todo[w]))

CacheInv ==
    /\ CacheTypeOK
    /\ \A r \in Reader : ReaderInv(r)
    /\ \A k \in Key : EntryInv(k)
    /\ \A w \in Writer : WriterInv(w)
    /\ \A k \in Key : floor[k] <= Version(k)

-----------------------------------------------------------------------------

(* Versions and their times are numbers. *)
LEMMA CommitTimes ==
    ASSUME CacheInv, NEW k \in Key
    PROVE  Version(k) \in Nat /\ \A v \in Nat : v < Version(k) => commits[k][v + 1] \in Nat
<1>1. commits[k] \in Seq(Nat)
  BY DEF CacheInv, CacheTypeOK
<1>2. Len(commits[k]) \in Nat /\ \A i \in 1 .. Len(commits[k]) : commits[k][i] \in Nat
  BY <1>1
<1> QED BY <1>2 DEF Version

(* What was current then was current at any time before it was replaced.   *)
LEMMA CurrentBefore ==
    ASSUME CacheInv, NEW k \in Key, NEW v \in Nat, NEW t \in Int, NEW u \in Int,
           CurrentAt(k, v, t), u <= t
    PROVE  CurrentAt(k, v, u)
BY CommitTimes DEF CurrentAt

LEMMA CacheInitially == CacheInit => CacheInv
<1> SUFFICES ASSUME CacheInit PROVE CacheInv
  OBVIOUS
<1> USE CacheAssumption DEF CacheInit
<1>1. CacheTypeOK
  BY DEF CacheTypeOK, Key, NoEntry, Versions
<1>2. \A k \in Key : ~Cached(k) /\ Version(k) = 0
  BY DEF Cached, NoEntry, Version
<1>3. \A r \in Reader : ReaderInv(r)
  BY DEF ReaderInv
<1>4. \A k \in Key : EntryInv(k)
  BY <1>2 DEF EntryInv
<1>5. \A w \in Writer : WriterInv(w)
  BY DEF WriterInv
<1>6. \A k \in Key : floor[k] <= Version(k)
  BY <1>2
<1> QED BY <1>1, <1>3, <1>4, <1>5, <1>6 DEF CacheInv

(* The clock and the database stay, and what a step does to one reader or  *)
(* one entry does not matter to the others.                                *)
LEMMA ToggleKeeps == CacheInv /\ Toggle => CacheInv'
<1> SUFFICES ASSUME CacheInv, Toggle PROVE CacheInv'
  OBVIOUS
<1> USE DEF Toggle, reader, writer, CacheInv
<1>1. CacheTypeOK'
  BY DEF CacheTypeOK
<1>2. \A r \in Reader : ReaderInv(r)'
  BY DEF ReaderInv, CurrentAt, Version
<1>3. \A k \in Key : EntryInv(k)'
  BY DEF EntryInv, Cached, CurrentAt, Version
<1>4. \A w \in Writer : WriterInv(w)'
  BY DEF WriterInv, Undisturbed, Cached, Version
<1> QED BY <1>1, <1>2, <1>3, <1>4 DEF Version

LEMMA EvictKeeps ==
    ASSUME CacheInv, NEW k \in Key, Evict(k)
    PROVE  CacheInv'
<1> USE DEF Evict, Forget, reader, writer, CacheInv
<1>1. CacheTypeOK'
  BY DEF CacheTypeOK, NoEntry
<1>2. \A r \in Reader : ReaderInv(r)'
  BY DEF ReaderInv, CurrentAt, Version
<1>3. \A q \in Key : Cached(q)' => Cached(q) /\ cached'[q] = cached[q]
  BY DEF CacheTypeOK, Cached, NoEntry
<1>4. \A q \in Key : EntryInv(q)'
  BY <1>3 DEF EntryInv, CurrentAt, Version
<1>5. \A w \in Writer : WriterInv(w)'
  <2> SUFFICES ASSUME NEW w \in Writer PROVE WriterInv(w)'
    OBVIOUS
  <2>1. wpc[w] # "idle" => Head(todo[w]) \in Key
    BY DEF CacheTypeOK, WriterInv
  <2> QED BY <1>3, <2>1 DEF WriterInv, Undisturbed, Version
<1> QED BY <1>1, <1>2, <1>4, <1>5 DEF Version

LEMMA TickKeeps == CacheInv /\ Tick => CacheInv'
<1> SUFFICES ASSUME CacheInv, Tick PROVE CacheInv'
  OBVIOUS
<1> USE CacheAssumption DEF Tick, reader, writer, CacheInv
<1>1. CacheTypeOK'
  BY DEF CacheTypeOK, NoEntry
<1>2. \A r \in Reader : ReaderInv(r)'
  BY DEF ReaderInv, CurrentAt, Version, CacheTypeOK
<1>3. \A q \in Key : Cached(q)' => Cached(q) /\ cached'[q] = cached[q]
  BY DEF CacheTypeOK, Cached, NoEntry
<1>4. \A q \in Key : EntryInv(q)'
  BY <1>3 DEF EntryInv, CurrentAt, Version, CacheTypeOK
<1>5. \A w \in Writer : WriterInv(w)'
  <2> SUFFICES ASSUME NEW w \in Writer PROVE WriterInv(w)'
    OBVIOUS
  <2>1. wpc[w] # "idle" => Head(todo[w]) \in Key
    BY DEF CacheTypeOK, WriterInv
  <2> QED BY <1>3, <2>1 DEF WriterInv, Undisturbed, Version
<1> QED BY <1>1, <1>2, <1>4, <1>5 DEF Version

LEMMA HitKeeps ==
    ASSUME CacheInv, NEW r \in Reader, NEW k \in Key, Hit(r, k)
    PROVE  CacheInv'
<1> USE DEF Hit, reader, writer, CacheInv
<1>1. CacheTypeOK'
  BY DEF CacheTypeOK, Versions
<1>2. \A q \in Reader : ReaderInv(q)'
  BY DEF ReaderInv, CurrentAt, Version
<1>3. \A q \in Key : EntryInv(q)'
  BY DEF EntryInv, Cached, CurrentAt, Version
<1>4. \A w \in Writer : WriterInv(w)'
  BY DEF WriterInv, Undisturbed, Cached, Version
<1> QED BY <1>1, <1>2, <1>3, <1>4 DEF Version

LEMMA MissKeeps ==
    ASSUME CacheInv, NEW r \in Reader, NEW k \in Key, Miss(r, k)
    PROVE  CacheInv'
<1> USE CacheAssumption DEF Miss, writer, CacheInv
<1>0. Version(k) \in Nat
  BY DEF CacheTypeOK, Version
<1>1. CacheTypeOK'
  BY <1>0 DEF CacheTypeOK, Versions
<1>2. \A q \in Reader : ReaderInv(q)'
  <2> SUFFICES ASSUME NEW q \in Reader PROVE ReaderInv(q)'
    OBVIOUS
  <2>1. CASE q = r
    BY <1>0, <2>1 DEF ReaderInv, CurrentAt, Version, CacheTypeOK
  <2>2. CASE q # r
    BY <2>2 DEF ReaderInv, CurrentAt, Version, CacheTypeOK
  <2> QED BY <2>1, <2>2
<1>3. \A q \in Key : EntryInv(q)'
  BY DEF EntryInv, Cached, CurrentAt, Version
<1>4. \A w \in Writer : WriterInv(w)'
  <2> SUFFICES ASSUME NEW w \in Writer PROVE WriterInv(w)'
    OBVIOUS
  <2>1. wpc[w] # "idle" => \A q \in Key : mine[w][q] <= Version(q)
    BY DEF WriterInv
  <2>2. wpc[w] # "idle" => Head(todo[w]) \in Key
    BY DEF CacheTypeOK, WriterInv
  <2> QED BY <1>0, <2>1, <2>2 DEF WriterInv, Undisturbed, Cached, Version, CacheTypeOK
<1> QED BY <1>1, <1>2, <1>3, <1>4 DEF Version

LEMMA QueryKeeps ==
    ASSUME CacheInv, NEW r \in Reader, Query(r)
    PROVE  CacheInv'
<1> USE CacheAssumption DEF Query, Select, writer, CacheInv
<1>0. about[r] \in Key /\ Version(about[r]) \in Nat
  BY DEF CacheTypeOK, Version
<1>1. CacheTypeOK'
  BY <1>0 DEF CacheTypeOK, Versions
<1>2. \A q \in Reader : ReaderInv(q)'
  <2> SUFFICES ASSUME NEW q \in Reader PROVE ReaderInv(q)'
    OBVIOUS
  <2>1. CASE q = r
    <3>1. read'[r].first = read[r].first /\ read'[r].last = Version(about[r]) /\ read[r] \in Versions
      BY DEF CacheTypeOK, Versions
    <3>2. ReaderInv(r) /\ rpc[r] # "idle" /\ read[r].first \in Nat /\ read[r].last \in Nat
      BY DEF CacheTypeOK, Versions
    <3>3. read[r].first <= Version(about[r])
      BY <1>0, <3>2 DEF ReaderInv
    <3> QED BY <1>0, <2>1, <3>1, <3>2, <3>3 DEF ReaderInv, CurrentAt, Version
  <2>2. CASE q # r
    BY <2>2 DEF ReaderInv, CurrentAt, Version, CacheTypeOK
  <2> QED BY <2>1, <2>2
<1>3. \A q \in Key : EntryInv(q)'
  BY DEF EntryInv, Cached, CurrentAt, Version
<1>4. \A q \in Reader : read'[q].first = read[q].first /\ (rpc'[q] # "idle" <=> rpc[q] # "idle")
  BY DEF CacheTypeOK, Versions
<1>5. \A w \in Writer : WriterInv(w)'
  BY <1>4 DEF WriterInv, Undisturbed, Cached, Version
<1> QED BY <1>1, <1>2, <1>3, <1>5 DEF Version

LEMMA ReaderDiesKeeps ==
    ASSUME CacheInv, NEW r \in Reader, ReaderDies(r)
    PROVE  CacheInv'
<1> USE DEF ReaderDies, EndReader, writer, CacheInv
<1>1. CacheTypeOK'
  BY DEF CacheTypeOK, Versions, Key
<1>2. \A q \in Reader : ReaderInv(q)'
  BY DEF ReaderInv, CurrentAt, Version, CacheTypeOK
<1>3. \A q \in Key : EntryInv(q)'
  BY DEF EntryInv, Cached, CurrentAt, Version
<1>4. \A w \in Writer : WriterInv(w)'
  BY DEF WriterInv, Undisturbed, Cached, Version, CacheTypeOK
<1> QED BY <1>1, <1>2, <1>3, <1>4 DEF Version

(* What a reader stores was current when it missed, MaxQuery ago at most.  *)
LEMMA AnswerKeeps ==
    ASSUME CacheInv, NEW r \in Reader, Answer(r)
    PROVE  CacheInv'
<1> USE CacheAssumption DEF Answer, EndReader, Entry, Expiry, writer, CacheInv
<1>0. /\ about[r] \in Key /\ read[r] \in Versions /\ clock + TTL \in Nat
      /\ Entry(r) \in [first : Nat, last : Nat, expires : Nat]
  <2>1. about[r] \in Key /\ read[r] \in Versions /\ clock + TTL \in Nat
    BY DEF CacheTypeOK
  <2> QED BY <2>1 DEF Versions
<1>1. CacheTypeOK'
  <2>1. cached' \in [Key -> [first : Nat, last : Nat, expires : Nat]]
    BY <1>0 DEF CacheTypeOK
  <2>2. shown' \in [Key -> Versions]
    BY <1>0 DEF CacheTypeOK
  <2>3. /\ rpc' \in [Reader -> {"idle", "query", "set"}] /\ about' \in [Reader -> Key]
        /\ since' \in [Reader -> Nat] /\ read' \in [Reader -> Versions]
    BY DEF CacheTypeOK, Versions, Key
  <2> QED BY <2>1, <2>2, <2>3 DEF CacheTypeOK
<1>2. \A q \in Reader : ReaderInv(q)'
  BY DEF ReaderInv, CurrentAt, Version, CacheTypeOK
<1>3. \A q \in Key : \/ cached'[q] = cached[q]
                     \/ q = about[r] /\ cached'[q] = Entry(r)
  BY DEF CacheTypeOK
<1>4. \A q \in Key : EntryInv(q)'
  <2> SUFFICES ASSUME NEW q \in Key PROVE EntryInv(q)'
    OBVIOUS
  <2>1. CASE cached'[q] = cached[q]
    BY <2>1 DEF EntryInv, Cached, CurrentAt, Version
  <2>2. CASE q = about[r] /\ cached'[q] = Entry(r)
    <3>1. ReaderInv(r) /\ rpc[r] # "idle" /\ since[r] \in Nat /\ clock \in Nat
      BY DEF CacheTypeOK
    <3>2. cached'[q].first = read[r].first /\ cached'[q].last = read[r].last
          /\ cached'[q].expires = clock + TTL
      BY <2>2
    <3>3. clock + TTL - TTL - MaxQuery <= since[r]
      BY <3>1 DEF ReaderInv
    <3>4. CurrentAt(q, read[r].first, clock + TTL - TTL - MaxQuery)
      <4>1. read[r].first \in Nat /\ CurrentAt(q, read[r].first, since[r])
        BY <1>0, <2>2, <3>1 DEF ReaderInv, Versions
      <4>2. clock + TTL - TTL - MaxQuery \in Int /\ since[r] \in Int
        BY <3>1
      <4> QED BY <3>3, <4>1, <4>2, CurrentBefore
    <3> QED BY <2>2, <3>1, <3>2, <3>4 DEF EntryInv, ReaderInv, CurrentAt, Version
  <2> QED BY <1>3, <2>1, <2>2
<1>5. \A w \in Writer : WriterInv(w)'
  <2> SUFFICES ASSUME NEW w \in Writer PROVE WriterInv(w)'
    OBVIOUS
  <2>1. wpc[w] # "idle" => todo[w] # <<>> /\ \A k \in Key : mine[w][k] <= Version(k)
    BY DEF WriterInv
  <2>2. ASSUME wpc[w] = "delete", alone[w] PROVE Undisturbed(w, Head(todo[w]))'
    <3> DEFINE k == Head(todo[w])
    <3>1. k \in Key
      BY <2>1, <2>2 DEF CacheTypeOK
    <3>2. Undisturbed(w, k) /\ k' = k
      BY <2>2 DEF WriterInv
    <3> HIDE DEF k
    <3>3. \A q \in Reader : rpc'[q] # "idle" /\ about'[q] = k => read'[q].first >= mine[w][k]
      BY <3>2 DEF Undisturbed, CacheTypeOK
    <3>4. ~found[w] /\ Cached(k)' => cached'[k].first >= mine[w][k]
      <4>1. CASE cached'[k] = cached[k]
        <5>1. Cached(k)' = Cached(k)
          BY <3>2, <4>1 DEF Cached
        <5>2. ~found[w] /\ Cached(k) => cached[k].first >= mine[w][k]
          BY <3>2, Zenon DEF Undisturbed
        <5> QED BY <4>1, <5>1, <5>2, Zenon
      <4>2. CASE k = about[r] /\ cached'[k] = Entry(r)
        BY <3>2, <4>2 DEF Undisturbed
      <4> QED BY <1>3, <3>1, <4>1, <4>2
    <3> QED BY <3>3, <3>4 DEF Undisturbed, k
  <2> QED BY <2>1, <2>2 DEF WriterInv, Version
<1> QED BY <1>1, <1>2, <1>4, <1>5 DEF Version

-----------------------------------------------------------------------------
(* Writers *)

(* A commit adds a version, now. *)
LEMMA CommitAppends ==
    ASSUME CacheInv, NEW w \in Writer, Commit(w)
    PROVE  /\ commits' \in [Key -> Seq(Nat)]
           /\ \A k \in Key : commits'[k] \in {commits[k], Append(commits[k], clock)}
           /\ \A k \in Key : Version(k) <= Version(k)'
           /\ \A k \in Key, v, t \in Int :
                  v >= 0 /\ CurrentAt(k, v, t) /\ t <= clock => CurrentAt(k, v, t)'
<1>1. PICK K : commits' = [k \in Key |-> IF k \in K THEN Append(commits[k], clock) ELSE commits[k]]
  BY DEF Commit
<1>2. commits \in [Key -> Seq(Nat)] /\ clock \in Nat
  BY DEF CacheInv, CacheTypeOK
<1>3. \A k \in Key : commits'[k] \in {commits[k], Append(commits[k], clock)}
  BY <1>1
<1>4. commits' \in [Key -> Seq(Nat)]
  BY <1>1, <1>2
<1>5. ASSUME NEW k \in Key
      PROVE  /\ Version(k) <= Version(k)'
             /\ \A v, t \in Int : v >= 0 /\ CurrentAt(k, v, t) /\ t <= clock => CurrentAt(k, v, t)'
  <2>1. commits[k] \in Seq(Nat) /\ Len(commits[k]) \in Nat
    BY <1>2
  <2>2. CASE commits'[k] = commits[k]
    BY <2>1, <2>2 DEF Version, CurrentAt
  <2>3. CASE commits'[k] = Append(commits[k], clock)
    <3>1. Len(commits'[k]) = Len(commits[k]) + 1
      BY <2>1, <2>3, <1>2
    <3>2. commits'[k][Len(commits[k]) + 1] = clock
      BY <2>1, <2>3, <1>2
    <3>3. \A i \in 1 .. Len(commits[k]) : commits'[k][i] = commits[k][i]
      BY <2>1, <2>3, <1>2
    <3>4. Version(k) = Len(commits[k]) /\ Version(k)' = Len(commits[k]) + 1
      BY <3>1 DEF Version
    <3>5. ASSUME NEW v \in Int, NEW t \in Int, v >= 0, CurrentAt(k, v, t), t <= clock
          PROVE  CurrentAt(k, v, t)'
      <4>1. v <= Len(commits[k]) /\ (v < Len(commits[k]) => commits[k][v + 1] >= t)
        BY <3>4, <3>5 DEF CurrentAt
      <4>2. CASE v = Len(commits[k])
        BY <2>1, <3>2, <3>4, <3>5, <4>2 DEF CurrentAt
      <4>3. CASE v < Len(commits[k])
        <5>1. commits'[k][v + 1] = commits[k][v + 1]
          BY <2>1, <3>3, <3>5, <4>3
        <5> QED BY <2>1, <3>4, <4>1, <4>3, <5>1 DEF CurrentAt
      <4> QED BY <2>1, <4>1, <4>2, <4>3
    <3> QED BY <2>1, <3>4, <3>5
  <2> QED BY <1>3, <2>2, <2>3
<1> QED BY <1>3, <1>4, <1>5

LEMMA CommitKeeps ==
    ASSUME CacheInv, NEW w \in Writer, Commit(w)
    PROVE  CacheInv'
<1> USE CacheAssumption
<1>0. PICK kind \in Kind :
          /\ todo' = [todo EXCEPT ![w] = Invalidated(kind)]
          /\ wpc' = [wpc EXCEPT ![w] = IF kind = "other" THEN "idle" ELSE "scan"]
          /\ mine' = [mine EXCEPT ![w] =
                          [k \in Key |-> IF kind # "other" THEN Len(commits'[k]) ELSE 0]]
  BY DEF Commit
<1>1. wpc[w] = "idle" /\ writes' = writes + 1
      /\ UNCHANGED <<clock, cached, up, shown, reader, found, alone, floor>>
  BY DEF Commit
<1>2. commits' \in [Key -> Seq(Nat)] /\ \A k \in Key : Version(k)' \in Nat
  BY CommitAppends DEF Version
<1>3. Invalidated(kind) \in Seq(Key) /\ (kind # "other" => Invalidated(kind) # <<>>)
  <2>1. /\ <<"resident", "accountant">> \in Seq(Key) /\ <<"accountant", "resident">> \in Seq(Key)
        /\ <<"staff", "resident">> \in Seq(Key) /\ <<>> \in Seq(Key)
    BY DEF Key
  <2>2. CASE kind = "capture"
    BY <2>1, <2>2 DEF Invalidated
  <2>3. CASE kind = "billing"
    BY <2>1, <2>3 DEF Invalidated
  <2>4. CASE kind = "status"
    BY <2>1, <2>4 DEF Invalidated
  <2>5. CASE kind = "other"
    BY <2>1, <2>5 DEF Invalidated
  <2> QED BY <2>2, <2>3, <2>4, <2>5 DEF Kind
<1>4. CacheTypeOK'
  <2>1. mine' \in [Writer -> [Key -> Nat]]
    <3>1. [k \in Key |-> IF kind # "other" THEN Len(commits'[k]) ELSE 0] \in [Key -> Nat]
      BY <1>2 DEF Version
    <3> QED BY <1>0, <3>1 DEF CacheInv, CacheTypeOK
  <2>2. todo' \in [Writer -> Seq(Key)]
    BY <1>0, <1>3 DEF CacheInv, CacheTypeOK
  <2>3. wpc' \in [Writer -> {"idle", "scan", "delete"}] /\ writes' \in Nat
    BY <1>0, <1>1 DEF CacheInv, CacheTypeOK
  <2> QED BY <1>1, <1>2, <2>1, <2>2, <2>3 DEF CacheInv, CacheTypeOK, reader
<1>5. \A r \in Reader : ReaderInv(r)'
  <2> SUFFICES ASSUME NEW r \in Reader, rpc[r] # "idle" PROVE ReaderInv(r)'
    BY <1>1 DEF ReaderInv, reader
  <2>1. about[r] \in Key /\ read[r] \in Versions /\ since[r] \in Nat /\ clock \in Nat
    BY DEF CacheInv, CacheTypeOK
  <2>2. /\ ReaderInv(r) /\ read[r].first \in Nat /\ read[r].last \in Nat
        /\ UNCHANGED <<clock, rpc, about, since, read, floor>>
    BY <1>1, <2>1 DEF CacheInv, Versions, reader
  <2>3. CurrentAt(about[r], read[r].first, since[r])'
    <3>1. CurrentAt(about[r], read[r].first, since[r]) /\ since[r] <= clock
      BY <2>2 DEF ReaderInv
    <3>2. \A k \in Key : CurrentAt(k, read[r].first, since[r]) => CurrentAt(k, read[r].first, since[r])'
      BY <2>1, <2>2, <3>1, CommitAppends
    <3> QED BY <2>1, <2>2, <3>1, <3>2
  <2>4. Version(about[r]) <= Version(about[r])' /\ Version(about[r]) \in Nat /\ Version(about[r])' \in Nat
    <3>1. Version(about[r]) \in Nat
      BY <2>1 DEF CacheInv, CacheTypeOK, Version
    <3>2. \A k \in Key : Version(k) <= Version(k)' /\ Version(k)' \in Nat
      BY <1>2, CommitAppends
    <3> QED BY <2>1, <2>2, <3>1, <3>2 DEF Version
  <2> QED BY <2>1, <2>2, <2>3, <2>4 DEF ReaderInv
<1>6. \A k \in Key : EntryInv(k)'
  <2> SUFFICES ASSUME NEW k \in Key, Cached(k)' PROVE EntryInv(k)'
    BY DEF EntryInv
  <2>1. EntryInv(k) /\ Cached(k) /\ cached'[k] = cached[k] /\ clock' = clock /\ floor' = floor
    BY <1>1 DEF CacheInv, Cached
  <2>2. cached[k].first \in Nat /\ cached[k].last \in Nat /\ cached[k].expires \in Nat /\ clock \in Nat
    BY DEF CacheInv, CacheTypeOK
  <2>3. CurrentAt(k, cached[k].first, cached[k].expires - TTL - MaxQuery)'
    BY <2>1, <2>2, CommitAppends DEF EntryInv
  <2>4. Version(k) <= Version(k)' /\ Version(k) \in Nat /\ Version(k)' \in Nat
    BY <1>2, CommitAppends DEF CacheInv, CacheTypeOK, Version
  <2> QED BY <2>1, <2>2, <2>3, <2>4 DEF EntryInv
<1>7. \A u \in Writer : WriterInv(u)'
  <2> SUFFICES ASSUME NEW u \in Writer PROVE WriterInv(u)'
    OBVIOUS
  <2>1. CASE u = w
    BY <1>0, <1>1, <1>2, <1>3, <2>1 DEF CacheInv, CacheTypeOK, WriterInv, Version
  <2>2. CASE u # w
    <3>1. wpc'[u] = wpc[u] /\ todo'[u] = todo[u] /\ mine'[u] = mine[u]
      BY <1>0, <2>2 DEF CacheInv, CacheTypeOK
    <3>2. \A k \in Key : Version(k) \in Nat /\ mine[u][k] \in Nat
      BY DEF CacheInv, CacheTypeOK, Version
    <3>3. \A k \in Key : mine[u][k] <= Version(k) => mine[u][k] <= Version(k)'
      BY <1>2, <3>2, CommitAppends
    <3>4. \A k \in Key : Undisturbed(u, k) => Undisturbed(u, k)'
      BY <1>1, <3>1 DEF Undisturbed, Cached, reader
    <3>5. wpc[u] # "idle" => Head(todo[u]) \in Key
      BY DEF CacheInv, CacheTypeOK, WriterInv
    <3> QED BY <1>1, <3>1, <3>3, <3>4, <3>5 DEF CacheInv, WriterInv
  <2> QED BY <2>1, <2>2
<1>8. \A k \in Key : floor'[k] <= Version(k)'
  <2>1. \A k \in Key : floor[k] \in Nat /\ Version(k) \in Nat /\ floor[k] <= Version(k)
    BY DEF CacheInv, CacheTypeOK, Version
  <2> QED BY <1>1, <1>2, <2>1, CommitAppends
<1> QED BY <1>4, <1>5, <1>6, <1>7, <1>8 DEF CacheInv

LEMMA ScanKeeps ==
    ASSUME CacheInv, NEW w \in Writer, Scan(w)
    PROVE  CacheInv'
<1> USE DEF Scan, reader, CacheInv
<1>1. CacheTypeOK'
  <2>1. found' \in [Writer -> BOOLEAN] /\ alone' \in [Writer -> BOOLEAN]
    <3>1. Matches(Head(todo[w])) \in BOOLEAN
      BY DEF Matches, Cached
    <3>2. (\A r \in Reader : rpc[r] # "idle" => about[r] # Head(todo[w])) \in BOOLEAN
      OBVIOUS
    <3> QED BY <3>1, <3>2, Zenon DEF CacheTypeOK
  <2>2. wpc' \in [Writer -> {"idle", "scan", "delete"}]
    BY DEF CacheTypeOK
  <2> QED BY <2>1, <2>2 DEF CacheTypeOK
<1>2. \A r \in Reader : ReaderInv(r)'
  BY DEF ReaderInv, CurrentAt, Version
<1>3. \A k \in Key : EntryInv(k)'
  BY DEF EntryInv, Cached, CurrentAt, Version
<1>4. \A u \in Writer : WriterInv(u)'
  BY DEF WriterInv, Undisturbed, Matches, Cached, Version, CacheTypeOK
<1> QED BY <1>1, <1>2, <1>3, <1>4 DEF Version

(* The writer goes on to its next key, or ends. *)
LEMMA ProceedKeeps ==
    ASSUME CacheInv, NEW w \in Writer, wpc[w] # "idle", Proceed(w) \/ EndWriter(w)
    PROVE  /\ wpc' \in [Writer -> {"idle", "scan", "delete"}]
           /\ todo' \in [Writer -> Seq(Key)]
           /\ found' \in [Writer -> BOOLEAN] /\ alone' \in [Writer -> BOOLEAN]
           /\ mine' \in [Writer -> [Key -> Nat]]
           /\ \A u \in Writer \ {w} :
                  /\ wpc'[u] = wpc[u] /\ todo'[u] = todo[u] /\ found'[u] = found[u]
                  /\ alone'[u] = alone[u] /\ mine'[u] = mine[u]
           /\ wpc'[w] # "delete"
           /\ wpc'[w] # "idle" => todo'[w] # <<>> /\ mine'[w] = mine[w]
<1>1. todo[w] \in Seq(Key) /\ todo[w] # <<>>
  BY DEF CacheInv, CacheTypeOK, WriterInv
<1>2. Tail(todo[w]) \in Seq(Key) /\ Head(todo[w]) \in Key
  BY <1>1
<1> USE DEF CacheInv, CacheTypeOK
<1>3. CASE EndWriter(w)
  BY <1>1, <1>3 DEF EndWriter
<1>4. CASE Proceed(w) /\ Tail(todo[w]) # <<>>
  BY <1>1, <1>2, <1>4 DEF Proceed
<1> QED BY <1>3, <1>4 DEF Proceed

LEMMA GiveUpKeeps ==
    ASSUME CacheInv, NEW w \in Writer, GiveUp(w) \/ WriterDies(w)
    PROVE  CacheInv'
<1>1. /\ wpc[w] # "idle"
      /\ Proceed(w) \/ EndWriter(w)
      /\ UNCHANGED <<clock, commits, cached, up, shown, reader, floor, writes>>
  BY DEF GiveUp, WriterDies
<1>2. CacheTypeOK'
  BY <1>1, ProceedKeeps DEF CacheInv, CacheTypeOK, reader
<1>3. \A r \in Reader : ReaderInv(r)'
  BY <1>1 DEF CacheInv, ReaderInv, CurrentAt, Version, reader
<1>4. \A k \in Key : EntryInv(k)'
  BY <1>1 DEF CacheInv, EntryInv, Cached, CurrentAt, Version
<1>5. \A u \in Writer : WriterInv(u)'
  <2> SUFFICES ASSUME NEW u \in Writer PROVE WriterInv(u)'
    OBVIOUS
  <2>1. CASE u = w
    BY <1>1, <2>1, ProceedKeeps DEF CacheInv, WriterInv, Version
  <2>2. CASE u # w
    <3>1. /\ wpc'[u] = wpc[u] /\ todo'[u] = todo[u] /\ found'[u] = found[u]
          /\ alone'[u] = alone[u] /\ mine'[u] = mine[u]
      BY <1>1, <2>2, ProceedKeeps
    <3>2. \A q \in Key : Undisturbed(u, q) => Undisturbed(u, q)'
      BY <1>1, <3>1 DEF Undisturbed, Cached, reader
    <3>3. wpc[u] # "idle" => Head(todo[u]) \in Key
      BY DEF CacheInv, CacheTypeOK, WriterInv
    <3> QED BY <1>1, <3>1, <3>2, <3>3 DEF CacheInv, WriterInv, Version
  <2> QED BY <2>1, <2>2
<1>6. \A k \in Key : floor'[k] <= Version(k)'
  BY <1>1 DEF CacheInv, Version
<1> QED BY <1>2, <1>3, <1>4, <1>5, <1>6 DEF CacheInv

(* After an undisturbed delete, nothing older than the commit is left, nor *)
(* will any reader at work store it.                                       *)
LEMMA DeleteKeeps ==
    ASSUME CacheInv, NEW w \in Writer, Delete(w)
    PROVE  CacheInv'
<1> DEFINE k == Head(todo[w])
<1>1. /\ wpc[w] = "delete" /\ Proceed(w)
      /\ UNCHANGED <<clock, commits, up, shown, reader, writes>>
  BY DEF Delete
<1>2. k \in Key /\ mine[w][k] \in Nat /\ mine[w][k] <= Version(k) /\ Version(k) \in Nat
  <2>1. todo[w] \in Seq(Key) /\ todo[w] # <<>>
    BY <1>1 DEF CacheInv, CacheTypeOK, WriterInv
  <2>2. k \in Key
    BY <2>1
  <2>3. \A q \in Key : mine[w][q] <= Version(q)
    BY <1>1 DEF CacheInv, WriterInv
  <2> HIDE DEF k
  <2>4. mine[w][k] \in Nat /\ Version(k) \in Nat
    BY <2>2 DEF CacheInv, CacheTypeOK, Version
  <2> QED BY <2>2, <2>3, <2>4
<1>3. /\ cached' = IF found[w] THEN [cached EXCEPT ![k] = NoEntry] ELSE cached
      /\ floor' = IF alone[w] /\ floor[k] < mine[w][k]
                    THEN [floor EXCEPT ![k] = mine[w][k]] ELSE floor
  BY DEF Delete, Forget
<1>4. alone[w] => Undisturbed(w, k)
  BY <1>1 DEF CacheInv, WriterInv
<1> HIDE DEF k
<1>5. CacheTypeOK'
  BY <1>1, <1>2, <1>3, ProceedKeeps DEF CacheInv, CacheTypeOK, reader, NoEntry
<1>6. \A q \in Key : Cached(q)' => Cached(q) /\ cached'[q] = cached[q] /\ (q = k => ~found[w])
  BY <1>1, <1>2, <1>3 DEF CacheInv, CacheTypeOK, Cached, NoEntry
<1>7. \A q \in Key : /\ floor'[q] \in Nat /\ floor'[q] <= Version(q)
                     /\ floor'[q] = floor[q] \/ (q = k /\ alone[w] /\ floor'[q] = mine[w][k])
  BY <1>2, <1>3 DEF CacheInv, CacheTypeOK, Version
<1>8. \A r \in Reader : ReaderInv(r)'
  <2> SUFFICES ASSUME NEW r \in Reader, rpc[r] # "idle" PROVE ReaderInv(r)'
    BY <1>1 DEF ReaderInv, reader
  <2>1. ReaderInv(r) /\ about[r] \in Key
    BY DEF CacheInv, CacheTypeOK
  <2>2. read[r].first >= floor'[about[r]]
    BY <1>4, <1>7, <2>1 DEF ReaderInv, Undisturbed
  <2> QED BY <1>1, <2>1, <2>2 DEF ReaderInv, CurrentAt, Version, reader
<1>9. \A q \in Key : EntryInv(q)'
  <2> SUFFICES ASSUME NEW q \in Key, Cached(q)' PROVE EntryInv(q)'
    BY DEF EntryInv
  <2>1. EntryInv(q) /\ Cached(q) /\ cached'[q] = cached[q] /\ (q = k => ~found[w])
    BY <1>6 DEF CacheInv
  <2>2. cached[q].first >= floor'[q]
    BY <1>4, <1>7, <2>1 DEF EntryInv, Undisturbed
  <2> QED BY <1>1, <2>1, <2>2 DEF EntryInv, CurrentAt, Version
<1>10. \A u \in Writer : WriterInv(u)'
  <2> SUFFICES ASSUME NEW u \in Writer PROVE WriterInv(u)'
    OBVIOUS
  <2>1. CASE u = w
    BY <1>1, <2>1, ProceedKeeps DEF CacheInv, WriterInv, Version
  <2>2. CASE u # w
    <3>1. /\ wpc'[u] = wpc[u] /\ todo'[u] = todo[u] /\ found'[u] = found[u]
          /\ alone'[u] = alone[u] /\ mine'[u] = mine[u]
      BY <1>1, <2>2, ProceedKeeps
    <3>2. \A q \in Key : Undisturbed(u, q) => Undisturbed(u, q)'
      BY <1>1, <1>6, <3>1 DEF Undisturbed, reader
    <3>3. wpc[u] # "idle" => Head(todo[u]) \in Key
      BY DEF CacheInv, CacheTypeOK, WriterInv
    <3> QED BY <1>1, <3>1, <3>2, <3>3 DEF CacheInv, WriterInv, Version
  <2> QED BY <2>1, <2>2
<1> QED BY <1>1, <1>5, <1>7, <1>8, <1>9, <1>10 DEF CacheInv, Version

LEMMA CacheStep == CacheInv /\ [CacheNext]_cvars => CacheInv'
<1> SUFFICES ASSUME CacheInv, [CacheNext]_cvars PROVE CacheInv'
  OBVIOUS
<1>1. ASSUME NEW r \in Reader, Reading(r) PROVE CacheInv'
  BY <1>1, HitKeeps, MissKeeps, QueryKeeps, AnswerKeeps, ReaderDiesKeeps DEF Reading
<1>2. ASSUME NEW w \in Writer, Writing(w) PROVE CacheInv'
  BY <1>2, CommitKeeps, ScanKeeps, DeleteKeeps, GiveUpKeeps DEF Writing
<1>3. CASE UNCHANGED cvars
  BY <1>3 DEF cvars, reader, writer, CacheInv, CacheTypeOK, ReaderInv, EntryInv, WriterInv,
     Undisturbed, CurrentAt, Cached, Version
<1> QED BY <1>1, <1>2, <1>3, ToggleKeeps, TickKeeps, EvictKeeps DEF CacheNext

(* The cache's inductive invariant: when what each reader, entry and       *)
(* writer holds was current.                                               *)
THEOREM CacheInvariant == CacheSpec => []CacheInv
  BY CacheInitially, CacheStep, PTL DEF CacheSpec

(* Every variable of the cache keeps its type. *)
THEOREM CacheTypeCorrect == CacheSpec => []CacheTypeOK
<1>1. CacheInv => CacheTypeOK
  BY DEF CacheInv
<1> QED BY <1>1, CacheInvariant, PTL

(* What an undisturbed invalidation removed is never cached again          *)
(* (invalidate_prefix).                                                    *)
THEOREM CacheInvalidation == CacheSpec => []InvalidatedStaysGone
<1>1. CacheInv => InvalidatedStaysGone
  BY DEF CacheInv, EntryInv, InvalidatedStaysGone
<1> QED BY <1>1, CacheInvariant, PTL

-----------------------------------------------------------------------------
(* The refinement of BoundedRead. *)

LEMMA PromiseInitially == CacheInit => Promise!Init
  BY DEF CacheInit, Promise!Init

(* A cached answer is fresh enough to be shown, and so is a new one. *)
LEMMA FreshEnough ==
    ASSUME CacheInv, NEW k \in Key, NEW x \in Versions, x.first <= x.last, x.last <= Version(k),
           \E t \in Int : CurrentAt(k, x.first, t) /\ t >= clock - (TTL + MaxQuery),
           shown' = [shown EXCEPT ![k] = x], UNCHANGED <<clock, commits>>
    PROVE  Promise!Answer(k)
<1> USE CacheAssumption
<1>1. x = [first |-> x.first, last |-> x.last] /\ x.first \in Nat /\ x.last \in Nat
  BY DEF Versions
<1>2. Version(k) \in Nat /\ clock \in Nat
  BY CommitTimes DEF CacheInv, CacheTypeOK
<1>3. CurrentAt(k, x.first, clock - (TTL + MaxQuery))
  <2>1. PICK t \in Int : CurrentAt(k, x.first, t) /\ t >= clock - (TTL + MaxQuery)
    OBVIOUS
  <2>2. clock - (TTL + MaxQuery) \in Int
    BY <1>2
  <2> QED BY <1>1, <2>1, <2>2, CurrentBefore
<1>4. Promise!Recent(k, x.first)
  BY <1>1, <1>2, <1>3 DEF Promise!Recent, Promise!Version, CurrentAt, Version
<1>5. x.first \in 0 .. Promise!Version(k) /\ x.last \in 0 .. Promise!Version(k)
  BY <1>1, <1>2 DEF Promise!Version, Version
<1> QED BY <1>1, <1>4, <1>5 DEF Promise!Answer

LEMMA PromiseStep ==
    CacheInv /\ [CacheNext]_cvars =>
        [Promise!Tick \/ Promise!Write \/ \E k \in Key : Promise!Answer(k)]_(Promise!vars)
<1> SUFFICES ASSUME CacheInv, [CacheNext]_cvars
             PROVE  \/ Promise!Tick \/ Promise!Write \/ \E k \in Key : Promise!Answer(k)
                    \/ UNCHANGED <<clock, commits, shown>>
  BY DEF Promise!vars
<1> USE CacheAssumption
<1>1. CASE Tick
  BY <1>1 DEF Tick, Promise!Tick
<1>2. ASSUME NEW w \in Writer, Commit(w) PROVE Promise!Write
  <2>1. PICK kind \in Kind : \E K \in Changes(kind) :
            commits' = [k \in Key |-> IF k \in K THEN Append(commits[k], clock) ELSE commits[k]]
    BY <1>2 DEF Commit
  <2>2. PICK K \in Changes(kind) :
            commits' = [k \in Key |-> IF k \in K THEN Append(commits[k], clock) ELSE commits[k]]
    BY <2>1
  <2>3. K \in SUBSET Key
    BY DEF Kind, Key, Changes
  <2> QED BY <1>2, <2>2, <2>3 DEF Commit, Promise!Write
<1>3. ASSUME NEW r \in Reader, NEW k \in Key, Hit(r, k) PROVE Promise!Answer(k)
  <2> DEFINE x == [first |-> cached[k].first, last |-> cached[k].last]
  <2>1. EntryInv(k) /\ Cached(k) /\ shown' = [shown EXCEPT ![k] = x] /\ UNCHANGED <<clock, commits>>
    BY <1>3 DEF Hit, CacheInv
  <2>2. cached[k].first \in Nat /\ cached[k].last \in Nat /\ cached[k].expires \in Nat /\ clock \in Nat
    BY DEF CacheInv, CacheTypeOK
  <2>3. cached[k].expires - TTL - MaxQuery >= clock - (TTL + MaxQuery)
    BY <2>1, <2>2 DEF Cached
  <2>4. x \in Versions /\ x.first = cached[k].first /\ x.last = cached[k].last
    BY <2>2 DEF Versions
  <2>5. x.first <= x.last /\ x.last <= Version(k)
        /\ CurrentAt(k, x.first, cached[k].expires - TTL - MaxQuery)
    BY <2>1, <2>4 DEF EntryInv
  <2> HIDE DEF x
  <2>6. \E t \in Int : CurrentAt(k, x.first, t) /\ t >= clock - (TTL + MaxQuery)
    <3>1. cached[k].expires - TTL - MaxQuery \in Int
      BY <2>2
    <3> QED BY <2>3, <2>5, <3>1
  <2> QED BY <2>1, <2>4, <2>5, <2>6, FreshEnough
<1>4. ASSUME NEW r \in Reader, Answer(r) PROVE Promise!Answer(about[r])
  <2>1. ReaderInv(r) /\ rpc[r] # "idle" /\ shown' = [shown EXCEPT ![about[r]] = read[r]]
        /\ UNCHANGED <<clock, commits>>
    BY <1>4 DEF Answer, CacheInv
  <2>2. about[r] \in Key /\ read[r] \in Versions /\ since[r] \in Nat /\ clock \in Nat
    BY DEF CacheInv, CacheTypeOK
  <2>3. since[r] >= clock - (TTL + MaxQuery)
    BY <2>1, <2>2 DEF ReaderInv
  <2>4. /\ read[r].first <= read[r].last /\ read[r].last <= Version(about[r])
        /\ CurrentAt(about[r], read[r].first, since[r])
    BY <2>1 DEF ReaderInv
  <2>5. \E t \in Int : CurrentAt(about[r], read[r].first, t) /\ t >= clock - (TTL + MaxQuery)
    BY <2>2, <2>3, <2>4
  <2> QED BY <2>1, <2>2, <2>4, <2>5, FreshEnough
<1>5. ASSUME NEW r \in Reader,
             (\E k \in Key : Miss(r, k)) \/ Query(r) \/ ReaderDies(r)
      PROVE  UNCHANGED <<clock, commits, shown>>
  BY <1>5 DEF Miss, Query, ReaderDies
<1>6. ASSUME NEW w \in Writer, Scan(w) \/ Delete(w) \/ GiveUp(w) \/ WriterDies(w)
      PROVE  UNCHANGED <<clock, commits, shown>>
  BY <1>6 DEF Scan, Delete, GiveUp, WriterDies
<1>7. CASE Toggle \/ (\E k \in Key : Evict(k)) \/ UNCHANGED cvars
  BY <1>7 DEF Toggle, Evict, cvars
<1>8. ASSUME NEW r \in Reader, Reading(r)
      PROVE  (\E k \in Key : Promise!Answer(k)) \/ UNCHANGED <<clock, commits, shown>>
  <2>1. about[r] \in Key
    BY DEF CacheInv, CacheTypeOK
  <2> QED BY <1>3, <1>4, <1>5, <1>8, <2>1 DEF Reading
<1>9. ASSUME NEW w \in Writer, Writing(w)
      PROVE  Promise!Write \/ UNCHANGED <<clock, commits, shown>>
  BY <1>2, <1>6, <1>9 DEF Writing
<1> QED BY <1>1, <1>7, <1>8, <1>9 DEF CacheNext

(* The cached dashboards are reads of bounded staleness: a dashboard shows *)
(* figures that were current no longer than a time to live and a reader's  *)
(* time ago.                                                               *)
THEOREM CacheImplementsBoundedRead == CacheSpec => ImplementsBoundedRead
<1> QED BY CacheInvariant, PromiseInitially, PromiseStep, PTL
        DEF CacheSpec, ImplementsBoundedRead, Promise!Spec
=============================================================================
