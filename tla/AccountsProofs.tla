--------------------------- MODULE AccountsProofs ---------------------------
(***************************************************************************)
(* Proofs about Accounts: for any users, links and number of overlapping   *)
(* sessions, a link that is spent is spent for good, a user has no more    *)
(* unused links than there are sessions, and somebody can administrate     *)
(* unless two role changes cross.                                          *)
(***************************************************************************)
EXTENDS Accounts, FiniteSetTheorems, TLAPS

(* A session that resets a password knows its link, one that changes a     *)
(* role its administrator and another user.                                *)
Holding(s) ==
    /\ pc[s] = "reset" => token[s] \in Token
    /\ pc[s] = "role" => actor[s] \in User /\ user[s] \in User

(* The administrators of the pending role changes are administrators, and  *)
(* none of them is the user of one.                                        *)
Apart ==
    /\ \A s \in Session : pc[s] = "role" => role[actor[s]] = "ADMIN"
    /\ \A s, t \in Session : pc[s] = "role" /\ pc[t] = "role" => user[s] # actor[t]

AccountsInv ==
    /\ AccountsTypeOK
    /\ \A s \in Session : Holding(s)
    /\ SomebodyAdministrates
    /\ crossed \/ Apart

-----------------------------------------------------------------------------

LEMMA AccountsInitially == AccountsInit => AccountsInv
<1> SUFFICES ASSUME AccountsInit PROVE AccountsInv
  OBVIOUS
<1> USE AccountAssumption DEF AccountsInit
<1>1. AccountsTypeOK
  BY DEF AccountsTypeOK, Role, PC
<1>2. \A s \in Session : Holding(s)
  BY DEF Holding
<1>3. SomebodyAdministrates
  BY DEF SomebodyAdministrates
<1>4. Apart
  BY DEF Apart
<1> QED BY <1>1, <1>2, <1>3, <1>4 DEF AccountsInv

(* What does not touch roles, or the role changes under way, keeps the     *)
(* second half of the invariant.                                           *)
LEMMA OtherSessionsKeep ==
    ASSUME AccountsInv, UNCHANGED <<role, crossed>>,
           \A s \in Session : pc'[s] = "role" =>
               /\ pc[s] = "role"
               /\ user'[s] = user[s] /\ actor'[s] = actor[s]
    PROVE  SomebodyAdministrates' /\ (crossed \/ Apart)'
<1>1. SomebodyAdministrates'
  BY DEF AccountsInv, SomebodyAdministrates
<1>2. (crossed \/ Apart)'
  BY DEF AccountsInv, Apart
<1> QED BY <1>1, <1>2

(* A session begins anything but a role change. *)
LEMMA BeginKeeps ==
    ASSUME AccountsInv, NEW s \in Session,
           \/ \E u \in User : BeginRegister(s, u) \/ BeginIssue(s, u) \/ BeginChange(s, u)
           \/ \E t \in Token : BeginReset(s, t)
    PROVE  AccountsInv'
<1> USE DEF tables, Begin
<1>1. CASE \E u \in User : BeginRegister(s, u) \/ BeginChange(s, u)
  <2>1. PICK u \in User, l \in {"register", "change"} :
            /\ pc' = [pc EXCEPT ![s] = l]
            /\ user' = [user EXCEPT ![s] = u]
            /\ UNCHANGED <<tables, token, outstanding, actor, wanted>>
    BY <1>1 DEF BeginRegister, BeginChange
  <2>2. AccountsTypeOK'
    BY <2>1 DEF AccountsInv, AccountsTypeOK, PC
  <2>3. \A q \in Session : Holding(q)'
    BY <2>1 DEF AccountsInv, AccountsTypeOK, Holding
  <2>4. \A q \in Session : pc'[q] = "role" =>
            pc[q] = "role" /\ user'[q] = user[q] /\ actor'[q] = actor[q]
    BY <2>1 DEF AccountsInv, AccountsTypeOK
  <2> QED BY <2>1, <2>2, <2>3, <2>4, OtherSessionsKeep DEF AccountsInv
<1>2. CASE \E u \in User : BeginIssue(s, u)
  <2>1. PICK u \in User : BeginIssue(s, u)
    BY <1>2
  <2> USE <2>1 DEF BeginIssue
  <2>2. Outstanding(u) \subseteq Token
    BY DEF Outstanding, Unused
  <2>3. AccountsTypeOK'
    BY <2>2 DEF AccountsInv, AccountsTypeOK, PC
  <2>4. \A q \in Session : Holding(q)'
    BY DEF AccountsInv, AccountsTypeOK, Holding
  <2>5. \A q \in Session : pc'[q] = "role" =>
            pc[q] = "role" /\ user'[q] = user[q] /\ actor'[q] = actor[q]
    BY DEF AccountsInv, AccountsTypeOK
  <2> QED BY <2>3, <2>4, <2>5, OtherSessionsKeep DEF AccountsInv
<1>3. CASE \E t \in Token : BeginReset(s, t)
  <2>1. PICK t \in Token : BeginReset(s, t)
    BY <1>3
  <2> USE <2>1 DEF BeginReset
  <2>2. AccountsTypeOK'
    BY DEF AccountsInv, AccountsTypeOK, PC
  <2>3. \A q \in Session : Holding(q)'
    BY DEF AccountsInv, AccountsTypeOK, Holding
  <2>4. \A q \in Session : pc'[q] = "role" =>
            pc[q] = "role" /\ user'[q] = user[q] /\ actor'[q] = actor[q]
    BY DEF AccountsInv, AccountsTypeOK
  <2> QED BY <2>2, <2>3, <2>4, OtherSessionsKeep DEF AccountsInv
<1> QED BY <1>1, <1>2, <1>3

LEMMA BeginRoleKeeps ==
    ASSUME AccountsInv, NEW s \in Session, NEW a \in User, NEW u \in User, NEW r \in Role,
           BeginRole(s, a, u, r)
    PROVE  AccountsInv'
<1> USE DEF BeginRole, Begin, MayChange
<1>1. AccountsTypeOK'
  BY DEF AccountsInv, AccountsTypeOK, PC
<1>2. \A q \in Session : Holding(q)'
  BY DEF AccountsInv, AccountsTypeOK, Holding
<1>3. SomebodyAdministrates'
  BY DEF AccountsInv, SomebodyAdministrates
<1>4. (crossed \/ Apart)'
  <2> SUFFICES ASSUME ~crossed' PROVE Apart'
    OBVIOUS
  <2>1. Apart /\ \A t \in Session : pc[t] = "role" => user[t] # a /\ actor[t] # u
    BY DEF AccountsInv, Meets
  <2> QED BY <2>1 DEF AccountsInv, AccountsTypeOK, Apart
<1> QED BY <1>1, <1>2, <1>3, <1>4 DEF AccountsInv

(* A session commits something about links and passwords, or ends. *)
LEMMA CommitKeeps ==
    ASSUME AccountsInv, NEW s \in Session,
           \/ \E t \in Token : CommitIssue(s, t)
           \/ CommitReset(s) \/ CommitChange(s) \/ Abort(s)
    PROVE  AccountsInv'
<1> USE DEF End, tables
<1>1. End(s) /\ UNCHANGED <<role, crossed>>
  BY DEF CommitIssue, CommitReset, CommitChange, Abort
<1>2. AccountsTypeOK'
  <2>1. CASE \E t \in Token : CommitIssue(s, t)
    BY <2>1 DEF AccountsInv, AccountsTypeOK, PC, Role, CommitIssue
  <2>2. CASE CommitReset(s)
    BY <2>2 DEF AccountsInv, AccountsTypeOK, PC, Role, CommitReset, Holding
  <2>3. CASE CommitChange(s) \/ Abort(s)
    BY <2>3 DEF AccountsInv, AccountsTypeOK, PC, Role, CommitChange, Abort
  <2> QED BY <2>1, <2>2, <2>3
<1>3. \A q \in Session : Holding(q)'
  BY <1>1 DEF AccountsInv, AccountsTypeOK, Holding
<1>4. \A q \in Session : pc'[q] = "role" =>
          pc[q] = "role" /\ user'[q] = user[q] /\ actor'[q] = actor[q]
  BY <1>1 DEF AccountsInv, AccountsTypeOK
<1> QED BY <1>1, <1>2, <1>3, <1>4, OtherSessionsKeep DEF AccountsInv

(* Whoever registers was nobody, so no administrator is lost. *)
LEMMA RegisterKeeps ==
    ASSUME AccountsInv, NEW s \in Session, CommitRegister(s)
    PROVE  AccountsInv'
<1> USE DEF CommitRegister, End, NewRole, Registered
<1>1. AccountsTypeOK'
  BY DEF AccountsInv, AccountsTypeOK, PC, Role
<1>2. \A q \in Session : Holding(q)'
  BY DEF AccountsInv, AccountsTypeOK, Holding
<1>3. \A u \in User : role[u] = "ADMIN" => role'[u] = "ADMIN"
  BY DEF AccountsInv, AccountsTypeOK
<1>4. SomebodyAdministrates'
  BY <1>3 DEF AccountsInv, SomebodyAdministrates
<1>5. (crossed \/ Apart)'
  BY <1>3 DEF AccountsInv, AccountsTypeOK, Holding, Apart
<1> QED BY <1>1, <1>2, <1>4, <1>5 DEF AccountsInv

(* The administrator of the change is another than its user, and stays.    *)
LEMMA CommitRoleKeeps ==
    ASSUME AccountsInv, NEW s \in Session, CommitRole(s)
    PROVE  AccountsInv'
<1> USE DEF CommitRole, End
<1>1. AccountsTypeOK'
  BY DEF AccountsInv, AccountsTypeOK, PC, Role
<1>2. \A q \in Session : Holding(q)'
  BY DEF AccountsInv, AccountsTypeOK, Holding
<1>3. ASSUME ~crossed
      PROVE  \A t \in Session : pc[t] = "role" => actor[t] \in User /\ role'[actor[t]] = "ADMIN"
  BY <1>3 DEF AccountsInv, AccountsTypeOK, Apart, Holding
<1>4. SomebodyAdministrates'
  BY <1>3 DEF SomebodyAdministrates
<1>5. (crossed \/ Apart)'
  BY <1>3 DEF AccountsInv, AccountsTypeOK, Apart
<1> QED BY <1>1, <1>2, <1>4, <1>5 DEF AccountsInv

LEMMA ExpireKeeps ==
    ASSUME AccountsInv, NEW t \in Token, Expire(t)
    PROVE  AccountsInv'
<1>1. AccountsTypeOK' /\ \A s \in Session : Holding(s)'
  BY DEF Expire, sess, AccountsInv, AccountsTypeOK, Holding
<1> QED BY <1>1, OtherSessionsKeep DEF Expire, sess, AccountsInv

LEMMA AccountsStep == AccountsInv /\ [AccountsNext]_avars => AccountsInv'
<1> SUFFICES ASSUME AccountsInv, [AccountsNext]_avars PROVE AccountsInv'
  OBVIOUS
<1>1. ASSUME NEW s \in Session, Handle(s) PROVE AccountsInv'
  BY <1>1, BeginKeeps, BeginRoleKeeps, CommitKeeps, RegisterKeeps, CommitRoleKeeps DEF Handle
<1>2. ASSUME NEW t \in Token, Expire(t) PROVE AccountsInv'
  BY <1>2, ExpireKeeps
<1>3. CASE UNCHANGED avars
  BY <1>3 DEF avars, tables, sess, AccountsInv, AccountsTypeOK, Holding, SomebodyAdministrates,
     Apart
<1> QED BY <1>1, <1>2, <1>3 DEF AccountsNext

(* The accounts' inductive invariant: who is about to do what, and that    *)
(* role changes that have not crossed leave each other's administrators.   *)
THEOREM AccountsInvariant == AccountsSpec => []AccountsInv
  BY AccountsInitially, AccountsStep, PTL DEF AccountsSpec

(* Every variable of the accounts keeps its type. *)
THEOREM AccountsTypeCorrect == AccountsSpec => []AccountsTypeOK
<1>1. AccountsInv => AccountsTypeOK
  BY DEF AccountsInv
<1> QED BY <1>1, AccountsInvariant, PTL

(* Somebody can administrate, unless two role changes ever crossed         *)
(* (change_user_role).                                                     *)
THEOREM AccountsAdministrated == AccountsSpec => []SomebodyAdministrates
<1>1. AccountsInv => SomebodyAdministrates
  BY DEF AccountsInv
<1> QED BY <1>1, AccountsInvariant, PTL

-----------------------------------------------------------------------------

(* What one step does to a spent link. *)
LEMMA SpentStep ==
    ASSUME AccountsInv, [AccountsNext]_avars, NEW t \in Token, Spent(t)
    PROVE  Spent(t)' /\ \A u \in User : password'[u] = t => password[u] = t
<1> DEFINE Kept ==
        /\ used \subseteq used'
        /\ \A s \in Session : token'[s] # t
        /\ \A u \in User : password'[u] = t => password[u] = t
<1> USE DEF Spent, End, Begin, tables, sess
<1>1. ASSUME NEW s \in Session, NEW u \in User,
             BeginRegister(s, u) \/ BeginIssue(s, u) \/ BeginChange(s, u)
      PROVE  Kept
  BY <1>1 DEF BeginRegister, BeginIssue, BeginChange
<1>2. ASSUME NEW s \in Session, NEW q \in Token, BeginReset(s, q)
      PROVE  Kept
  BY <1>2 DEF BeginReset, Valid, AccountsInv, AccountsTypeOK
<1>3. ASSUME NEW s \in Session, NEW q \in Token, CommitIssue(s, q)
      PROVE  Kept
  BY <1>3, AccountAssumption DEF CommitIssue, AccountsInv, AccountsTypeOK
<1>4. ASSUME NEW s \in Session, NEW a \in User, NEW u \in User, NEW r \in Role,
             BeginRole(s, a, u, r)
      PROVE  Kept
  BY <1>4 DEF BeginRole
<1>5. ASSUME NEW s \in Session, CommitReset(s)
      PROVE  Kept
  BY <1>5, AccountAssumption DEF CommitReset, AccountsInv, AccountsTypeOK
<1>6. ASSUME NEW s \in Session, CommitChange(s)
      PROVE  Kept
  BY <1>6, AccountAssumption DEF CommitChange, AccountsInv, AccountsTypeOK
<1>7. ASSUME NEW s \in Session, CommitRegister(s) \/ CommitRole(s) \/ Abort(s)
      PROVE  Kept
  BY <1>7, AccountAssumption DEF CommitRegister, CommitRole, Abort, AccountsInv, AccountsTypeOK
<1>8. ASSUME NEW q \in Token, Expire(q)
      PROVE  Kept
  BY <1>8 DEF Expire
<1>9. ASSUME UNCHANGED avars PROVE Kept
  BY <1>9 DEF avars
<1> HIDE DEF Kept, End, Begin, tables, sess
<1>10. ASSUME NEW s \in Session, Handle(s)
       PROVE  Kept
  BY <1>1, <1>2, <1>3, <1>4, <1>5, <1>6, <1>7, <1>10 DEF Handle
<1>11. Kept
  BY <1>8, <1>9, <1>10 DEF AccountsNext
<1> QED BY <1>11 DEF Kept

(* A spent link never sets a password again, and stays used                *)
(* (reset_password).                                                       *)
THEOREM AccountsSpent == AccountsSpec => SpentForGood
<1>1. AccountsInv /\ [AccountsNext]_avars =>
        [\A t \in Token : Spent(t) =>
           /\ Spent(t)'
           /\ \A u \in User : password'[u] = t => password[u] = t]_avars
  BY SpentStep
<1> QED BY <1>1, AccountsInvariant, PTL DEF AccountsSpec, SpentForGood

-----------------------------------------------------------------------------
(* The unused links of a user.  Each was committed by a session of its     *)
(* own: a session that commits a second one has found its first, since it  *)
(* looked for unused links after that was committed, and spends it.  So    *)
(* the links can be given to the sessions, one each, such that a session   *)
(* about to issue another one has found the one given to it.               *)

Given(u) ==
    \E f \in Injection(Unused(u), Session) :
        \A t \in Unused(u) :
            pc[f[t]] = "issue" /\ user[f[t]] = u => t \in outstanding[f[t]]

LinksInv == \A u \in User : Given(u)

LEMMA LinksInitially == AccountsInit => LinksInv
<1> SUFFICES ASSUME AccountsInit, NEW u \in User PROVE Given(u)
  BY DEF LinksInv
<1>1. Unused(u) = {}
  BY AccountAssumption DEF AccountsInit, Unused
<1>2. [t \in {} |-> t] \in Injection(Unused(u), Session)
  BY <1>1 DEF Injection, IsInjective
<1> QED BY <1>1, <1>2 DEF Given

(* No link is added, and a session about to issue one has either been so   *)
(* before or has just found them all.                                      *)
LEMMA LinksKept ==
    ASSUME LinksInv, NEW u \in User, Unused(u)' \subseteq Unused(u),
           \A s \in Session : pc'[s] = "issue" /\ user'[s] = u =>
               \/ pc[s] = "issue" /\ user[s] = u /\ outstanding'[s] = outstanding[s]
               \/ Unused(u)' \subseteq outstanding'[s]
    PROVE  Given(u)'
<1>1. PICK f \in Injection(Unused(u), Session) :
            \A t \in Unused(u) :
                pc[f[t]] = "issue" /\ user[f[t]] = u => t \in outstanding[f[t]]
  BY DEF LinksInv, Given
<1> DEFINE g == [t \in Unused(u)' |-> f[t]]
<1>2. g \in Injection(Unused(u)', Session)
  BY DEF Injection, IsInjective
<1>3. ASSUME NEW t \in Unused(u)', pc'[g[t]] = "issue", user'[g[t]] = u
      PROVE  t \in outstanding'[g[t]]
  <2>1. t \in Unused(u) /\ g[t] = f[t] /\ f[t] \in Session
    BY DEF Injection
  <2> QED BY <1>1, <1>3, <2>1
<1> HIDE DEF g
<1> QED BY <1>2, <1>3 DEF Given

(* A session that issues a link spends the one that was given to it.       *)
LEMMA IssueLinks ==
    ASSUME AccountsInv, LinksInv, NEW s \in Session, NEW q \in Token, CommitIssue(s, q)
    PROVE  LinksInv'
<1> SUFFICES ASSUME NEW u \in User PROVE Given(u)'
  BY DEF LinksInv
<1>1. /\ owner' = [owner EXCEPT ![q] = user[s]] /\ owner[q] = NoUser
      /\ used' = used \cup outstanding[s]
      /\ pc' = [pc EXCEPT ![s] = "idle"]
      /\ user' = [user EXCEPT ![s] = NoUser]
      /\ outstanding' = [outstanding EXCEPT ![s] = {}]
      /\ pc[s] = "issue"
  BY DEF CommitIssue, End
<1>2. /\ pc'[s] = "idle"
      /\ \A t \in Session \ {s} : /\ pc'[t] = pc[t] /\ user'[t] = user[t]
                                  /\ outstanding'[t] = outstanding[t]
  BY <1>1 DEF AccountsInv, AccountsTypeOK
<1>3. CASE user[s] # u
  <2>1. Unused(u)' \subseteq Unused(u)
    BY <1>1, <1>3 DEF Unused, AccountsInv, AccountsTypeOK
  <2> QED BY <1>2, <2>1, LinksKept
<1>4. CASE user[s] = u
  <2>1. PICK f \in Injection(Unused(u), Session) :
            \A t \in Unused(u) :
                pc[f[t]] = "issue" /\ user[f[t]] = u => t \in outstanding[f[t]]
    BY DEF LinksInv, Given
  <2>2. f \in [Unused(u) -> Session] /\ \A t, r \in Unused(u) : f[t] = f[r] => t = r
    BY DEF Injection, IsInjective
  <2>3. q \notin Unused(u)
    BY <1>1, AccountAssumption DEF Unused
  <2>4. \A t \in Unused(u)' : t # q => t \in Unused(u) /\ f[t] # s
    BY <1>1, <1>4, <2>1 DEF Unused, AccountsInv, AccountsTypeOK
  <2> DEFINE g == [t \in Unused(u)' |-> IF t = q THEN s ELSE f[t]]
  <2>5. g \in [Unused(u)' -> Session]
    BY <2>2, <2>4
  <2>6. \A t, r \in Unused(u)' : g[t] = g[r] => t = r
    BY <2>2, <2>4
  <2>7. g \in Injection(Unused(u)', Session)
    BY <2>5, <2>6 DEF Injection, IsInjective
  <2>8. ASSUME NEW t \in Unused(u)', pc'[g[t]] = "issue", user'[g[t]] = u
        PROVE  t \in outstanding'[g[t]]
    <3>1. g[t] # s
      BY <1>2, <2>8
    <3>2. t # q /\ g[t] = f[t] /\ t \in Unused(u) /\ f[t] \in Session \ {s}
      BY <2>2, <2>4, <3>1
    <3> QED BY <1>2, <2>1, <2>8, <3>2
  <2> HIDE DEF g
  <2> QED BY <2>7, <2>8 DEF Given
<1> QED BY <1>3, <1>4

LEMMA LinksStep == AccountsInv /\ LinksInv /\ [AccountsNext]_avars => LinksInv'
<1> SUFFICES ASSUME AccountsInv, LinksInv, [AccountsNext]_avars PROVE LinksInv'
  OBVIOUS
<1> USE DEF AccountsInv, AccountsTypeOK
<1>1. ASSUME used \subseteq used', owner' = owner,
             \A s \in Session : pc'[s] = "issue" =>
                 /\ pc[s] = "issue"
                 /\ user'[s] = user[s] /\ outstanding'[s] = outstanding[s]
      PROVE  LinksInv'
  BY <1>1, LinksKept DEF LinksInv, Unused
<1>2. ASSUME NEW s \in Session, NEW u \in User, BeginIssue(s, u) PROVE LinksInv'
  <2> SUFFICES ASSUME NEW v \in User PROVE Given(v)'
    BY DEF LinksInv
  <2>1. Unused(v)' = Unused(v)
    BY <1>2 DEF BeginIssue, Begin, Unused, tables
  <2>2. \A t \in Session : pc'[t] = "issue" /\ user'[t] = v =>
            \/ pc[t] = "issue" /\ user[t] = v /\ outstanding'[t] = outstanding[t]
            \/ Unused(v) \subseteq outstanding'[t]
    BY <1>2 DEF BeginIssue, Begin, Outstanding
  <2> QED BY <2>1, <2>2, LinksKept
<1>3. ASSUME NEW s \in Session,
             \/ \E u \in User : BeginRegister(s, u) \/ BeginChange(s, u)
             \/ \E t \in Token : BeginReset(s, t)
             \/ \E a, u \in User, r \in Role : BeginRole(s, a, u, r)
      PROVE  LinksInv'
  BY <1>1, <1>3 DEF BeginRegister, BeginChange, BeginReset, BeginRole, Begin, tables
<1>4. ASSUME NEW s \in Session,
             CommitRegister(s) \/ CommitReset(s) \/ CommitChange(s) \/ CommitRole(s) \/ Abort(s)
      PROVE  LinksInv'
  BY <1>1, <1>4 DEF CommitRegister, CommitReset, CommitChange, CommitRole, Abort, End, tables
<1>5. ASSUME NEW t \in Token, Expire(t) PROVE LinksInv'
  BY <1>1, <1>5 DEF Expire, sess
<1>6. CASE UNCHANGED avars
  BY <1>1, <1>6 DEF avars, tables, sess
<1>7. ASSUME NEW s \in Session, Handle(s) PROVE LinksInv'
  BY <1>2, <1>3, <1>4, <1>7, IssueLinks DEF Handle
<1> QED BY <1>5, <1>6, <1>7 DEF AccountsNext

(* Forgot-password requests that overlap leave no more links of a user     *)
(* unused than requests can be under way at once (_issue_reset_token).     *)
THEOREM AccountsOutstanding == AccountsSpec => []OutstandingBounded
<1>1. LinksInv => OutstandingBounded
  <2> SUFFICES ASSUME LinksInv, NEW u \in User
               PROVE  Cardinality(Unused(u)) <= Cardinality(Session)
    BY DEF OutstandingBounded
  <2>1. \E f : f \in Injection(Unused(u), Session)
    BY DEF LinksInv, Given
  <2> QED BY <2>1, AccountAssumption, FS_Injection
<1>2. AccountsSpec => []LinksInv
  BY LinksInitially, LinksStep, AccountsInvariant, PTL DEF AccountsSpec
<1> QED BY <1>1, <1>2, PTL
=============================================================================
