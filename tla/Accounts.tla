------------------------------ MODULE Accounts ------------------------------
(***************************************************************************)
(* Accounts: registration, password change and password reset              *)
(* (app/routers/auth.py) and roles (app/routers/users.py, with the guards  *)
(* of app/dependencies/auth.py), in overlapping sessions.  Each handler    *)
(* reads, decides, and commits later without looking again.                *)
(*                                                                         *)
(* A user stands for the e-mail address of an account, which is unique.    *)
(* Signing in and listing users change nothing and are left out.           *)
(***************************************************************************)
EXTENDS Naturals, FiniteSets

CONSTANTS
    Session,
    User, NoUser,
    Token, NoToken, \* password reset links
    Own,            \* stands for a password that its user chose signed in
    Founder         \* the administrators the database was set up with

Role == {"RESIDENT", "COMMITTEE", "ACCOUNTANT", "ADMIN"}

ASSUME AccountAssumption ==
    /\ NoUser \notin User /\ NoToken \notin Token /\ Own \notin Token
    /\ Founder \subseteq User /\ Founder # {}
    /\ IsFiniteSet(Session)

VARIABLES
    role,           \* users.role, "none" without an account
    password,       \* what set the user's password: himself, or a reset link
    owner,          \* whom each link was issued to, NoUser before that
    used,           \* links with a used_at
    expired,        \* links past their expires_at
    crossed         \* a role change overlapped with one by, or of, its user or its actor

tables == <<role, password, owner, used, expired, crossed>>

VARIABLES
    pc,             \* what each session is about to commit
    user,           \* the account it is about
    token,          \* the link it resets with
    outstanding,    \* the unused links that its forgot-password found
    actor, wanted   \* the administrator of its role change, and the role

sess == <<pc, user, token, outstanding, actor, wanted>>

avars == <<tables, sess>>

PC == {"idle", "register", "issue", "reset", "change", "role"}

AccountsInit ==
    /\ role = [u \in User |-> IF u \in Founder THEN "ADMIN" ELSE "none"]
    /\ password = [u \in User |-> Own]
    /\ owner = [t \in Token |-> NoUser]
    /\ used = {}
    /\ expired = {}
    /\ crossed = FALSE
    /\ pc = [s \in Session |-> "idle"]
    /\ user = [s \in Session |-> NoUser]
    /\ token = [s \in Session |-> NoToken]
    /\ outstanding = [s \in Session |-> {}]
    /\ actor = [s \in Session |-> NoUser]
    /\ wanted = [s \in Session |-> "RESIDENT"]

Registered(u) == role[u] # "none"

Unused(u) == {t \in Token : owner[t] = u /\ t \notin used}

(* Session s has read what it needs and goes on to its commit. *)
Begin(s, label, u) ==
    /\ pc[s] = "idle"
    /\ pc' = [pc EXCEPT ![s] = label]
    /\ user' = [user EXCEPT ![s] = u]

End(s) ==
    /\ pc' = [pc EXCEPT ![s] = "idle"]
    /\ user' = [user EXCEPT ![s] = NoUser]
    /\ token' = [token EXCEPT ![s] = NoToken]
    /\ outstanding' = [outstanding EXCEPT ![s] = {}]
    /\ actor' = [actor EXCEPT ![s] = NoUser]
    /\ wanted' = [wanted EXCEPT ![s] = "RESIDENT"]

-----------------------------------------------------------------------------
(* register *)

BeginRegister(s, u) ==
    /\ ~Registered(u)
    /\ Begin(s, "register", u)
    /\ UNCHANGED <<tables, token, outstanding, actor, wanted>>

(* Whoever registers is a resident. *)
NewRole == "RESIDENT"

(* The unique e-mail address refuses the second of two registrations.      *)
CommitRegister(s) ==
    /\ pc[s] = "register"
    /\ role' = IF Registered(user[s]) THEN role ELSE [role EXCEPT ![user[s]] = NewRole]
    /\ End(s)
    /\ UNCHANGED <<password, owner, used, expired, crossed>>

-----------------------------------------------------------------------------
(* forgot-password, reset-password, change-password *)

(* A mutation of Outstanding: only links that have expired are found.      *)
Outstanding_Expired(u) == Unused(u) \cap expired

(* The SELECT of _issue_reset_token. *)
Outstanding(u) == Unused(u)

BeginIssue(s, u) ==
    /\ Registered(u)
    /\ Begin(s, "issue", u)
    /\ outstanding' = [outstanding EXCEPT ![s] = Outstanding(u)]
    /\ UNCHANGED <<tables, token, actor, wanted>>

(* The links it found are used, and a fresh one is added and mailed.       *)
CommitIssue(s, t) ==
    /\ pc[s] = "issue" /\ owner[t] = NoUser
    /\ used' = used \cup outstanding[s]
    /\ owner' = [owner EXCEPT ![t] = user[s]]
    /\ End(s)
    /\ UNCHANGED <<role, password, expired, crossed>>

Expire(t) ==
    /\ owner[t] # NoUser /\ t \notin expired
    /\ expired' = expired \cup {t}
    /\ UNCHANGED <<role, password, owner, used, crossed, sess>>

(* A mutation of Valid: used_at is not looked at. *)
Valid_Used(t) == owner[t] # NoUser /\ t \notin expired

Valid(t) == owner[t] # NoUser /\ t \notin used /\ t \notin expired

BeginReset(s, t) ==
    /\ Valid(t)
    /\ Begin(s, "reset", owner[t])
    /\ token' = [token EXCEPT ![s] = t]
    /\ UNCHANGED <<tables, outstanding, actor, wanted>>

CommitReset(s) ==
    /\ pc[s] = "reset"
    /\ password' = [password EXCEPT ![user[s]] = token[s]]
    /\ used' = used \cup {token[s]}
    /\ End(s)
    /\ UNCHANGED <<role, owner, expired, crossed>>

BeginChange(s, u) ==
    /\ Registered(u)
    /\ Begin(s, "change", u)
    /\ UNCHANGED <<tables, token, outstanding, actor, wanted>>

CommitChange(s) ==
    /\ pc[s] = "change"
    /\ password' = [password EXCEPT ![user[s]] = Own]
    /\ End(s)
    /\ UNCHANGED <<role, owner, used, expired, crossed>>

-----------------------------------------------------------------------------
(* change_user_role *)

(* A mutation of MayChange: an administrator may step down. *)
MayChange_Self(a, u) == role[a] = "ADMIN"

(* require_admin, and not one's own role. *)
MayChange(a, u) == role[a] = "ADMIN" /\ a # u

(* Pending role change t and one by a of u meet. *)
Meets(t, a, u) == pc[t] = "role" /\ (user[t] = a \/ actor[t] = u)

BeginRole(s, a, u, r) ==
    /\ MayChange(a, u) /\ Registered(u) /\ role[u] # r
    /\ Begin(s, "role", u)
    /\ actor' = [actor EXCEPT ![s] = a]
    /\ wanted' = [wanted EXCEPT ![s] = r]
    /\ crossed' = (crossed \/ \E t \in Session : Meets(t, a, u))
    /\ UNCHANGED <<role, password, owner, used, expired, token, outstanding>>

CommitRole(s) ==
    /\ pc[s] = "role"
    /\ role' = [role EXCEPT ![user[s]] = wanted[s]]
    /\ End(s)
    /\ UNCHANGED <<password, owner, used, expired, crossed>>

(* A request dies before its commit. *)
Abort(s) ==
    /\ pc[s] # "idle"
    /\ End(s)
    /\ UNCHANGED tables

-----------------------------------------------------------------------------

Handle(s) ==
    \/ \E u \in User : BeginRegister(s, u) \/ BeginIssue(s, u) \/ BeginChange(s, u)
    \/ \E t \in Token : BeginReset(s, t) \/ CommitIssue(s, t)
    \/ \E a, u \in User, r \in Role : BeginRole(s, a, u, r)
    \/ CommitRegister(s) \/ CommitReset(s) \/ CommitChange(s) \/ CommitRole(s) \/ Abort(s)

AccountsNext ==
    \/ \E s \in Session : Handle(s)
    \/ \E t \in Token : Expire(t)

AccountsSpec == AccountsInit /\ [][AccountsNext]_avars

-----------------------------------------------------------------------------

(* Every variable has its type. *)
AccountsTypeOK ==
    /\ role \in [User -> Role \cup {"none"}]
    /\ password \in [User -> Token \cup {Own}]
    /\ owner \in [Token -> User \cup {NoUser}]
    /\ used \subseteq Token /\ expired \subseteq Token
    /\ crossed \in BOOLEAN
    /\ pc \in [Session -> PC]
    /\ user \in [Session -> User \cup {NoUser}]
    /\ token \in [Session -> Token \cup {NoToken}]
    /\ outstanding \in [Session -> SUBSET Token]
    /\ actor \in [Session -> User \cup {NoUser}]
    /\ wanted \in [Session -> Role]

(* Forgot-password requests that overlap leave each other's links valid,   *)
(* but never more of them than requests can be under way at once: whoever  *)
(* begins after a link was committed spends it (_issue_reset_token).       *)
OutstandingBounded == \A u \in User : Cardinality(Unused(u)) <= Cardinality(Session)

(* The link is used, and no session has found it unused. *)
Spent(t) ==
    /\ t \in used
    /\ \A s \in Session : token[s] # t

(* Such a link never sets a password again, and stays used, whatever other *)
(* links are issued, expire or are spent (reset_password).                 *)
SpentForGood ==
    [][\A t \in Token : Spent(t) =>
           /\ Spent(t)'
           /\ \A u \in User : password'[u] = t => password[u] = t]_avars

(* Somebody can administrate, unless two role changes ever crossed: one    *)
(* was begun by, or of, the user or the actor of the other                 *)
(* (change_user_role, which forbids no more than one's own role).          *)
SomebodyAdministrates == crossed \/ \E u \in User : role[u] = "ADMIN"
=============================================================================
