------------------------------- MODULE Accounts -------------------------------
(***************************************************************************)
(* Users, their tokens and the guards: auth_service, user_service, deps,   *)
(* permissions and audit_service.                                          *)
(*                                                                         *)
(* A refresh token carries the token_version of its user and is good while *)
(* the two are equal; logout, reset-password and deactivation bump the     *)
(* version.  A session bumps it on the copy of the user it has loaded, and *)
(* the commit writes the columns whose value differs from the loaded one.  *)
(* Access tokens are only checked against is_active, and expire when the   *)
(* client stops using them.                                                *)
(***************************************************************************)
EXTENDS Integers, FiniteSets

CONSTANTS Requests,     \* a request runs once; one the server turns down may be sent again
          Workers,      \* sessions open at a time
          Staff,        \* users that are there at the start
          Shops,        \* their tenants
          Emails,
          OpeningUsers, \* the rows of Staff
          Calls,        \* what logged-in users ask for
          None

\* A user or a tenant that is created here is named by its request.
Users == Staff \cup Requests
Tenants == Shops \cup Requests
Roles == {"OWNER", "CASHIER"}

\* A password is named by the request that set it.
Passwords == Requests \cup {None}

Account == [tenant : Tenants, email : Emails, role : Roles, is_active : BOOLEAN,
            token_version : Nat, password : Passwords]

\* A refresh token; the password it was obtained with is not in it.
Token == [user : Users, tv : Nat, password : Passwords]

\* The endpoints behind a login; the requests modelled in other modules are
\* "other" here, with the permission they require.
Call ==
  [op : {"logout"}]
  \cup [op : {"other"}, permission : STRING]
  \cup [op : {"update"}, user : Users, is_active : BOOLEAN]
  \cup [op : {"reset"}, user : Users]
  \cup [op : {"create"}, email : Emails, role : Roles]

ASSUME AccountsAssumption ==
  /\ None \notin Users \cup Tenants \cup Account
  /\ Staff \cap Requests = {} /\ Shops \cap Requests = {}
  /\ IsFiniteSet(Requests)
  /\ Workers \in Nat \ {0}
  /\ OpeningUsers \in [Staff -> [tenant : Shops, email : Emails, role : Roles]]
  /\ Calls \subseteq Call
  /\ \A u, v \in Staff : OpeningUsers[u].email = OpeningUsers[v].email => u = v

VARIABLES user,    \* the committed rows of users, None where there is none
          tokens,  \* refresh tokens handed out
          access,  \* users who have been given an access token
          audit,   \* the access audit log: request, user and tenant of a denial
          pc,      \* where each request stands
          task,    \* what it was asked, and by whom
          loaded,  \* users as its session has read them
          mine,    \* users as its session has them
          stale    \* history: users a session has written from an outdated copy, or
                 \* changed before their registration was answered

sessionVars == <<loaded, mine>>
accountVars == <<user, tokens, access, audit, pc, task, loaded, mine, stale>>

NoTask == [op |-> "none"]
NoneOf(S) == [x \in S |-> None]
Row(tenant, email, role, password) ==
  [tenant |-> tenant, email |-> email, role |-> role, is_active |-> TRUE,
   token_version |-> 0, password |-> password]

AccountsTypeOK ==
  /\ user \in [Users -> Account \cup {None}]
  /\ tokens \subseteq Token
  /\ access \subseteq Users
  /\ audit \subseteq [request : Requests, user : Users, tenant : Tenants]
  /\ loaded \in [Requests -> [Users -> Account \cup {None}]]
  /\ mine \in [Requests -> [Users -> Account \cup {None}]]
  /\ stale \subseteq Users

\* The staff have logged in.
AccountsInit ==
  /\ user = [u \in Users |-> IF u \notin Staff THEN None
       ELSE Row(OpeningUsers[u].tenant, OpeningUsers[u].email, OpeningUsers[u].role, None)]
  /\ tokens = [user : Staff, tv : {0}, password : {None}]
  /\ access = Staff
  /\ audit = {}
  /\ pc = [r \in Requests |-> "idle"]
  /\ task = [r \in Requests |-> NoTask]
  /\ loaded = [r \in Requests |-> NoneOf(Users)]
  /\ mine = [r \in Requests |-> NoneOf(Users)]
  /\ stale = {}

-----------------------------------------------------------------------------
(* Sessions *)

Ended == {"idle", "done"}
Busy == {r \in Requests : pc[r] \notin Ended}

Start(r, what, step) ==
  /\ pc[r] = "idle"
  /\ Cardinality(Busy) < Workers
  /\ pc' = [pc EXCEPT ![r] = step]
  /\ task' = [task EXCEPT ![r] = what]

CloseSession(r) ==
  /\ loaded' = [loaded EXCEPT ![r] = NoneOf(Users)]
  /\ mine' = [mine EXCEPT ![r] = NoneOf(Users)]

End(r, step) ==
  /\ pc' = [pc EXCEPT ![r] = step]
  /\ task' = [task EXCEPT ![r] = NoTask]
  /\ CloseSession(r)

RollBack(r) ==
  /\ End(r, "idle")
  /\ UNCHANGED <<user, tokens, access, audit, stale>>

Existing == {u \in Users : user[u] # None}

\* email_exists
EmailExists(email) == \E u \in Existing : user[u].email = email

\* The row after an UPDATE of the columns that differ from the loaded ones.
Written(row, old, new) == [c \in DOMAIN row |-> IF new[c] # old[c] THEN new[c] ELSE row[c]]

Dirty(r) == {u \in Users : mine[r][u] # loaded[r][u]}

-----------------------------------------------------------------------------
(* permissions.py and the guards of deps.py *)

CashierPermissions == {"dashboard:view", "sale:create", "invoice:view", "invoice:reprint",
                       "product:view"}

OwnerPermissions == CashierPermissions \cup
  {"invoice:void", "invoice:export", "product:manage", "purchase:manage", "supplier:manage",
   "inventory:view", "inventory:adjust", "report:view", "settings:manage", "user:manage",
   "audit:view"}

HasPermission(role, permission) ==
  permission \in (IF role = "OWNER" THEN OwnerPermissions ELSE CashierPermissions)

\* require_owner guards the users router, require_permission the others;
\* whoever is logged in may log out.
Allowed(role, call) ==
  CASE call.op = "logout" -> TRUE
    [] call.op = "other"  -> HasPermission(role, call.permission)
    [] OTHER              -> role = "OWNER"

\* get_current_user, then the guard, on the one copy of the caller that the
\* session keeps.  An inactive caller is answered 401 and leaves no trace.
OpenCall(r, u, call) ==
  /\ u \in access
  /\ user[u].is_active
  /\ Start(r, [op |-> call.op, actor |-> u, call |-> call],
           CASE ~Allowed(user[u].role, call) -> "deny"
             [] call.op = "other"            -> "ending"
             [] OTHER                        -> "handler")
  /\ loaded' = [loaded EXCEPT ![r][u] = user[u]]
  /\ mine' = [mine EXCEPT ![r][u] = user[u]]
  /\ UNCHANGED <<user, tokens, access, audit, stale>>

Denial(r) == [request |-> r, user |-> task[r].actor, tenant |-> loaded[r][task[r].actor].tenant]

\* _deny with log_access_denied: a row of its own transaction, then the 403.
Deny(r) ==
  /\ pc[r] = "deny"
  /\ audit' = audit \cup {Denial(r)}
  /\ End(r, "done")
  /\ UNCHANGED <<user, tokens, access, stale>>

\* The row could not be written; the request is refused all the same.
DenyUnlogged(r) ==
  /\ pc[r] = "deny"
  /\ End(r, "done")
  /\ UNCHANGED <<user, tokens, access, audit, stale>>

-----------------------------------------------------------------------------
(* Login and refresh *)

\* get_user_by_email and the password check, on one copy of the user; a wrong
\* password or an inactive user leaves no trace.
Login(r, email) ==
  \E u \in Existing :
    /\ user[u].email = email
    /\ user[u].is_active
    /\ Start(r, [op |-> "login", actor |-> u], "answer")
    /\ loaded' = [loaded EXCEPT ![r][u] = user[u]]
    /\ mine' = [mine EXCEPT ![r][u] = user[u]]
    /\ UNCHANGED <<user, tokens, access, audit, stale>>

\* _tokens_for a copy of the user.
TokenFor(u, row) == [user |-> u, tv |-> row.token_version, password |-> row.password]

\* Mutation: the user is read again after the password check.
AnswerLoginAfresh(r) ==
  /\ pc[r] = "answer"
  /\ LET u == task[r].actor
     IN /\ tokens' = tokens \cup {[TokenFor(u, user[u]) EXCEPT !.password = loaded[r][u].password]}
        /\ access' = access \cup {u}
  /\ End(r, "done")
  /\ UNCHANGED <<user, audit, stale>>

\* The slow password check lies between the two: the answer is made from the
\* copy that was read before it.
AnswerLogin(r) ==
  /\ pc[r] = "answer"
  /\ LET u == task[r].actor
     IN /\ tokens' = tokens \cup {TokenFor(u, loaded[r][u])}
        /\ access' = access \cup {u}
  /\ End(r, "done")
  /\ UNCHANGED <<user, audit, stale>>

Valid(t) == user[t.user] # None /\ user[t.user].is_active /\ user[t.user].token_version = t.tv

\* refresh_access_token: one read of the user; the refresh token stays good.
Refresh(r, t) ==
  /\ Valid(t)
  /\ Start(r, NoTask, "done")
  /\ access' = access \cup {t.user}
  /\ UNCHANGED <<user, tokens, audit, stale, sessionVars>>

-----------------------------------------------------------------------------
(* logout, update_user, reset_password, create_user *)

BumpedVersion(row) == [row EXCEPT !.token_version = @ + 1]

\* Mutation: a deactivation relies on is_active alone.
DeactivatedKeepingVersion(row, active) == [row EXCEPT !.is_active = active]

Activated(row, active) ==
  IF active THEN [row EXCEPT !.is_active = TRUE]
  ELSE BumpedVersion([row EXCEPT !.is_active = FALSE])

Reset(row, r) == BumpedVersion([row EXCEPT !.password = r])

\* Mutation: any user of any tenant.
InAnyTenant(r, u) == user[u] # None

\* get_user_in_tenant
InTenant(r, u) ==
  user[u] # None /\ user[u].tenant = loaded[r][task[r].actor].tenant

\* The session's copy of u: db.get reads a user it has not loaded yet.
CopyOf(r, u) == IF mine[r][u] = None THEN user[u] ELSE mine[r][u]

\* What the handler makes of the user it was asked about.
Handled(r, row) ==
  CASE task[r].op = "logout" -> BumpedVersion(row)
    [] task[r].op = "update" -> Activated(row, task[r].call.is_active)
    [] task[r].op = "reset"  -> Reset(row, r)

Subject(r) == IF task[r].op = "logout" THEN task[r].actor ELSE task[r].call.user

\* A user of another tenant is not found.
HandleUser(r) ==
  /\ pc[r] = "handler"
  /\ task[r].op \in {"logout", "update", "reset"}
  /\ LET u == Subject(r)
     IN IF ~InTenant(r, u)
        THEN RollBack(r)
        ELSE /\ loaded' = [loaded EXCEPT ![r][u] = CopyOf(r, u)]
             /\ mine' = [mine EXCEPT ![r][u] = Handled(r, CopyOf(r, u))]
             /\ pc' = [pc EXCEPT ![r] = "ending"]
             /\ UNCHANGED <<user, tokens, access, audit, task, stale>>

\* create_user looks the address up before it inserts the row.
HandleCreate(r) ==
  /\ pc[r] = "handler"
  /\ task[r].op = "create"
  /\ IF EmailExists(task[r].call.email)
     THEN RollBack(r)
     ELSE /\ pc' = [pc EXCEPT ![r] = "insert"]
          /\ UNCHANGED <<user, tokens, access, audit, task, stale, sessionVars>>

\* The commit of whatever the session has changed; reads only end.
CommitUsers(r) ==
  /\ pc[r] = "ending"
  /\ user' = [u \in Users |-> IF u \in Dirty(r) THEN Written(user[u], loaded[r][u], mine[r][u])
                              ELSE user[u]]
  /\ stale' = stale \cup {u \in Dirty(r) : user[u] # loaded[r][u]}
  /\ End(r, "done")
  /\ UNCHANGED <<tokens, access, audit>>

AddUser(r) ==
  user' = [user EXCEPT ![r] =
             Row(loaded[r][task[r].actor].tenant, task[r].call.email, task[r].call.role, r)]

\* Mutation: no unique key on the address.
CommitCreateWithoutKey(r) ==
  /\ pc[r] = "insert"
  /\ AddUser(r)
  /\ End(r, "done")
  /\ UNCHANGED <<tokens, access, audit, stale>>

\* The unique key on the address decides.
CommitCreate(r) ==
  /\ pc[r] = "insert"
  /\ IF EmailExists(task[r].call.email)
     THEN RollBack(r)
     ELSE /\ AddUser(r)
          /\ End(r, "done")
          /\ UNCHANGED <<tokens, access, audit, stale>>

OpenAccount(r) ==
  \/ \E u \in Existing, call \in Calls : OpenCall(r, u, call)
  \/ \E email \in Emails : Login(r, email)
  \/ \E t \in tokens : Refresh(r, t)

AccountStep(r) ==
  \/ Deny(r) \/ DenyUnlogged(r) \/ AnswerLogin(r) \/ HandleUser(r) \/ HandleCreate(r)
  \/ CommitUsers(r) \/ CommitCreate(r)
=============================================================================
