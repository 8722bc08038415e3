---------------------------- MODULE TenancyProofs ----------------------------
(***************************************************************************)
(* Theorems about Tenancy, for every number of requests, workers, users,   *)
(* tenants, addresses, calls and activations.                              *)
(***************************************************************************)
EXTENDS Tenancy, TLAPS

-----------------------------------------------------------------------------
(* The inductive invariant *)

Guarded == {"deny", "handler", "insert", "ending"}
Registering == {"tenant", "owner", "tokens"}
Activating == {"subscription", "activating"}
UserOps == {"logout", "update", "reset"}

HeldRows == [tenant : TenantRow \cup {None}, subscription : SubscriptionRow \cup {None}]

TypeInv ==
  /\ TenancyTypeOK
  /\ pc \in [Requests -> Ended \cup Guarded \cup Registering \cup Activating \cup {"answer"}]
  /\ DOMAIN task = Requests
  /\ held \in [Requests -> HeldRows]

\* What a request knows of its task at each step.
KnowsTask(r) ==
  /\ pc[r] \in Guarded \cup {"answer"} =>
       task[r].actor \in Users /\ loaded[r][task[r].actor] # None
  /\ pc[r] \in Guarded => task[r].call \in Calls /\ task[r].op = task[r].call.op
  /\ pc[r] \in Guarded => loaded[r][task[r].actor].is_active
  /\ pc[r] = "handler" =>
       /\ task[r].op \in UserOps \cup {"create"}
       /\ task[r].op = "logout" \/ loaded[r][task[r].actor].role = "OWNER"
  /\ pc[r] = "insert" => task[r].op = "create"
  /\ pc[r] = "answer" => loaded[r][task[r].actor].is_active
  /\ pc[r] \in Registering => task[r].email \in Emails
  /\ pc[r] \in Activating =>
       /\ task[r].activation \in Activations /\ task[r].activation.admin_key
       /\ held[r].tenant # None /\ tenant[task[r].activation.tenant] # None
       /\ held[r].tenant.email = tenant[task[r].activation.tenant].email
  /\ pc[r] = "activating" =>
       held[r].subscription # None /\ PlanFound(task[r].activation.plan_id)

TaskOK == \A r \in Requests : KnowsTask(r)

SamePerson(a, b) == a.tenant = b.tenant /\ a.email = b.email /\ a.role = b.role

\* What a request creates is there only after its commit, and stays.
RowsOK ==
  /\ \A r \in Requests :
       /\ user[r] # None \/ tenant[r] # None \/ subscription[r] # None
            => pc[r] \in {"tokens", "done"}
       /\ pc[r] = "tokens" => user[r] # None
  /\ \A k \in tokens : user[k.user] # None

\* The copies of a session are of rows that are there; the handler makes them
\* differ from what was loaded, and never without a new version where it takes
\* something away.
CopyOK(r, u) ==
  /\ loaded[r][u] = None <=> mine[r][u] = None
  /\ loaded[r][u] # None =>
       /\ user[u] # None
       /\ SamePerson(loaded[r][u], user[u]) /\ SamePerson(mine[r][u], user[u])
       /\ loaded[r][u].token_version <= mine[r][u].token_version
       /\ loaded[r][u].token_version = mine[r][u].token_version =>
            /\ mine[r][u].password = loaded[r][u].password
            /\ loaded[r][u].is_active => mine[r][u].is_active
  /\ mine[r][u] # loaded[r][u] =>
       /\ pc[r] = "ending"
       /\ loaded[r][task[r].actor].tenant = user[u].tenant
       /\ u = task[r].actor \/ loaded[r][task[r].actor].role = "OWNER"

CopiesOK == \A r \in Requests, u \in Users : CopyOK(r, u)

\* A version that is still the user's stands for the password and for a user
\* who is active, whoever kept it.
VersionsOK ==
  \A u \in Users \ stale :
    /\ \A k \in tokens : k.user = u =>
         /\ k.tv <= user[u].token_version
         /\ k.tv = user[u].token_version =>
              k.password = user[u].password /\ user[u].is_active
    /\ \A r \in Requests : loaded[r][u] # None =>
         /\ loaded[r][u].token_version <= user[u].token_version
         /\ loaded[r][u].token_version = user[u].token_version =>
              /\ loaded[r][u].password = user[u].password
              /\ loaded[r][u].is_active => user[u].is_active

IInv ==
  /\ TypeInv
  /\ TaskOK
  /\ RowsOK
  /\ CopiesOK
  /\ VersionsOK
  /\ EmailsUnique
  /\ TenantsWhole
  /\ SubscriptionMirrored

-----------------------------------------------------------------------------
(* Rows and copies *)

\* None is no row.
LEMMA NoneIsNoRow == None \notin Account /\ None \notin TenantRow /\ None \notin SubscriptionRow
BY AccountsAssumption, TenancyAssumption

\* An UPDATE takes a column from the new copy where it differs from the loaded
\* one and keeps the row's otherwise.
LEMMA WrittenAccount ==
  ASSUME NEW row \in Account, NEW old \in Account, NEW new \in Account
  PROVE  /\ Written(row, old, new) \in Account
         /\ SamePerson(old, row) /\ SamePerson(new, row) => SamePerson(Written(row, old, new), row)
         /\ row = old => Written(row, old, new) = new
<1> DEFINE w == Written(row, old, new)
<1>1. w = [tenant |-> w.tenant, email |-> w.email, role |-> w.role, is_active |-> w.is_active,
           token_version |-> w.token_version, password |-> w.password]
  BY DEF Written, Account
<1>2. /\ w.tenant = IF new.tenant # old.tenant THEN new.tenant ELSE row.tenant
      /\ w.email = IF new.email # old.email THEN new.email ELSE row.email
      /\ w.role = IF new.role # old.role THEN new.role ELSE row.role
      /\ w.is_active = IF new.is_active # old.is_active THEN new.is_active ELSE row.is_active
      /\ w.token_version = IF new.token_version # old.token_version THEN new.token_version
                           ELSE row.token_version
      /\ w.password = IF new.password # old.password THEN new.password ELSE row.password
  BY DEF Written, Account
<1>3. w \in Account
  BY <1>1, <1>2 DEF Account
<1>4. SamePerson(old, row) /\ SamePerson(new, row) => SamePerson(w, row)
  BY <1>2 DEF SamePerson
<1>5. row = old => w = new
  BY <1>1, <1>2 DEF Account
<1> QED  BY <1>3, <1>4, <1>5

LEMMA WrittenTenant ==
  ASSUME NEW row \in TenantRow, NEW old \in TenantRow, NEW new \in TenantRow
  PROVE  /\ Written(row, old, new) \in TenantRow
         /\ old.email = new.email => Written(row, old, new).email = row.email
         /\ row = old => Written(row, old, new) = new
<1> DEFINE w == Written(row, old, new)
<1>1. w = [email |-> w.email, subscription_status |-> w.subscription_status]
  BY DEF Written, TenantRow
<1>2. /\ w.email = IF new.email # old.email THEN new.email ELSE row.email
      /\ w.subscription_status = IF new.subscription_status # old.subscription_status
                                 THEN new.subscription_status ELSE row.subscription_status
  BY DEF Written, TenantRow
<1> QED  BY <1>1, <1>2 DEF TenantRow

LEMMA WrittenSubscription ==
  ASSUME NEW row \in SubscriptionRow, NEW old \in SubscriptionRow, NEW new \in SubscriptionRow
  PROVE  /\ Written(row, old, new) \in SubscriptionRow
         /\ row = old => Written(row, old, new) = new
<1> DEFINE w == Written(row, old, new)
<1>1. w = [status |-> w.status, plan_id |-> w.plan_id]
  BY DEF Written, SubscriptionRow
<1>2. /\ w.status = IF new.status # old.status THEN new.status ELSE row.status
      /\ w.plan_id = IF new.plan_id # old.plan_id THEN new.plan_id ELSE row.plan_id
  BY DEF Written, SubscriptionRow
<1> QED  BY <1>1, <1>2 DEF SubscriptionRow

LEMMA BumpedAccount ==
  ASSUME NEW row \in Account
  PROVE  /\ BumpedVersion(row) \in Account
         /\ SamePerson(BumpedVersion(row), row)
         /\ row.token_version \in Nat
         /\ BumpedVersion(row).token_version = row.token_version + 1
BY DEF BumpedVersion, Account, SamePerson

\* What the handlers make of a row: a reset and a deactivation bump the version.
LEMMA HandledAccount ==
  ASSUME NEW r \in Requests, NEW row \in Account, task[r].op \in UserOps
  PROVE  /\ Handled(r, row) \in Account
         /\ SamePerson(Handled(r, row), row)
         /\ row.token_version <= Handled(r, row).token_version
         /\ row.token_version = Handled(r, row).token_version =>
              /\ Handled(r, row).password = row.password
              /\ row.is_active => Handled(r, row).is_active
<1> DEFINE on == [row EXCEPT !.is_active = TRUE]
           off == [row EXCEPT !.is_active = FALSE]
           new == [row EXCEPT !.password = r]
<1>1. r \in Passwords
  BY DEF Passwords
<1>2. off \in Account /\ new \in Account
  BY <1>1 DEF Account
<1>3. /\ SamePerson(off, row) /\ off.token_version = row.token_version
      /\ SamePerson(new, row) /\ new.token_version = row.token_version
  BY DEF Account, SamePerson
<1> HIDE DEF off, new
<1>4. CASE task[r].op = "logout"
  <2>1. Handled(r, row) = BumpedVersion(row)
    BY <1>4 DEF Handled
  <2> QED  BY <2>1, BumpedAccount
<1>5. CASE task[r].op = "update" /\ task[r].call.is_active
  <2>1. Handled(r, row) = on
    BY <1>5 DEF Handled, Activated
  <2>2. on \in Account /\ on.is_active = TRUE
    BY DEF Account
  <2>3. SamePerson(on, row) /\ on.password = row.password
    BY DEF Account, SamePerson
  <2>4. on.token_version = row.token_version /\ row.token_version \in Nat
    BY DEF Account
  <2> QED  BY <2>1, <2>2, <2>3, <2>4
<1>6. CASE task[r].op = "update" /\ ~task[r].call.is_active
  <2>1. Handled(r, row) = BumpedVersion(off)
    BY <1>6 DEF Handled, Activated, off
  <2> QED  BY <1>2, <1>3, <2>1, BumpedAccount DEF SamePerson
<1>7. CASE task[r].op = "reset"
  <2>1. Handled(r, row) = BumpedVersion(new)
    BY <1>7 DEF Handled, Reset, new
  <2> QED  BY <1>2, <1>3, <2>1, BumpedAccount DEF SamePerson
<1> QED  BY <1>4, <1>5, <1>6, <1>7 DEF UserOps

-----------------------------------------------------------------------------
(* Initially *)

LEMMA IInvInit == Init => IInv
<1> SUFFICES ASSUME Init PROVE IInv
  OBVIOUS
<1> USE AccountsAssumption, TenancyAssumption DEF Init, AccountsInit
<1>1. \A u \in Staff :
        LET row == Row(OpeningUsers[u].tenant, OpeningUsers[u].email, OpeningUsers[u].role, None)
        IN row \in Account /\ user[u] = row /\ user[u] # None
  <2> TAKE u \in Staff
  <2>1. OpeningUsers[u] \in [tenant : Shops, email : Emails, role : Roles]
    OBVIOUS
  <2>2. Row(OpeningUsers[u].tenant, OpeningUsers[u].email, OpeningUsers[u].role, None) \in Account
    BY <2>1 DEF Row, Account, Tenants, Passwords
  <2> QED  BY <2>2, NoneIsNoRow DEF Users
<1>2. \A t \in Shops :
        /\ Founder(t) \in Staff
        /\ OpeningUsers[Founder(t)].tenant = t /\ OpeningUsers[Founder(t)].role = "OWNER"
        /\ tenant[t] = [email |-> OpeningUsers[Founder(t)].email,
                        subscription_status |-> STATUS_TRIAL]
        /\ tenant[t] \in TenantRow
        /\ subscription[t] = Trial
  BY DEF Founder, Users, Tenants, TenantRow, Statuses
<1>3. Trial \in SubscriptionRow
  BY DEF Trial, SubscriptionRow, Statuses, NoPlan
<1>4. TypeInv
  <2>1. user \in [Users -> Account \cup {None}]
    BY <1>1 DEF Users
  <2>2. tokens \subseteq Token
    BY DEF Token, Users, Passwords
  <2>3. tenant \in [Tenants -> TenantRow \cup {None}]
    BY <1>2 DEF Tenants
  <2>4. subscription \in [Tenants -> SubscriptionRow \cup {None}]
    BY <1>3 DEF Tenants
  <2>5. held \in [Requests -> HeldRows]
    BY DEF HeldRows, Nothing
  <2>6. AccountsTypeOK
    BY <2>1, <2>2 DEF AccountsTypeOK, Users, NoneOf
  <2> QED  BY <2>3, <2>4, <2>5, <2>6 DEF TypeInv, TenancyTypeOK, Ended
<1>5. TaskOK
  BY DEF TaskOK, KnowsTask, Guarded, Registering, Activating
<1>6. RowsOK
  BY <1>1 DEF RowsOK, Users, Tenants
<1>7. CopiesOK
  BY DEF CopiesOK, CopyOK, NoneOf
<1>8. VersionsOK
  BY <1>1 DEF VersionsOK, NoneOf, Row
<1>9. EmailsUnique
  BY <1>1 DEF EmailsUnique, Existing, Row
<1>10. TenantsWhole
  BY <1>1, <1>2, <1>3, NoneIsNoRow DEF TenantsWhole, Existing, Row, Users, Tenants
<1>11. SubscriptionMirrored
  BY <1>2 DEF SubscriptionMirrored, StatusMirrored, Trial, Tenants
<1> QED  BY <1>4, <1>5, <1>6, <1>7, <1>8, <1>9, <1>10, <1>11 DEF IInv

-----------------------------------------------------------------------------
(* Steps of sessions that change no row *)

\* A session is closed and nothing was written; only a registration that has
\* been committed must not run again.
LEMMA ClosingKeeps ==
  ASSUME IInv, NEW r \in Requests, r \in Busy,
         NEW step \in {"idle", "done"}, End(r, step),
         step = "done" \/ pc[r] # "tokens",
         UNCHANGED <<user, tokens, access, audit, stale, tenant, subscription, overlapped>>,
         ForgetObjects(r) \/ (UNCHANGED held /\ held[r] = Nothing)
  PROVE  IInv'
<1> USE DEF IInv, End, CloseSession, Busy
<1>1. held' \in [Requests -> HeldRows] /\ held'[r] = Nothing
      /\ \A q \in Requests \ {r} : held'[q] = held[q]
  BY DEF TypeInv, ForgetObjects, HeldRows, Nothing
<1>2. TypeInv'
  BY <1>1 DEF TypeInv, TenancyTypeOK, AccountsTypeOK, NoneOf, Ended
<1>3. TaskOK'
  BY <1>1 DEF TaskOK, KnowsTask, TypeInv, TenancyTypeOK, AccountsTypeOK, Guarded, Registering, Activating
<1>4. RowsOK'
  BY DEF RowsOK, TypeInv, Ended
<1>5. CopiesOK'
  BY DEF CopiesOK, CopyOK, TypeInv, TenancyTypeOK, AccountsTypeOK, NoneOf
<1>6. VersionsOK'
  BY DEF VersionsOK, TypeInv, TenancyTypeOK, AccountsTypeOK, NoneOf
<1>7. EmailsUnique' /\ TenantsWhole' /\ SubscriptionMirrored'
  BY DEF EmailsUnique, TenantsWhole, SubscriptionMirrored, Existing, StatusMirrored
<1> QED  BY <1>2, <1>3, <1>4, <1>5, <1>6, <1>7

LEMMA RollBackKeeps ==
  ASSUME IInv, NEW r \in Requests, pc[r] \in Guarded \cup {"tenant", "owner"}, RollBack(r),
         UNCHANGED tenantVars
  PROVE  IInv'
<1>1. held[r] = Nothing /\ r \in Busy
  BY DEF IInv, TypeInv, TenancyTypeOK, Guarded, Activating, Busy, Ended
<1> QED  BY <1>1, ClosingKeeps DEF RollBack, tenantVars, Guarded

LEMMA FailKeeps ==
  ASSUME IInv, NEW r \in Requests, Fail(r)
  PROVE  IInv'
BY ClosingKeeps DEF Fail

LEMMA DenyUnloggedKeeps ==
  ASSUME IInv, NEW r \in Requests, DenyUnlogged(r), UNCHANGED tenantVars
  PROVE  IInv'
<1>1. held[r] = Nothing /\ r \in Busy /\ pc[r] # "tokens"
  BY DEF IInv, TypeInv, TenancyTypeOK, Guarded, Activating, Busy, Ended, DenyUnlogged
<1> QED  BY <1>1, ClosingKeeps DEF DenyUnlogged, tenantVars

\* The audit row names the caller's tenant, which its copy of the caller has.
LEMMA DenyKeeps ==
  ASSUME IInv, NEW r \in Requests, Deny(r), UNCHANGED tenantVars
  PROVE  IInv'
<1> USE DEF IInv, Deny, End, CloseSession, tenantVars
<1>1. Denial(r) \in [request : Requests, user : Users, tenant : Tenants]
  BY DEF Denial, TaskOK, KnowsTask, TypeInv, TenancyTypeOK, AccountsTypeOK, Guarded, Account
<1>2. TypeInv'
  BY <1>1 DEF TypeInv, TenancyTypeOK, AccountsTypeOK, NoneOf, Ended, Activating
<1>3. TaskOK'
  BY DEF TaskOK, KnowsTask, TypeInv, TenancyTypeOK, AccountsTypeOK, Guarded, Registering, Activating
<1>4. RowsOK'
  BY DEF RowsOK, TypeInv, Ended
<1>5. CopiesOK'
  BY DEF CopiesOK, CopyOK, TypeInv, TenancyTypeOK, AccountsTypeOK, NoneOf
<1>6. VersionsOK'
  BY DEF VersionsOK, TypeInv, TenancyTypeOK, AccountsTypeOK, NoneOf
<1>7. EmailsUnique' /\ TenantsWhole' /\ SubscriptionMirrored'
  BY DEF EmailsUnique, TenantsWhole, SubscriptionMirrored, Existing, StatusMirrored
<1> QED  BY <1>2, <1>3, <1>4, <1>5, <1>6, <1>7

\* A session is opened on a fresh copy of its caller.
LEMMA OpenKeeps ==
  ASSUME IInv, NEW r \in Requests, NEW u \in Existing, NEW what,
         NEW step \in {"deny", "handler", "ending", "answer"},
         Start(r, what, step), what.actor = u,
         user[u].is_active,
         step # "answer" => what.call \in Calls /\ what.op = what.call.op,
         step = "handler" =>
           /\ what.op \in UserOps \cup {"create"}
           /\ what.op = "logout" \/ user[u].role = "OWNER",
         loaded' = [loaded EXCEPT ![r][u] = user[u]],
         mine' = [mine EXCEPT ![r][u] = user[u]],
         UNCHANGED <<user, tokens, access, audit, stale, tenantVars>>
  PROVE  IInv'
<1> USE DEF IInv, Start, tenantVars
<1>1. u \in Users /\ user[u] \in Account /\ user[u] # None
  BY DEF Existing, TypeInv, TenancyTypeOK, AccountsTypeOK
<1>2. TypeInv'
  BY <1>1 DEF TypeInv, TenancyTypeOK, AccountsTypeOK, Ended, Guarded, Activating
<1>3. TaskOK'
  BY <1>1 DEF TaskOK, KnowsTask, TypeInv, TenancyTypeOK, AccountsTypeOK, Guarded, Registering, Activating
<1>4. RowsOK'
  BY DEF RowsOK, TypeInv
<1>5. CopiesOK'
  <2> SUFFICES ASSUME NEW q \in Requests, NEW v \in Users
               PROVE  CopyOK(q, v)'
    BY DEF CopiesOK
  <2>1. CASE q = r /\ v = u
    BY <1>1, <2>1 DEF CopyOK, TypeInv, TenancyTypeOK, AccountsTypeOK, SamePerson, Account
  <2>2. CASE ~(q = r /\ v = u)
    BY <1>1, <2>2 DEF CopiesOK, CopyOK, TypeInv, TenancyTypeOK, AccountsTypeOK
  <2> QED  BY <2>1, <2>2
<1>6. VersionsOK'
  BY <1>1 DEF VersionsOK, TypeInv, TenancyTypeOK, AccountsTypeOK, Account
<1>7. EmailsUnique' /\ TenantsWhole' /\ SubscriptionMirrored'
  BY DEF EmailsUnique, TenantsWhole, SubscriptionMirrored, Existing, StatusMirrored
<1> QED  BY <1>2, <1>3, <1>4, <1>5, <1>6, <1>7

LEMMA OpenCallKeeps ==
  ASSUME IInv, NEW r \in Requests, NEW u \in Existing, NEW call \in Calls, OpenCall(r, u, call),
         UNCHANGED tenantVars
  PROVE  IInv'
<1> DEFINE what == [op |-> call.op, actor |-> u, call |-> call]
           step == CASE ~Allowed(user[u].role, call) -> "deny"
                     [] call.op = "other"            -> "ending"
                     [] OTHER                        -> "handler"
<1>1. call.op \in UserOps \cup {"other", "create"}
  BY AccountsAssumption DEF Call, UserOps
<1>2. step \in {"deny", "handler", "ending"}
  OBVIOUS
<1>3. step = "handler" =>
        /\ what.op \in UserOps \cup {"create"}
        /\ what.op = "logout" \/ user[u].role = "OWNER"
  BY <1>1 DEF Allowed, UserOps
<1>4. what.actor = u /\ what.call = call /\ what.op = call.op
  OBVIOUS
<1> HIDE DEF what, step
<1>5. Start(r, what, step)
  BY DEF OpenCall, what, step
<1> QED  BY <1>2, <1>3, <1>4, <1>5, OpenKeeps DEF OpenCall

LEMMA LoginKeeps ==
  ASSUME IInv, NEW r \in Requests, NEW email \in Emails, Login(r, email), UNCHANGED tenantVars
  PROVE  IInv'
<1>1. PICK u \in Existing :
        /\ user[u].is_active
        /\ Start(r, [op |-> "login", actor |-> u], "answer")
        /\ loaded' = [loaded EXCEPT ![r][u] = user[u]]
        /\ mine' = [mine EXCEPT ![r][u] = user[u]]
        /\ UNCHANGED <<user, tokens, access, audit, stale>>
  BY DEF Login
<1> QED  BY <1>1, OpenKeeps

LEMMA RefreshKeeps ==
  ASSUME IInv, NEW r \in Requests, NEW k \in tokens, Refresh(r, k), UNCHANGED tenantVars
  PROVE  IInv'
<1> USE DEF IInv, Refresh, Start, sessionVars, tenantVars
<1>1. TypeInv'
  BY DEF TypeInv, TenancyTypeOK, AccountsTypeOK, Token, Ended, Activating
<1>2. TaskOK' /\ RowsOK' /\ CopiesOK'
  BY DEF TaskOK, KnowsTask, RowsOK, CopiesOK, CopyOK, TypeInv, Guarded, Registering, Activating
<1>3. VersionsOK' /\ EmailsUnique' /\ TenantsWhole' /\ SubscriptionMirrored'
  BY DEF VersionsOK, EmailsUnique, TenantsWhole, SubscriptionMirrored, Existing, StatusMirrored
<1> QED  BY <1>1, <1>2, <1>3

\* A step from the caller's own session to another of its steps.
LEMMA AdvanceKeeps ==
  ASSUME IInv, NEW r \in Requests, UNCHANGED <<user, tokens, access, audit, task, stale, sessionVars, tenantVars>>,
         NEW step, pc' = [pc EXCEPT ![r] = step],
         \/ pc[r] = "handler" /\ task[r].op = "create" /\ step = "insert"
         \/ pc[r] = "tenant" /\ step = "owner"
  PROVE  IInv'
<1> USE DEF IInv, sessionVars, tenantVars
<1>1. TypeInv'
  BY DEF TypeInv, TenancyTypeOK, AccountsTypeOK, Guarded, Registering, Activating
<1>2. TaskOK' /\ RowsOK' /\ CopiesOK'
  BY DEF TaskOK, KnowsTask, RowsOK, CopiesOK, CopyOK, TypeInv, Guarded, Registering, Activating
<1>3. VersionsOK' /\ EmailsUnique' /\ TenantsWhole' /\ SubscriptionMirrored'
  BY DEF VersionsOK, EmailsUnique, TenantsWhole, SubscriptionMirrored, Existing, StatusMirrored
<1> QED  BY <1>1, <1>2, <1>3

LEMMA HandleCreateKeeps ==
  ASSUME IInv, NEW r \in Requests, HandleCreate(r), UNCHANGED tenantVars
  PROVE  IInv'
BY RollBackKeeps, AdvanceKeeps DEF HandleCreate, Guarded

LEMMA InsertTenantKeeps ==
  ASSUME IInv, NEW r \in Requests, InsertTenant(r)
  PROVE  IInv'
BY RollBackKeeps, AdvanceKeeps DEF InsertTenant

LEMMA LookUpEmailKeeps ==
  ASSUME IInv, NEW r \in Requests, NEW email \in Emails, LookUpEmail(r, email)
  PROVE  IInv'
<1> USE DEF IInv, LookUpEmail, Start, sessionVars, tenantVars
<1>1. TypeInv'
  BY DEF TypeInv, TenancyTypeOK, AccountsTypeOK, Registering, Ended, Activating
<1>2. TaskOK' /\ RowsOK' /\ CopiesOK'
  BY DEF TaskOK, KnowsTask, RowsOK, CopiesOK, CopyOK, TypeInv, Guarded, Registering, Activating
<1>3. VersionsOK' /\ EmailsUnique' /\ TenantsWhole' /\ SubscriptionMirrored'
  BY DEF VersionsOK, EmailsUnique, TenantsWhole, SubscriptionMirrored, Existing, StatusMirrored
<1> QED  BY <1>1, <1>2, <1>3

-----------------------------------------------------------------------------
(* Tokens *)

\* The tokens of a login are of the version its copy had: if that is still the
\* user's, so is the password that was checked.
LEMMA AnswerLoginKeeps ==
  ASSUME IInv, NEW r \in Requests, AnswerLogin(r), UNCHANGED tenantVars
  PROVE  IInv'
<1> DEFINE u == task[r].actor
           k == TokenFor(u, loaded[r][u])
<1> USE DEF IInv, End, CloseSession, tenantVars
<1>1. /\ pc[r] = "answer" /\ tokens' = tokens \cup {k} /\ access' = access \cup {u}
      /\ End(r, "done") /\ UNCHANGED <<user, audit, stale>>
  BY DEF AnswerLogin
<1>2. u \in Users /\ loaded[r][u] \in Account /\ loaded[r][u].is_active /\ user[u] # None
  BY <1>1 DEF TaskOK, KnowsTask, TypeInv, TenancyTypeOK, AccountsTypeOK, CopiesOK, CopyOK
<1>3. k \in Token /\ k.user = u /\ k.tv = loaded[r][u].token_version
      /\ k.password = loaded[r][u].password
  BY <1>2 DEF TokenFor, Token, Account
<1> HIDE DEF k
<1>4. TypeInv'
  BY <1>1, <1>2, <1>3 DEF TypeInv, TenancyTypeOK, AccountsTypeOK, NoneOf, Ended, Activating
<1>5. TaskOK' /\ RowsOK'
  BY <1>1, <1>2, <1>3 DEF TaskOK, KnowsTask, RowsOK, TypeInv, TenancyTypeOK, AccountsTypeOK,
                          Guarded, Registering, Activating
<1>6. CopiesOK'
  BY <1>1 DEF CopiesOK, CopyOK, TypeInv, TenancyTypeOK, AccountsTypeOK, NoneOf
<1>7. VersionsOK'
  <2>1. ASSUME NEW v \in Users \ stale', NEW n \in tokens', n.user = v
        PROVE  /\ n.tv <= user[v].token_version
               /\ n.tv = user[v].token_version =>
                    n.password = user[v].password /\ user[v].is_active
    <3>1. CASE n = k
      <4>1. v = u /\ u \in Users \ stale
        BY <1>1, <1>3, <2>1, <3>1
      <4>2. /\ loaded[r][u].token_version <= user[u].token_version
            /\ loaded[r][u].token_version = user[u].token_version =>
                 /\ loaded[r][u].password = user[u].password
                 /\ user[u].is_active
        BY <1>2, <4>1, NoneIsNoRow DEF VersionsOK
      <4> QED  BY <1>3, <3>1, <4>1, <4>2
    <3>2. CASE n \in tokens
      BY <1>1, <2>1, <3>2 DEF VersionsOK
    <3> QED  BY <1>1, <3>1, <3>2
  <2>2. \A q \in Requests, v \in Users : loaded'[q][v] # None => loaded'[q][v] = loaded[q][v]
    BY <1>1 DEF TypeInv, TenancyTypeOK, AccountsTypeOK, NoneOf
  <2> QED  BY <1>1, <2>1, <2>2 DEF VersionsOK
<1>8. EmailsUnique' /\ TenantsWhole' /\ SubscriptionMirrored'
  BY <1>1 DEF EmailsUnique, TenantsWhole, SubscriptionMirrored, Existing, StatusMirrored
<1> QED  BY <1>4, <1>5, <1>6, <1>7, <1>8

\* The tokens of a registration are of the password it set, unless its user
\* was changed before them.
LEMMA AnswerRegisterKeeps ==
  ASSUME IInv, NEW r \in Requests, AnswerRegister(r)
  PROVE  IInv'
<1> DEFINE k == [TokenFor(r, user[r]) EXCEPT !.password = r]
<1> USE DEF IInv, End, CloseSession, tenantVars
<1>1. /\ pc[r] = "tokens" /\ tokens' = tokens \cup {k} /\ access' = access \cup {r}
      /\ stale' = IF user[r] = Row(r, task[r].email, "OWNER", r) THEN stale ELSE stale \cup {r}
      /\ End(r, "done") /\ UNCHANGED <<user, audit, tenantVars>>
  BY DEF AnswerRegister
<1>2. r \in Users /\ user[r] \in Account /\ user[r] # None
  BY <1>1 DEF RowsOK, TypeInv, TenancyTypeOK, AccountsTypeOK, Users
<1>3. k \in Token /\ k.user = r /\ k.tv = user[r].token_version /\ k.password = r
  BY <1>2 DEF TokenFor, Token, Account, Passwords
<1>4. r \notin stale' =>
        stale' = stale /\ user[r].password = r /\ user[r].is_active = TRUE
  BY <1>1 DEF Row
<1> HIDE DEF k
<1>5. TypeInv'
  BY <1>1, <1>2, <1>3 DEF TypeInv, TenancyTypeOK, AccountsTypeOK, NoneOf, Ended, Activating
<1>6. TaskOK' /\ RowsOK'
  BY <1>1, <1>2, <1>3 DEF TaskOK, KnowsTask, RowsOK, TypeInv, TenancyTypeOK, AccountsTypeOK,
                          Guarded, Registering, Activating
<1>7. CopiesOK'
  BY <1>1 DEF CopiesOK, CopyOK, TypeInv, TenancyTypeOK, AccountsTypeOK, NoneOf
<1>8. VersionsOK'
  <2>1. stale \subseteq stale'
    BY <1>1
  <2>2. ASSUME NEW u \in Users \ stale', NEW n \in tokens', n.user = u
        PROVE  /\ n.tv <= user[u].token_version
               /\ n.tv = user[u].token_version =>
                    n.password = user[u].password /\ user[u].is_active
    BY <1>1, <1>2, <1>3, <1>4, <2>1, <2>2 DEF VersionsOK, Account
  <2>3. \A q \in Requests, u \in Users : loaded'[q][u] # None => loaded'[q][u] = loaded[q][u]
    BY <1>1 DEF TypeInv, TenancyTypeOK, AccountsTypeOK, NoneOf
  <2> QED  BY <1>1, <2>1, <2>2, <2>3 DEF VersionsOK
<1>9. EmailsUnique' /\ TenantsWhole' /\ SubscriptionMirrored'
  BY <1>1 DEF EmailsUnique, TenantsWhole, SubscriptionMirrored, Existing, StatusMirrored
<1> QED  BY <1>5, <1>6, <1>7, <1>8, <1>9

-----------------------------------------------------------------------------
(* The handlers and commits of users *)

\* The handler works on the session's copy, whoever else changes the row.
LEMMA HandleUserKeeps ==
  ASSUME IInv, NEW r \in Requests, HandleUser(r), UNCHANGED tenantVars
  PROVE  IInv'
<1> DEFINE u == Subject(r)
<1> USE DEF IInv, tenantVars
<1>1. CASE ~InTenant(r, u)
  BY <1>1, RollBackKeeps DEF HandleUser, Guarded
<1>2. CASE InTenant(r, u)
  <2>1. /\ pc[r] = "handler" /\ task[r].op \in UserOps
        /\ loaded' = [loaded EXCEPT ![r][u] = CopyOf(r, u)]
        /\ mine' = [mine EXCEPT ![r][u] = Handled(r, CopyOf(r, u))]
        /\ pc' = [pc EXCEPT ![r] = "ending"]
        /\ UNCHANGED <<user, tokens, access, audit, task, stale>>
    BY <1>2 DEF HandleUser, UserOps
  <2>2. /\ task[r].actor \in Users /\ loaded[r][task[r].actor] # None
        /\ task[r].call \in Calls /\ task[r].op = task[r].call.op
    BY <2>1 DEF TaskOK, KnowsTask, Guarded
  <2>3. u \in Users
    BY <2>1, <2>2, AccountsAssumption DEF Subject, Call, UserOps
  <2>4. /\ user[u] \in Account /\ user[u] # None
        /\ user[u].tenant = loaded[r][task[r].actor].tenant
    BY <1>2, <2>3 DEF InTenant, TypeInv, TenancyTypeOK, AccountsTypeOK
  <2>5. /\ CopyOf(r, u) \in Account /\ CopyOf(r, u) # None
        /\ loaded[r][u] # None => CopyOf(r, u) = loaded[r][u]
        /\ loaded[r][u] = None => CopyOf(r, u) = user[u]
        /\ SamePerson(CopyOf(r, u), user[u])
    <3>1. mine[r][u] = loaded[r][u] /\ CopyOK(r, u)
      BY <2>1, <2>3 DEF CopiesOK, CopyOK
    <3>2. CASE loaded[r][u] = None
      BY <2>4, <3>1, <3>2 DEF CopyOf, SamePerson
    <3>3. CASE loaded[r][u] # None
      BY <2>3, <3>1, <3>3 DEF CopyOf, CopyOK, TypeInv, TenancyTypeOK, AccountsTypeOK
    <3> QED  BY <3>2, <3>3
  <2>6. /\ Handled(r, CopyOf(r, u)) \in Account
        /\ SamePerson(Handled(r, CopyOf(r, u)), user[u])
        /\ CopyOf(r, u).token_version <= Handled(r, CopyOf(r, u)).token_version
        /\ CopyOf(r, u).token_version = Handled(r, CopyOf(r, u)).token_version =>
             /\ Handled(r, CopyOf(r, u)).password = CopyOf(r, u).password
             /\ CopyOf(r, u).is_active => Handled(r, CopyOf(r, u)).is_active
    BY <2>1, <2>5, HandledAccount DEF SamePerson
  <2> DEFINE old == CopyOf(r, u)
             new == Handled(r, CopyOf(r, u))
  <2>7. loaded' = [loaded EXCEPT ![r][u] = old] /\ mine' = [mine EXCEPT ![r][u] = new]
    BY <2>1
  <2>8. loaded'[r][task[r].actor] = loaded[r][task[r].actor]
    BY <2>2, <2>3, <2>4, <2>5, <2>7 DEF TypeInv, TenancyTypeOK, AccountsTypeOK
  <2>15. u = task[r].actor \/ loaded[r][task[r].actor].role = "OWNER"
    BY <2>1 DEF Subject, TaskOK, KnowsTask
  <2> HIDE DEF old, new, u
  <2>9. TypeInv'
    BY <2>1, <2>3, <2>5, <2>6, <2>7 DEF TypeInv, TenancyTypeOK, AccountsTypeOK, Guarded, Activating,
                                        old, new
  <2>10. TaskOK'
    BY <2>1, <2>2, <2>3, <2>5, <2>7, <2>8 DEF TaskOK, KnowsTask, TypeInv, TenancyTypeOK, AccountsTypeOK,
                                              Guarded, Registering, Activating, old
  <2>11. RowsOK'
    BY <2>1 DEF RowsOK, TypeInv
  <2>12. CopiesOK'
    <3> SUFFICES ASSUME NEW q \in Requests, NEW v \in Users
                 PROVE  CopyOK(q, v)'
      BY DEF CopiesOK
    <3>1. CASE q = r /\ v = u
      <4>1. loaded'[q][v] = old /\ mine'[q][v] = new
        BY <2>7, <3>1 DEF TypeInv, TenancyTypeOK, AccountsTypeOK
      <4>2. old # None /\ new # None /\ pc'[q] = "ending" /\ task'[q].op \in UserOps
        BY <2>1, <2>5, <2>6, <3>1, NoneIsNoRow DEF old, new, TypeInv
      <4> QED  BY <2>1, <2>4, <2>5, <2>6, <2>8, <2>15, <3>1, <4>1, <4>2 DEF CopyOK, old, new
    <3>2. CASE ~(q = r /\ v = u)
      <4>1. CopyOK(q, v) /\ loaded'[q][v] = loaded[q][v] /\ mine'[q][v] = mine[q][v]
        BY <2>3, <2>7, <3>2 DEF CopiesOK, TypeInv, TenancyTypeOK, AccountsTypeOK
      <4>2. q = r => mine[q][v] = loaded[q][v]
        BY <2>1, <4>1 DEF CopyOK
      <4>3. q # r => pc'[q] = pc[q] /\ loaded'[q] = loaded[q]
        BY <2>1 DEF TypeInv, TenancyTypeOK, AccountsTypeOK
      <4> QED  BY <2>1, <4>1, <4>2, <4>3 DEF CopyOK
    <3> QED  BY <3>1, <3>2
  <2>13. VersionsOK'
    <3>1. \A q \in Requests, v \in Users :
            loaded'[q][v] = loaded[q][v] \/ (q = r /\ v = u /\ loaded'[q][v] = user[v])
      BY <2>3, <2>5, <2>7 DEF TypeInv, TenancyTypeOK, AccountsTypeOK, old
    <3>2. user[u].token_version \in Nat
      BY <2>4 DEF Account
    <3> QED  BY <2>1, <2>3, <3>1, <3>2 DEF VersionsOK
  <2>14. EmailsUnique' /\ TenantsWhole' /\ SubscriptionMirrored'
    BY <2>1 DEF EmailsUnique, TenantsWhole, SubscriptionMirrored, Existing, StatusMirrored
  <2> QED  BY <2>9, <2>10, <2>11, <2>12, <2>13, <2>14
<1> QED  BY <1>1, <1>2

\* What a commit does to each row: the dirty copies of the session reach it
\* whole, unless the row changed since it was loaded.
LEMMA CommittedRows ==
  ASSUME IInv, NEW r \in Requests, CommitUsers(r), NEW u \in Users
  PROVE  /\ user[u] = None <=> user'[u] = None
         /\ user'[u] \in Account \cup {None}
         /\ user[u] # None => SamePerson(user'[u], user[u])
         /\ user'[u] # user[u] => u \in Dirty(r)
         /\ u \in Dirty(r) => user[u] # None /\ loaded[r][u] # None
         /\ u \in Dirty(r) /\ u \notin stale' => user[u] = loaded[r][u] /\ user'[u] = mine[r][u]
<1> USE DEF IInv
<1>1. /\ CopyOK(r, u)
      /\ user[u] \in Account \cup {None}
      /\ loaded[r][u] \in Account \cup {None}
      /\ mine[r][u] \in Account \cup {None}
  BY DEF CopiesOK, TypeInv, TenancyTypeOK, AccountsTypeOK
<1>2. CASE u \in Dirty(r)
  <2>1. /\ user[u] \in Account /\ loaded[r][u] \in Account /\ mine[r][u] \in Account
        /\ user[u] # None /\ loaded[r][u] # None
        /\ SamePerson(loaded[r][u], user[u]) /\ SamePerson(mine[r][u], user[u])
    BY <1>1, <1>2 DEF Dirty, CopyOK
  <2>2. user'[u] = Written(user[u], loaded[r][u], mine[r][u])
    BY <1>2 DEF CommitUsers
  <2>3. u \notin stale' => user[u] = loaded[r][u]
    BY <1>2 DEF CommitUsers
  <2> QED  BY <1>2, <2>1, <2>2, <2>3, WrittenAccount, NoneIsNoRow
<1>3. CASE u \notin Dirty(r)
  <2>1. user'[u] = user[u]
    BY <1>3 DEF CommitUsers
  <2> QED  BY <1>1, <1>3, <2>1 DEF SamePerson
<1> QED  BY <1>2, <1>3

LEMMA CommitUsersKeeps ==
  ASSUME IInv, NEW r \in Requests, CommitUsers(r), UNCHANGED tenantVars
  PROVE  IInv'
<1> USE DEF IInv, End, CloseSession, tenantVars
<1>1. /\ pc[r] = "ending" /\ stale \subseteq stale' /\ stale' \subseteq Users
      /\ DOMAIN user' = Users
      /\ End(r, "done") /\ UNCHANGED <<tokens, access, audit>>
  BY DEF CommitUsers, TypeInv, TenancyTypeOK, AccountsTypeOK, Dirty
<1>2. \A q \in Requests, u \in Users :
        /\ loaded'[q][u] = IF q = r THEN None ELSE loaded[q][u]
        /\ mine'[q][u] = IF q = r THEN None ELSE mine[q][u]
  BY <1>1 DEF TypeInv, TenancyTypeOK, AccountsTypeOK, NoneOf
<1>3. TypeInv'
  <2>1. user' \in [Users -> Account \cup {None}]
    <3>1. user' = [u \in Users |-> user'[u]]
      BY DEF CommitUsers
    <3> QED  BY <3>1, CommittedRows
  <2> QED  BY <1>1, <2>1 DEF TypeInv, TenancyTypeOK, AccountsTypeOK, NoneOf, Ended, Activating
<1>4. TaskOK'
  BY <1>1 DEF TaskOK, KnowsTask, TypeInv, TenancyTypeOK, AccountsTypeOK, Guarded, Registering, Activating
<1>5. RowsOK'
  <2>1. \A u \in Users : user[u] = None <=> user'[u] = None
    BY CommittedRows
  <2>2. \A k \in tokens : k.user \in Users
    BY DEF TypeInv, TenancyTypeOK, AccountsTypeOK, Token
  <2>3. \A q \in Requests : q \in Users /\ (pc'[q] = pc[q] \/ (pc[q] = "ending" /\ pc'[q] = "done"))
    BY <1>1 DEF TypeInv, Users
  <2> QED  BY <1>1, <2>1, <2>2, <2>3 DEF RowsOK
<1>7. CopiesOK'
  <2> SUFFICES ASSUME NEW q \in Requests, NEW u \in Users
               PROVE  CopyOK(q, u)'
    BY DEF CopiesOK
  <2>1. CASE q = r
    BY <1>2, <2>1 DEF CopyOK
  <2>2. CASE q # r
    <3>1. CopyOK(q, u) /\ loaded'[q] = loaded[q] /\ mine'[q] = mine[q]
          /\ pc'[q] = pc[q] /\ task'[q] = task[q]
      BY <1>1, <2>2 DEF CopiesOK, TypeInv, TenancyTypeOK, AccountsTypeOK
    <3>2. /\ user[u] # None => user'[u] # None /\ SamePerson(user'[u], user[u])
          /\ mine[q][u] # loaded[q][u] => user[u] # None
      BY <3>1, CommittedRows DEF CopyOK
    <3> QED  BY <3>1, <3>2 DEF CopyOK, SamePerson
  <2> QED  BY <2>1, <2>2
<1>8. VersionsOK'
  <2> SUFFICES ASSUME NEW u \in Users \ stale'
               PROVE  /\ \A k \in tokens : k.user = u =>
                           /\ k.tv <= user'[u].token_version
                           /\ k.tv = user'[u].token_version =>
                                k.password = user'[u].password /\ user'[u].is_active
                      /\ \A q \in Requests : loaded'[q][u] # None =>
                           /\ loaded'[q][u].token_version <= user'[u].token_version
                           /\ loaded'[q][u].token_version = user'[u].token_version =>
                                /\ loaded'[q][u].password = user'[u].password
                                /\ loaded'[q][u].is_active => user'[u].is_active
    BY <1>1 DEF VersionsOK
  <2>1. CASE u \in Dirty(r)
    <3>1. /\ user'[u] = mine[r][u] /\ user[u] = loaded[r][u] /\ loaded[r][u] # None
          /\ user[u] \in Account /\ user'[u] \in Account
      BY <2>1, CommittedRows DEF TypeInv, TenancyTypeOK, AccountsTypeOK
    <3>2. /\ user[u].token_version \in Nat /\ user'[u].token_version \in Nat
          /\ user[u].token_version <= user'[u].token_version
          /\ user[u].token_version = user'[u].token_version =>
               /\ user'[u].password = user[u].password
               /\ user[u].is_active => user'[u].is_active
      BY <3>1 DEF CopiesOK, CopyOK, Account
    <3>3. \A k \in tokens : k.tv \in Nat
      BY DEF TypeInv, TenancyTypeOK, AccountsTypeOK, Token
    <3>4. ASSUME NEW k \in tokens, k.user = u
          PROVE  /\ k.tv <= user'[u].token_version
                 /\ k.tv = user'[u].token_version =>
                      k.password = user'[u].password /\ user'[u].is_active
      <4>1. /\ k.tv <= user[u].token_version
            /\ k.tv = user[u].token_version =>
                 k.password = user[u].password /\ user[u].is_active
        BY <1>1, <3>4 DEF VersionsOK
      <4>2. k.tv = user'[u].token_version => k.tv = user[u].token_version
        BY <3>2, <3>3, <4>1
      <4> QED  BY <3>2, <3>3, <4>1, <4>2
    <3>5. ASSUME NEW q \in Requests, loaded'[q][u] # None
          PROVE  /\ loaded'[q][u].token_version <= user'[u].token_version
                 /\ loaded'[q][u].token_version = user'[u].token_version =>
                      /\ loaded'[q][u].password = user'[u].password
                      /\ loaded'[q][u].is_active => user'[u].is_active
      <4>1. loaded'[q][u] = loaded[q][u] /\ loaded[q][u] # None
        BY <1>2, <3>5
      <4>2. loaded[q][u].token_version \in Nat
        BY <4>1 DEF TypeInv, TenancyTypeOK, AccountsTypeOK, Account
      <4>3. /\ loaded[q][u].token_version <= user[u].token_version
            /\ loaded[q][u].token_version = user[u].token_version =>
                 /\ loaded[q][u].password = user[u].password
                 /\ loaded[q][u].is_active => user[u].is_active
        BY <1>1, <4>1 DEF VersionsOK
      <4>4. loaded[q][u].token_version = user'[u].token_version =>
              loaded[q][u].token_version = user[u].token_version
        BY <3>2, <4>2, <4>3
      <4> QED  BY <3>2, <4>1, <4>2, <4>3, <4>4
    <3> QED  BY <3>4, <3>5
  <2>2. CASE u \notin Dirty(r)
    <3>1. user'[u] = user[u]
      BY <2>2, CommittedRows
    <3> QED  BY <1>1, <1>2, <3>1 DEF VersionsOK
  <2> QED  BY <2>1, <2>2
<1>9. EmailsUnique' /\ TenantsWhole'
  <2>1. Existing' = Existing /\ Existing \subseteq Users
    BY CommittedRows DEF Existing
  <2>2. \A u \in Existing : SamePerson(user'[u], user[u])
    BY CommittedRows DEF Existing
  <2>3. EmailsUnique'
    BY <2>1, <2>2 DEF EmailsUnique, SamePerson
  <2>4. ASSUME NEW t \in Tenants, tenant[t] # None
        PROVE  \E u \in Existing : user'[u].tenant = t /\ user'[u].role = "OWNER"
                                  /\ user'[u].email = tenant[t].email
    BY <2>2, <2>4 DEF TenantsWhole, SamePerson
  <2>5. TenantsWhole'
    BY <2>1, <2>4 DEF TenantsWhole
  <2> QED  BY <2>3, <2>5
<1>10. SubscriptionMirrored'
  BY DEF SubscriptionMirrored, StatusMirrored
<1> QED  BY <1>3, <1>4, <1>5, <1>7, <1>8, <1>9, <1>10

\* A user is added under an address nobody has: no session has a copy of it and
\* no token is its own yet.
LEMMA AddedUser ==
  ASSUME IInv, NEW r \in Requests, pc[r] \in {"insert", "owner"}, NEW row \in Account,
         ~EmailExists(row.email), user' = [user EXCEPT ![r] = row]
  PROVE  /\ r \in Users /\ user[r] = None /\ user'[r] = row /\ row # None
         /\ user' \in [Users -> Account \cup {None}]
         /\ \A u \in Users \ {r} : user'[u] = user[u]
         /\ \A q \in Requests : loaded[q][r] = None
         /\ \A k \in tokens : k.user \in Users \ {r}
         /\ EmailsUnique'
         /\ Existing' = Existing \cup {r}
<1> USE DEF IInv
<1>1. r \in Users /\ user[r] = None /\ row # None
  BY NoneIsNoRow DEF RowsOK, Users
<1>2. user' \in [Users -> Account \cup {None}] /\ user'[r] = row
      /\ \A u \in Users \ {r} : user'[u] = user[u]
  BY <1>1 DEF TypeInv, TenancyTypeOK, AccountsTypeOK
<1>3. \A q \in Requests : loaded[q][r] = None
  BY <1>1 DEF CopiesOK, CopyOK
<1>4. \A k \in tokens : k.user \in Users \ {r}
  BY <1>1 DEF RowsOK, TypeInv, TenancyTypeOK, AccountsTypeOK, Token
<1>5. Existing' = Existing \cup {r} /\ Existing \subseteq Users \ {r}
  BY <1>1, <1>2 DEF Existing
<1>6. \A u \in Existing : user'[u] = user[u] /\ user[u].email # row.email
  BY <1>2, <1>5 DEF EmailExists
<1>7. EmailsUnique'
  BY <1>2, <1>5, <1>6 DEF EmailsUnique
<1> QED  BY <1>1, <1>2, <1>3, <1>4, <1>5, <1>7

\* The versions of the users there were are untouched, and those of the new one
\* nobody knows.
LEMMA AddedVersions ==
  ASSUME IInv, NEW r \in Requests, UNCHANGED <<tokens, stale>>,
         \A u \in Users \ {r} : user'[u] = user[u],
         \A q \in Requests : loaded[q][r] = None,
         \A k \in tokens : k.user \in Users \ {r},
         \A q \in Requests, u \in Users : loaded'[q][u] \in {loaded[q][u], None}
  PROVE  VersionsOK'
<1> SUFFICES ASSUME NEW u \in Users \ stale
             PROVE  /\ \A k \in tokens : k.user = u =>
                         /\ k.tv <= user'[u].token_version
                         /\ k.tv = user'[u].token_version =>
                              k.password = user'[u].password /\ user'[u].is_active
                    /\ \A q \in Requests : loaded'[q][u] # None =>
                         /\ loaded'[q][u].token_version <= user'[u].token_version
                         /\ loaded'[q][u].token_version = user'[u].token_version =>
                              /\ loaded'[q][u].password = user'[u].password
                              /\ loaded'[q][u].is_active => user'[u].is_active
  BY DEF VersionsOK
<1>1. CASE u = r
  BY <1>1
<1>2. CASE u # r
  <2>1. user'[u] = user[u] /\ \A q \in Requests : loaded'[q][u] # None => loaded'[q][u] = loaded[q][u]
    BY <1>2
  <2> QED  BY <2>1 DEF IInv, VersionsOK
<1> QED  BY <1>1, <1>2

LEMMA CommitCreateKeeps ==
  ASSUME IInv, NEW r \in Requests, CommitCreate(r), UNCHANGED tenantVars
  PROVE  IInv'
<1> USE DEF IInv, End, CloseSession, tenantVars
<1>1. CASE EmailExists(task[r].call.email)
  BY <1>1, RollBackKeeps DEF CommitCreate, Guarded
<1>2. CASE ~EmailExists(task[r].call.email)
  <2> DEFINE row == Row(loaded[r][task[r].actor].tenant, task[r].call.email, task[r].call.role, r)
  <2>1. /\ pc[r] = "insert" /\ user' = [user EXCEPT ![r] = row]
        /\ End(r, "done") /\ UNCHANGED <<tokens, access, audit, stale>>
    BY <1>2 DEF CommitCreate, AddUser
  <2>2. /\ task[r].op = "create" /\ task[r].call \in Calls /\ task[r].op = task[r].call.op
        /\ task[r].actor \in Users /\ loaded[r][task[r].actor] # None
    BY <2>1 DEF TaskOK, KnowsTask, Guarded
  <2>3. task[r].call.email \in Emails /\ task[r].call.role \in Roles
    BY <2>2, AccountsAssumption DEF Call
  <2>4. loaded[r][task[r].actor].tenant \in Tenants
    BY <2>2 DEF TypeInv, TenancyTypeOK, AccountsTypeOK, Account
  <2>5. row \in Account /\ row.email = task[r].call.email
    BY <2>3, <2>4 DEF Row, Account, Passwords
  <2> HIDE DEF row
  <2>6. /\ r \in Users /\ user[r] = None /\ user'[r] = row /\ row # None
        /\ user' \in [Users -> Account \cup {None}]
        /\ \A u \in Users \ {r} : user'[u] = user[u]
        /\ \A q \in Requests : loaded[q][r] = None
        /\ \A k \in tokens : k.user \in Users \ {r}
        /\ EmailsUnique'
        /\ Existing' = Existing \cup {r}
    BY <1>2, <2>1, <2>5, AddedUser
  <2>7. \A q \in Requests, u \in Users :
          /\ loaded'[q][u] = IF q = r THEN None ELSE loaded[q][u]
          /\ mine'[q][u] = IF q = r THEN None ELSE mine[q][u]
    BY <2>1 DEF TypeInv, TenancyTypeOK, AccountsTypeOK, NoneOf
  <2>8. TypeInv'
    BY <2>1, <2>6 DEF TypeInv, TenancyTypeOK, AccountsTypeOK, NoneOf, Ended, Activating
  <2>9. TaskOK'
    BY <2>1 DEF TaskOK, KnowsTask, TypeInv, TenancyTypeOK, AccountsTypeOK, Guarded, Registering, Activating
  <2>10. RowsOK'
    BY <2>1, <2>6 DEF RowsOK, TypeInv, Users
  <2>11. CopiesOK'
    <3> SUFFICES ASSUME NEW q \in Requests, NEW u \in Users
                 PROVE  CopyOK(q, u)'
      BY DEF CopiesOK
    <3>1. CASE q = r
      BY <2>7, <3>1 DEF CopyOK
    <3>2. CASE q # r /\ u = r
      BY <2>6, <2>7, <3>2 DEF CopiesOK, CopyOK
    <3>3. CASE q # r /\ u # r
      <4>1. CopyOK(q, u) /\ loaded'[q] = loaded[q] /\ mine'[q] = mine[q]
            /\ pc'[q] = pc[q] /\ task'[q] = task[q] /\ user'[u] = user[u]
        BY <2>1, <2>6, <3>3 DEF CopiesOK, TypeInv, TenancyTypeOK, AccountsTypeOK
      <4> QED  BY <4>1 DEF CopyOK
    <3> QED  BY <3>1, <3>2, <3>3
  <2>12. VersionsOK'
    BY <2>1, <2>6, <2>7, AddedVersions
  <2>13. TenantsWhole'
    <3>1. \A u \in Existing : u \in Existing' /\ user'[u] = user[u]
      BY <2>6 DEF Existing
    <3> QED  BY <3>1 DEF TenantsWhole
  <2>14. SubscriptionMirrored'
    BY DEF SubscriptionMirrored, StatusMirrored
  <2> QED  BY <2>6, <2>8, <2>9, <2>10, <2>11, <2>12, <2>13, <2>14
<1> QED  BY <1>1, <1>2

\* A registration adds its tenant, its subscription and its owner at once.
LEMMA CommitRegisterKeeps ==
  ASSUME IInv, NEW r \in Requests, CommitRegister(r)
  PROVE  IInv'
<1> USE DEF IInv
<1>1. CASE EmailExists(task[r].email)
  BY <1>1, RollBackKeeps DEF CommitRegister
<1>2. CASE ~EmailExists(task[r].email)
  <2> DEFINE row == Row(r, task[r].email, "OWNER", r)
             shop == [email |-> task[r].email, subscription_status |-> STATUS_TRIAL]
  <2>1. /\ pc[r] = "owner" /\ user' = [user EXCEPT ![r] = row]
        /\ tenant' = [tenant EXCEPT ![r] = shop]
        /\ subscription' = [subscription EXCEPT ![r] = Trial]
        /\ pc' = [pc EXCEPT ![r] = "tokens"]
        /\ UNCHANGED <<tokens, access, audit, task, stale, loaded, mine, held, overlapped>>
    BY <1>2 DEF CommitRegister, sessionVars
  <2>2. task[r].email \in Emails /\ r \in Tenants
    BY <2>1 DEF TaskOK, KnowsTask, Registering, Tenants
  <2>3. /\ row \in Account /\ row.email = task[r].email
        /\ row.tenant = r /\ row.role = "OWNER"
    BY <2>2 DEF Row, Account, Passwords, Roles
  <2>4. /\ shop \in TenantRow /\ Trial \in SubscriptionRow
        /\ shop # None /\ Trial # None
        /\ shop.email = task[r].email /\ shop.subscription_status = Trial.status
    BY <2>2, NoneIsNoRow DEF TenantRow, SubscriptionRow, Trial, Statuses, NoPlan
  <2> HIDE DEF row, shop
  <2>5. /\ r \in Users /\ user[r] = None /\ user'[r] = row /\ row # None
        /\ user' \in [Users -> Account \cup {None}]
        /\ \A u \in Users \ {r} : user'[u] = user[u]
        /\ \A q \in Requests : loaded[q][r] = None
        /\ \A k \in tokens : k.user \in Users \ {r}
        /\ EmailsUnique'
        /\ Existing' = Existing \cup {r}
    <3>1. ~EmailExists(row.email)
      BY <1>2, <2>3
    <3> QED  BY <2>1, <2>3, <3>1, AddedUser
  <2>6. /\ tenant[r] = None /\ tenant'[r] = shop /\ subscription'[r] = Trial
        /\ \A t \in Tenants \ {r} : tenant'[t] = tenant[t] /\ subscription'[t] = subscription[t]
    BY <2>1, <2>2 DEF RowsOK, TypeInv, TenancyTypeOK
  <2>7. TypeInv'
    BY <2>1, <2>2, <2>4, <2>5 DEF TypeInv, TenancyTypeOK, AccountsTypeOK, Registering, Activating
  <2>8. TaskOK'
    <3>1. ASSUME NEW q \in Requests, pc[q] \in Activating
          PROVE  tenant'[task[q].activation.tenant] = tenant[task[q].activation.tenant]
      BY <2>6, <3>1, TenancyAssumption DEF Activation, TaskOK, KnowsTask
    <3>2. pc'[r] = "tokens" /\ \A q \in Requests \ {r} : pc'[q] = pc[q]
      BY <2>1 DEF TypeInv
    <3> QED  BY <2>1, <2>2, <3>1, <3>2 DEF TaskOK, KnowsTask, Guarded, Registering, Activating
  <2>9. RowsOK'
    BY <2>1, <2>5, <2>6 DEF RowsOK, TypeInv, Users, Tenants
  <2>11. CopiesOK'
    <3> SUFFICES ASSUME NEW q \in Requests, NEW u \in Users
                 PROVE  CopyOK(q, u)'
      BY DEF CopiesOK
    <3>1. CopyOK(q, u)
      BY DEF CopiesOK
    <3>2. CASE u = r
      BY <2>1, <2>5, <3>1, <3>2 DEF CopyOK
    <3>3. CASE u # r
      <4>1. user'[u] = user[u] /\ (pc[q] = "ending" => pc'[q] = "ending")
        BY <2>1, <2>5, <3>3 DEF TypeInv
      <4> QED  BY <2>1, <3>1, <4>1 DEF CopyOK
    <3> QED  BY <3>2, <3>3
  <2>12. VersionsOK'
    BY <2>1, <2>5, AddedVersions
  <2>13. TenantsWhole'
    <3>1. \A u \in Existing : u \in Existing' /\ user'[u] = user[u]
      BY <2>5 DEF Existing
    <3>2. ASSUME NEW t \in Tenants, tenant'[t] # None, t # r
          PROVE  /\ subscription'[t] # None
                 /\ \E u \in Existing : user[u].tenant = t /\ user[u].role = "OWNER"
                                        /\ user[u].email = tenant'[t].email
      BY <2>6, <3>2 DEF TenantsWhole
    <3>3. /\ subscription'[r] # None
          /\ r \in Existing' /\ user'[r].tenant = r /\ user'[r].role = "OWNER"
          /\ user'[r].email = tenant'[r].email
      BY <2>3, <2>4, <2>5, <2>6
    <3> QED  BY <3>1, <3>2, <3>3 DEF TenantsWhole
  <2>14. SubscriptionMirrored'
    BY <2>1, <2>4, <2>6 DEF SubscriptionMirrored, StatusMirrored
  <2> QED  BY <2>5, <2>7, <2>8, <2>9, <2>11, <2>12, <2>13, <2>14
<1> QED  BY <1>1, <1>2

-----------------------------------------------------------------------------
(* Activations *)

LEMMA OpenActivationKeeps ==
  ASSUME IInv, NEW r \in Requests, NEW activation \in Activations, OpenActivation(r, activation)
  PROVE  IInv'
<1> DEFINE t == activation.tenant
<1> USE DEF IInv
<1>1. /\ activation.admin_key
      /\ tenant[t] # None /\ t \in Tenants /\ tenant[t] \in TenantRow
      /\ Start(r, [op |-> "activate", activation |-> activation], "subscription")
      /\ held' = [held EXCEPT ![r].tenant = tenant[t]]
      /\ UNCHANGED <<user, tokens, access, audit, stale, loaded, mine, tenant, subscription, overlapped>>
  BY TenancyAssumption DEF Activation, OpenActivation, sessionVars, TypeInv, TenancyTypeOK
<1>2. held' \in [Requests -> HeldRows] /\ held'[r].tenant = tenant[t]
      /\ \A q \in Requests \ {r} : held'[q] = held[q]
  BY <1>1 DEF TypeInv, HeldRows
<1>3. /\ pc[r] = "idle" /\ pc'[r] = "subscription" /\ task'[r].activation = activation
      /\ \A q \in Requests \ {r} : pc'[q] = pc[q] /\ task'[q] = task[q]
  BY <1>1 DEF Start, TypeInv
<1>4. TypeInv'
  BY <1>1, <1>2, <1>3 DEF Start, TypeInv, TenancyTypeOK, AccountsTypeOK, Activating
<1>5. TaskOK'
  BY <1>1, <1>2, <1>3 DEF TaskOK, KnowsTask, Guarded, Registering, Activating
<1>6. RowsOK' /\ CopiesOK'
  BY <1>1, <1>3 DEF RowsOK, CopiesOK, CopyOK
<1>7. VersionsOK' /\ EmailsUnique' /\ TenantsWhole' /\ SubscriptionMirrored'
  BY <1>1 DEF VersionsOK, EmailsUnique, TenantsWhole, SubscriptionMirrored, Existing, StatusMirrored
<1> QED  BY <1>4, <1>5, <1>6, <1>7

LEMMA LoadSubscriptionKeeps ==
  ASSUME IInv, NEW r \in Requests, LoadSubscription(r)
  PROVE  IInv'
<1> DEFINE t == task[r].activation.tenant
<1> USE DEF IInv
<1>0. CASE ~PlanFound(task[r].activation.plan_id)
  <2>1. r \in Busy /\ pc[r] # "tokens"
    BY DEF LoadSubscription, Busy, Ended
  <2> QED  BY <1>0, <2>1, ClosingKeeps DEF LoadSubscription, RollBack
<1>10. SUFFICES ASSUME PlanFound(task[r].activation.plan_id)
                PROVE  IInv'
  BY <1>0
<1>1. /\ pc[r] = "subscription"
      /\ held' = [held EXCEPT ![r].subscription = subscription[t]]
      /\ pc' = [pc EXCEPT ![r] = "activating"]
      /\ UNCHANGED <<user, tokens, access, audit, task, stale, loaded, mine, tenant, subscription, overlapped>>
  BY <1>10 DEF LoadSubscription, sessionVars
<1>2. t \in Tenants /\ tenant[t] # None
  BY <1>1, TenancyAssumption DEF TaskOK, KnowsTask, Activating, Activation
<1>3. subscription[t] \in SubscriptionRow /\ subscription[t] # None
  BY <1>2 DEF TypeInv, TenancyTypeOK, TenantsWhole
<1>4. /\ held' \in [Requests -> HeldRows] /\ held'[r].tenant = held[r].tenant
      /\ held'[r].subscription # None
      /\ \A q \in Requests \ {r} : held'[q] = held[q]
  BY <1>1, <1>3 DEF TypeInv, HeldRows
<1>5. pc'[r] = "activating" /\ \A q \in Requests \ {r} : pc'[q] = pc[q]
  BY <1>1 DEF TypeInv
<1>6. TypeInv'
  BY <1>1, <1>4, <1>5 DEF TypeInv, TenancyTypeOK, AccountsTypeOK, Activating
<1>7. TaskOK'
  BY <1>1, <1>4, <1>5, <1>10 DEF TaskOK, KnowsTask, Guarded, Registering, Activating, PlanFound
<1>8. RowsOK' /\ CopiesOK'
  BY <1>1, <1>5 DEF RowsOK, CopiesOK, CopyOK
<1>9. VersionsOK' /\ EmailsUnique' /\ TenantsWhole' /\ SubscriptionMirrored'
  BY <1>1 DEF VersionsOK, EmailsUnique, TenantsWhole, SubscriptionMirrored, Existing, StatusMirrored
<1> QED  BY <1>6, <1>7, <1>8, <1>9

\* The rows of a tenant that two activations changed at a time may hold the
\* columns of both; otherwise they are those of the activation.
LEMMA CommitActivationKeeps ==
  ASSUME IInv, NEW r \in Requests, CommitActivation(r)
  PROVE  IInv'
<1> DEFINE a == task[r].activation
           t == a.tenant
           to == [status |-> a.status, plan_id |-> a.plan_id]
           old == held[r]
           shop == Written(tenant[t], old.tenant, Mirrored(old.tenant, to.status))
           sub == IF old.subscription = None THEN to
                  ELSE Written(subscription[t], old.subscription, to)
<1> USE DEF IInv
<1>1. /\ pc[r] = "activating"
      /\ tenant' = [tenant EXCEPT ![t] = shop] /\ subscription' = [subscription EXCEPT ![t] = sub]
      /\ overlapped' = IF old = [tenant |-> tenant[t], subscription |-> subscription[t]]
                       THEN overlapped ELSE overlapped \cup {t}
      /\ ForgetObjects(r) /\ End(r, "done")
      /\ UNCHANGED <<user, tokens, access, audit, stale>>
  BY DEF CommitActivation
<1>2. /\ a \in Activations /\ a.admin_key /\ PlanFound(a.plan_id) /\ t \in Tenants /\ to \in SubscriptionRow /\ to.status \in Statuses
      /\ tenant[t] \in TenantRow /\ tenant[t] # None
      /\ old.tenant \in TenantRow /\ old.tenant.email = tenant[t].email
      /\ old.subscription \in SubscriptionRow
  BY <1>1, TenancyAssumption DEF Activation, TaskOK, KnowsTask, Activating, TypeInv, TenancyTypeOK,
                                 HeldRows, SubscriptionRow
<1>3. subscription[t] \in SubscriptionRow
  BY <1>2 DEF TypeInv, TenancyTypeOK, TenantsWhole
<1>4. /\ Mirrored(old.tenant, to.status) \in TenantRow
      /\ Mirrored(old.tenant, to.status).email = old.tenant.email
      /\ Mirrored(old.tenant, to.status).subscription_status = to.status
  BY <1>2 DEF Mirrored, TenantRow
<1>5. /\ shop \in TenantRow /\ shop # None /\ shop.email = tenant[t].email
      /\ tenant[t] = old.tenant => shop.subscription_status = to.status
  BY <1>2, <1>4, WrittenTenant, NoneIsNoRow
<1>6. /\ sub \in SubscriptionRow /\ sub # None
      /\ subscription[t] = old.subscription => sub = to
  BY <1>2, <1>3, WrittenSubscription, NoneIsNoRow
<1> HIDE DEF shop, sub
<1>7. /\ tenant'[t] = shop /\ subscription'[t] = sub
      /\ \A s \in Tenants \ {t} : tenant'[s] = tenant[s] /\ subscription'[s] = subscription[s]
  BY <1>1, <1>2 DEF TypeInv, TenancyTypeOK
<1>8. /\ held' \in [Requests -> HeldRows] /\ held'[r] = Nothing
      /\ \A q \in Requests \ {r} : held'[q] = held[q]
  BY <1>1 DEF ForgetObjects, TypeInv, HeldRows, Nothing
<1>9. /\ pc'[r] = "done" /\ DOMAIN task' = Requests
      /\ loaded'[r] = NoneOf(Users) /\ mine'[r] = NoneOf(Users)
      /\ \A q \in Requests \ {r} : /\ pc'[q] = pc[q] /\ task'[q] = task[q]
                                   /\ loaded'[q] = loaded[q] /\ mine'[q] = mine[q]
  BY <1>1 DEF End, CloseSession, TypeInv, TenancyTypeOK, AccountsTypeOK
<1>10. TypeInv'
  <2>1. AccountsTypeOK'
    BY <1>1 DEF End, CloseSession, TypeInv, TenancyTypeOK, AccountsTypeOK, NoneOf
  <2>2. tenant' \in [Tenants -> TenantRow \cup {None}] /\ subscription' \in [Tenants -> SubscriptionRow \cup {None}]
    BY <1>1, <1>2, <1>5, <1>6 DEF TypeInv, TenancyTypeOK
  <2>3. overlapped' \subseteq Tenants
    BY <1>1, <1>2 DEF TypeInv, TenancyTypeOK
  <2>4. pc' \in [Requests -> Ended \cup Guarded \cup Registering \cup Activating \cup {"answer"}]
    BY <1>1 DEF End, TypeInv, Ended
  <2> QED  BY <1>8, <1>9, <2>1, <2>2, <2>3, <2>4 DEF TypeInv, TenancyTypeOK
<1>11. TaskOK'
  <2>1. ASSUME NEW q \in Requests, pc[q] \in Activating
        PROVE  LET s == task[q].activation.tenant
               IN s \in Tenants /\ (tenant[s] # None => tenant'[s] # None /\ tenant'[s].email = tenant[s].email)
    BY <1>2, <1>5, <1>7, <2>1, TenancyAssumption DEF Activation, TaskOK, KnowsTask
  <2>2. ASSUME NEW q \in Requests \ {r}
        PROVE  /\ held'[q] = held[q] /\ pc'[q] = pc[q] /\ task'[q] = task[q] /\ loaded'[q] = loaded[q]
               /\ pc[q] \in Activating => task[q].activation.tenant \in Tenants
    BY <1>8, <1>9, <2>1, <2>2
  <2>3. KnowsTask(r)'
    BY <1>9 DEF KnowsTask, Guarded, Registering, Activating
  <2>4. ASSUME NEW q \in Requests \ {r}
        PROVE  KnowsTask(q)'
    <3>1. KnowsTask(q)
      BY DEF TaskOK
    <3> QED  BY <2>1, <2>2, <3>1 DEF KnowsTask
  <2> QED  BY <2>3, <2>4 DEF TaskOK
<1>12. RowsOK'
  <2>1. \A s \in Tenants :
          /\ tenant'[s] # None => tenant[s] # None
          /\ subscription'[s] # None => subscription[s] # None
    BY <1>2, <1>3, <1>7, NoneIsNoRow
  <2>2. \A q \in Requests :
          q \in Tenants /\ (pc'[q] = pc[q] \/ (pc[q] = "activating" /\ pc'[q] = "done"))
    BY <1>1, <1>9 DEF Tenants
  <2> QED  BY <1>1, <2>1, <2>2 DEF RowsOK
<1>13. CopiesOK' /\ VersionsOK'
  <2>1. \A q \in Requests, u \in Users :
          \/ loaded'[q][u] = None /\ mine'[q][u] = None
          \/ /\ loaded'[q] = loaded[q] /\ mine'[q] = mine[q] /\ pc'[q] = pc[q] /\ task'[q] = task[q]
    BY <1>9 DEF NoneOf
  <2> QED  BY <1>1, <2>1 DEF CopiesOK, CopyOK, VersionsOK
<1>15. EmailsUnique'
  BY <1>1 DEF EmailsUnique, Existing
<1>16. TenantsWhole'
  <2>1. \A s \in Tenants : tenant'[s] # None =>
          /\ tenant[s] # None /\ tenant'[s].email = tenant[s].email /\ subscription'[s] # None
    BY <1>2, <1>5, <1>6, <1>7 DEF TenantsWhole
  <2> QED  BY <1>1, <2>1 DEF TenantsWhole, Existing
<1>17. SubscriptionMirrored'
  <2> SUFFICES ASSUME NEW s \in Tenants \ overlapped', tenant'[s] # None
               PROVE  /\ tenant'[s].subscription_status = subscription'[s].status
                      /\ \/ subscription'[s] = Trial
                         \/ \E b \in Activations :
                              /\ b.admin_key /\ b.tenant = s /\ PlanFound(b.plan_id)
                              /\ subscription'[s] = [status |-> b.status, plan_id |-> b.plan_id]
    BY DEF SubscriptionMirrored, StatusMirrored, PlanFound
  <2>1. s \notin overlapped
    BY <1>1
  <2>2. CASE s = t
    <3>1. tenant[t] = old.tenant /\ subscription[t] = old.subscription
      BY <1>1, <2>2
    <3> QED  BY <1>2, <1>5, <1>6, <1>7, <2>2, <3>1
  <2>3. CASE s # t
    BY <1>7, <2>1, <2>3 DEF SubscriptionMirrored, StatusMirrored, PlanFound
  <2> QED  BY <2>2, <2>3
<1> QED  BY <1>10, <1>11, <1>12, <1>13, <1>15, <1>16, <1>17

-----------------------------------------------------------------------------
(* The theorems *)

LEMMA StutterKeeps == IInv /\ UNCHANGED vars => IInv'
BY DEF IInv, TypeInv, TenancyTypeOK, AccountsTypeOK, TaskOK, KnowsTask, RowsOK, CopiesOK, CopyOK,
       VersionsOK, EmailsUnique, TenantsWhole, SubscriptionMirrored, StatusMirrored,
       Existing, vars

LEMMA IInvStep == IInv /\ [Next]_vars => IInv'
<1> SUFFICES ASSUME IInv, [Next]_vars PROVE IInv'
  OBVIOUS
<1>1. ASSUME NEW r \in Requests, StartRequest(r)
      PROVE  IInv'
  <2>1. CASE OpenAccount(r) /\ UNCHANGED tenantVars
    BY <2>1, OpenCallKeeps, LoginKeeps, RefreshKeeps DEF OpenAccount
  <2>2. CASE \E email \in Emails : LookUpEmail(r, email)
    BY <2>2, LookUpEmailKeeps
  <2>3. CASE \E activation \in Activations : OpenActivation(r, activation)
    BY <2>3, OpenActivationKeeps
  <2> QED  BY <1>1, <2>1, <2>2, <2>3 DEF StartRequest
<1>2. ASSUME NEW r \in Requests, Progress(r)
      PROVE  IInv'
  <2>1. CASE AccountStep(r) /\ UNCHANGED tenantVars
    BY <2>1, DenyKeeps, DenyUnloggedKeeps, AnswerLoginKeeps, HandleUserKeeps, HandleCreateKeeps,
       CommitUsersKeeps, CommitCreateKeeps DEF AccountStep
  <2>2. CASE InsertTenant(r)
    BY <2>2, InsertTenantKeeps
  <2>3. CASE CommitRegister(r)
    BY <2>3, CommitRegisterKeeps
  <2>4. CASE AnswerRegister(r)
    BY <2>4, AnswerRegisterKeeps
  <2>5. CASE LoadSubscription(r)
    BY <2>5, LoadSubscriptionKeeps
  <2>6. CASE CommitActivation(r)
    BY <2>6, CommitActivationKeeps
  <2> QED  BY <1>2, <2>1, <2>2, <2>3, <2>4, <2>5, <2>6 DEF Progress
<1>3. ASSUME NEW r \in Requests, Fail(r)
      PROVE  IInv'
  BY <1>3, FailKeeps
<1>4. CASE UNCHANGED vars
  BY <1>4, StutterKeeps
<1>5. CASE Quiet
  BY <1>4, <1>5 DEF Quiet
<1> QED  BY <1>1, <1>2, <1>3, <1>4, <1>5 DEF Next

LEMMA IInvHolds == Spec => []IInv
<1> QED  BY IInvInit, IInvStep, PTL DEF Spec

\* Every variable keeps its type, and an activation that has ended holds no row.
THEOREM TenancyTypeCorrect == Spec => []TenancyTypeOK
<1>1. IInv => TenancyTypeOK
  BY DEF IInv, TypeInv
<1> QED  BY <1>1, IInvHolds, PTL

\* However registrations and new users race, an address has one account.
THEOREM EmailsAreUnique == Spec => []EmailsUnique
<1>1. IInv => EmailsUnique
  BY DEF IInv
<1> QED  BY <1>1, IInvHolds, PTL

\* A tenant is there with its first owner and its subscription, or not at all.
THEOREM TenantsAreWhole == Spec => []TenantsWhole
<1>1. IInv => TenantsWhole
  BY DEF IInv
<1> QED  BY <1>1, IInvHolds, PTL

\* The tenant's status is its subscription's, overlapping activations aside.
THEOREM SubscriptionsAreMirrored == Spec => []SubscriptionMirrored
<1>1. IInv => SubscriptionMirrored
  BY DEF IInv
<1> QED  BY <1>1, IInvHolds, PTL

\* A good refresh token was obtained with the password the user has now.
THEOREM SessionsFollowThePassword == Spec => []SessionsOfPassword
<1>1. IInv => SessionsOfPassword
  <2> SUFFICES ASSUME IInv, NEW k \in tokens, Valid(k), k.user \notin stale
               PROVE  k.password = user[k.user].password
    BY DEF SessionsOfPassword
  <2>1. k.user \in Users
    BY DEF IInv, TypeInv, TenancyTypeOK, AccountsTypeOK, Token
  <2> QED  BY <2>1 DEF IInv, VersionsOK, Valid
<1> QED  BY <1>1, IInvHolds, PTL

\* What a step does to a user there is: versions never go back, unless a session
\* wrote an outdated copy, and only a commit that may change it does.
LEMMA UserSteps ==
  ASSUME IInv, [Next]_vars, NEW u \in Existing
  PROVE  /\ user'[u] # user[u] => \E r \in Requests : pc'[r] = "done" /\ MayChange(r, u)
         /\ user'[u] # None
         /\ stale \subseteq stale'
         /\ u \notin stale' => user[u].token_version <= user'[u].token_version
<1> USE DEF IInv
<1>1. /\ u \in Users /\ user[u] \in Account /\ user[u] # None
      /\ user[u].token_version \in Nat
  BY DEF Existing, TypeInv, TenancyTypeOK, AccountsTypeOK, Account
<1>2. ASSUME NEW r \in Requests, CommitUsers(r)
      PROVE  /\ user'[u] # user[u] => pc'[r] = "done" /\ MayChange(r, u)
             /\ user'[u] # None
             /\ stale \subseteq stale'
             /\ u \notin stale' => user[u].token_version <= user'[u].token_version
  <2>1. /\ user'[u] # None
        /\ user'[u] # user[u] => u \in Dirty(r)
        /\ u \in Dirty(r) /\ u \notin stale' => user[u] = loaded[r][u] /\ user'[u] = mine[r][u]
        /\ u \in Dirty(r) => loaded[r][u] # None
    BY <1>1, <1>2, CommittedRows
  <2>2. /\ CopyOK(r, u) /\ pc[r] = "ending" /\ pc'[r] = "done"
        /\ loaded[r][task[r].actor].is_active
    BY <1>1, <1>2 DEF CopiesOK, CommitUsers, End, TypeInv, TaskOK, KnowsTask, Guarded
  <2>3. u \in Dirty(r) =>
          MayChange(r, u) /\ loaded[r][u].token_version <= mine[r][u].token_version
    BY <2>1, <2>2 DEF CopyOK, Dirty, MayChange
  <2>4. stale \subseteq stale'
    BY <1>2 DEF CommitUsers
  <2> QED  BY <1>1, <2>1, <2>2, <2>3, <2>4
<1>3. ASSUME NEW r \in Requests, CommitCreate(r) \/ CommitRegister(r)
      PROVE  user'[u] = user[u] /\ stale' = stale
  <2>1. pc[r] \in {"insert", "owner"}
    BY <1>3 DEF CommitCreate, CommitRegister
  <2>2. r # u
    BY <1>1, <2>1 DEF RowsOK
  <2>3. DOMAIN user = Users /\ stale' = stale
    BY <1>3 DEF CommitCreate, CommitRegister, RollBack, TypeInv, TenancyTypeOK, AccountsTypeOK
  <2>4. CASE CommitCreate(r)
    BY <1>1, <2>2, <2>3, <2>4 DEF CommitCreate, AddUser, RollBack
  <2>5. CASE CommitRegister(r)
    BY <1>1, <2>2, <2>3, <2>5 DEF CommitRegister, RollBack
  <2> QED  BY <1>3, <2>3, <2>4, <2>5
<1>4. CASE UNCHANGED user /\ stale \subseteq stale'
  BY <1>1, <1>4
<1>5. ASSUME NEW r \in Requests, StartRequest(r)
      PROVE  UNCHANGED user /\ stale \subseteq stale'
  BY <1>5 DEF StartRequest, OpenAccount, OpenCall, Login, Refresh, LookUpEmail, OpenActivation
<1>6. ASSUME NEW r \in Requests, Progress(r)
      PROVE  \/ CommitUsers(r) \/ CommitCreate(r) \/ CommitRegister(r)
             \/ UNCHANGED user /\ stale \subseteq stale'
  BY <1>6 DEF Progress, AccountStep, Deny, DenyUnlogged, AnswerLogin, HandleUser, HandleCreate,
              InsertTenant, AnswerRegister, LoadSubscription, CommitActivation, RollBack
<1>7. ASSUME NEW r \in Requests, Fail(r)
      PROVE  UNCHANGED user /\ stale \subseteq stale'
  BY <1>7 DEF Fail
<1>8. CASE UNCHANGED vars
  BY <1>4, <1>8 DEF vars
<1>9. ASSUME NEW r \in Requests, Progress(r)
      PROVE  /\ user'[u] # user[u] => \E q \in Requests : pc'[q] = "done" /\ MayChange(q, u)
             /\ user'[u] # None
             /\ stale \subseteq stale'
             /\ u \notin stale' => user[u].token_version <= user'[u].token_version
  BY <1>1, <1>2, <1>3, <1>4, <1>6, <1>9
<1> QED  BY <1>4, <1>5, <1>7, <1>8, <1>9 DEF Next, Quiet

\* A row of users changes only in the commit of a request whose caller the
\* guards let in for it, from a copy that may be outdated by then.
THEOREM UsersChangedInTheirTenant == Spec => ChangedInTenant
<1>1. IInv /\ [Next]_vars =>
        [\A u \in Existing : user'[u] # user[u] =>
           \E r \in Requests : pc'[r] = "done" /\ MayChange(r, u)]_vars
  BY UserSteps
<1> QED  BY <1>1, IInvHolds, PTL DEF Spec, ChangedInTenant

\* A refresh token that has gone bad stays bad.
THEOREM RevokedTokensStayRevoked == Spec => RevokedStaysRevoked
<1>1. IInv /\ [Next]_vars =>
        [\A t \in tokens : ~Valid(t) /\ Valid(t)' => t.user \in stale']_vars
  <2> SUFFICES ASSUME IInv, [Next]_vars, NEW t \in tokens, ~Valid(t), Valid(t)', t.user \notin stale'
               PROVE  FALSE
    OBVIOUS
  <2>1. /\ t \in Token /\ t.user \in Users /\ t.tv \in Nat
        /\ user[t.user] # None /\ t.user \in Existing
    BY DEF IInv, TypeInv, TenancyTypeOK, AccountsTypeOK, Token, RowsOK, Existing
  <2>2. /\ stale \subseteq stale'
        /\ user[t.user].token_version <= user'[t.user].token_version
    BY <2>1, UserSteps
  <2>3. /\ user[t.user].token_version \in Nat
        /\ t.tv <= user[t.user].token_version
        /\ t.tv = user[t.user].token_version => user[t.user].is_active
    BY <2>1, <2>2 DEF IInv, TypeInv, TenancyTypeOK, AccountsTypeOK, Account, VersionsOK
  <2>4. user'[t.user].token_version = t.tv
    BY DEF Valid
  <2>5. user[t.user].token_version = t.tv
    BY <2>1, <2>2, <2>3, <2>4
  <2> QED  BY <2>1, <2>3, <2>5 DEF Valid
<1> QED  BY <1>1, IInvHolds, PTL DEF Spec, RevokedStaysRevoked
=============================================================================
