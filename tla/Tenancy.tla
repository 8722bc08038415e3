------------------------------- MODULE Tenancy -------------------------------
(***************************************************************************)
(* Tenants: auth_service.register creates one with its owner and its trial *)
(* subscription, subscription_service.activate changes the subscription    *)
(* and mirrors its status onto the tenant.  Their requests run beside      *)
(* those of the users (Accounts).                                          *)
(***************************************************************************)
EXTENDS Accounts

CONSTANTS Plans,       \* the subscription plans there are
          Activations  \* what is sent to the activation endpoint

STATUS_TRIAL == "Trial"
Statuses == {STATUS_TRIAL, "Active", "Expired", "Suspended"}

TenantRow == [email : Emails, subscription_status : Statuses]

\* TenantSubscription: one row per tenant; the dates are kept and never compared.
SubscriptionRow == [status : Statuses, plan_id : Nat]

\* The sender has the admin key, or has not.
Activation == [admin_key : BOOLEAN, tenant : Tenants, status : Statuses, plan_id : Nat]

ASSUME TenancyAssumption ==
  /\ Plans \subseteq Nat
  /\ Activations \subseteq Activation
  /\ None \notin TenantRow \cup SubscriptionRow
  /\ \A t \in Shops : \E u \in Staff :
       OpeningUsers[u].tenant = t /\ OpeningUsers[u].role = "OWNER"

VARIABLES tenant,       \* the committed rows of tenants
          subscription, \* and of their subscriptions
          held,         \* the tenant and subscription each activation has loaded
          overlapped    \* history: tenants that two activations changed at a time

tenantVars == <<tenant, subscription, held, overlapped>>
vars == <<user, tokens, access, audit, pc, task, loaded, mine, stale,
          tenant, subscription, held, overlapped>>

NoPlan == 0
Trial == [status |-> STATUS_TRIAL, plan_id |-> NoPlan]
Nothing == [tenant |-> None, subscription |-> None]

\* The first owner of a shop registered it.
Founder(t) == CHOOSE u \in Staff : OpeningUsers[u].tenant = t /\ OpeningUsers[u].role = "OWNER"

Init ==
  /\ AccountsInit
  /\ tenant = [t \in Tenants |-> IF t \in Shops
       THEN [email |-> OpeningUsers[Founder(t)].email, subscription_status |-> STATUS_TRIAL]
       ELSE None]
  /\ subscription = [t \in Tenants |-> IF t \in Shops THEN Trial ELSE None]
  /\ held = [r \in Requests |-> Nothing]
  /\ overlapped = {}

-----------------------------------------------------------------------------
(* register *)

LookUpEmail(r, email) ==
  /\ ~EmailExists(email)
  /\ Start(r, [op |-> "register", email |-> email], "tenant")
  /\ UNCHANGED <<user, tokens, access, audit, stale, sessionVars, tenantVars>>

TenantEmailExists(email) == \E t \in Tenants : tenant[t] # None /\ tenant[t].email = email

\* Another registration has inserted a tenant of the address and not ended.
TenantEmailHeld(r, email) ==
  \E q \in Requests \ {r} : pc[q] = "owner" /\ task[q].email = email

\* Mutation: the INSERT waits for the address to become free.
InsertTenantWaits(r) ==
  /\ pc[r] = "tenant"
  /\ ~TenantEmailExists(task[r].email)
  /\ ~TenantEmailHeld(r, task[r].email)
  /\ pc' = [pc EXCEPT ![r] = "owner"]
  /\ UNCHANGED <<user, tokens, access, audit, task, stale, sessionVars, tenantVars>>

\* Mutation: the tenant is committed to get its id.
InsertTenantCommits(r) ==
  /\ pc[r] = "tenant"
  /\ ~TenantEmailHeld(r, task[r].email)
  /\ IF TenantEmailExists(task[r].email)
     THEN RollBack(r) /\ UNCHANGED tenantVars
     ELSE /\ pc' = [pc EXCEPT ![r] = "owner"]
          /\ tenant' = [tenant EXCEPT ![r] =
               [email |-> task[r].email, subscription_status |-> STATUS_TRIAL]]
          /\ UNCHANGED <<user, tokens, access, audit, task, stale, sessionVars,
                         subscription, held, overlapped>>

\* db.flush inserts the tenant: it waits for a registration of the same address
\* that has done so and fails when that one has been committed.
InsertTenant(r) ==
  /\ pc[r] = "tenant"
  /\ ~TenantEmailHeld(r, task[r].email)
  /\ IF TenantEmailExists(task[r].email)
     THEN RollBack(r)
     ELSE /\ pc' = [pc EXCEPT ![r] = "owner"]
          /\ UNCHANGED <<user, tokens, access, audit, task, stale, sessionVars>>
  /\ UNCHANGED tenantVars

\* The commit adds the owner and the trial; an address that a user has taken
\* meanwhile takes the tenant back as well.
CommitRegister(r) ==
  /\ pc[r] = "owner"
  /\ IF EmailExists(task[r].email)
     THEN RollBack(r) /\ UNCHANGED tenantVars
     ELSE /\ tenant' = [tenant EXCEPT ![r] =
               [email |-> task[r].email, subscription_status |-> STATUS_TRIAL]]
          /\ subscription' = [subscription EXCEPT ![r] = Trial]
          /\ user' = [user EXCEPT ![r] = Row(r, task[r].email, "OWNER", r)]
          /\ pc' = [pc EXCEPT ![r] = "tokens"]
          /\ UNCHANGED <<tokens, access, audit, task, stale, sessionVars, held, overlapped>>

\* db.refresh reads the owner again for the first tokens and checks nothing:
\* another owner may have changed the row since the commit.
AnswerRegister(r) ==
  /\ pc[r] = "tokens"
  /\ tokens' = tokens \cup {[TokenFor(r, user[r]) EXCEPT !.password = r]}
  /\ access' = access \cup {r}
  /\ stale' = IF user[r] = Row(r, task[r].email, "OWNER", r) THEN stale ELSE stale \cup {r}
  /\ End(r, "done")
  /\ UNCHANGED <<user, audit, tenantVars>>

-----------------------------------------------------------------------------
(* activate *)

\* require_admin_key turns away a request without the key, and db.get one for a
\* tenant that is not there; neither leaves a trace, not even in the audit log.
OpenActivation(r, activation) ==
  /\ activation.admin_key
  /\ tenant[activation.tenant] # None
  /\ Start(r, [op |-> "activate", activation |-> activation], "subscription")
  /\ held' = [held EXCEPT ![r].tenant = tenant[activation.tenant]]
  /\ UNCHANGED <<user, tokens, access, audit, stale, sessionVars, tenant, subscription, overlapped>>

\* Mutation: a session keeps its objects.
KeepObjects(r) == UNCHANGED held

ForgetObjects(r) == held' = [held EXCEPT ![r] = Nothing]

\* No plan is one of the choices.
PlanFound(plan_id) == plan_id \in Plans \cup {NoPlan}

\* _current_subscription is a statement after the one that read the tenant; an
\* unknown plan is answered 404 before it.
LoadSubscription(r) ==
  /\ pc[r] = "subscription"
  /\ IF ~PlanFound(task[r].activation.plan_id)
     THEN RollBack(r) /\ ForgetObjects(r)
     ELSE /\ held' = [held EXCEPT ![r].subscription = subscription[task[r].activation.tenant]]
          /\ pc' = [pc EXCEPT ![r] = "activating"]
          /\ UNCHANGED <<user, tokens, access, audit, task, stale, sessionVars>>
  /\ UNCHANGED <<tenant, subscription, overlapped>>

\* Mutation: the status is not mirrored onto the tenant.
MirroredNot(row, status) == row

Mirrored(row, status) == [row EXCEPT !.subscription_status = status]

\* Both rows get the columns that differ from those that were loaded; a
\* subscription that was not there is inserted.
CommitActivation(r) ==
  /\ pc[r] = "activating"
  /\ LET activation == task[r].activation
         t == activation.tenant
         to == [status |-> activation.status, plan_id |-> activation.plan_id]
         old == held[r]
     IN /\ tenant' = [tenant EXCEPT ![t] =
             Written(@, old.tenant, Mirrored(old.tenant, to.status))]
        /\ subscription' = [subscription EXCEPT ![t] =
             IF old.subscription = None THEN to ELSE Written(@, old.subscription, to)]
        /\ overlapped' = IF old = [tenant |-> tenant[t], subscription |-> subscription[t]]
                         THEN overlapped ELSE overlapped \cup {t}
  /\ ForgetObjects(r)
  /\ End(r, "done")
  /\ UNCHANGED <<user, tokens, access, audit, stale>>

-----------------------------------------------------------------------------
StartRequest(r) ==
  \/ OpenAccount(r) /\ UNCHANGED tenantVars
  \/ \E email \in Emails : LookUpEmail(r, email)
  \/ \E activation \in Activations : OpenActivation(r, activation)

Progress(r) ==
  \/ AccountStep(r) /\ UNCHANGED tenantVars
  \/ InsertTenant(r) \/ CommitRegister(r) \/ AnswerRegister(r)
  \/ LoadSubscription(r) \/ CommitActivation(r)

\* A statement fails or the worker dies, and the session is rolled back; a
\* registration that has been committed stays, and its answer is lost.
Fail(r) ==
  /\ r \in Busy
  /\ End(r, "done")
  /\ UNCHANGED <<user, tokens, access, audit, stale>>
  /\ ForgetObjects(r)
  /\ UNCHANGED <<tenant, subscription, overlapped>>

Quiet == Busy = {} /\ UNCHANGED vars

Next ==
  \/ \E r \in Requests : StartRequest(r) \/ Progress(r) \/ Fail(r)
  \/ Quiet

Spec == Init /\ [][Next]_vars

\* A session that is open goes on.
FairSpec == Spec /\ \A r \in Requests : WF_vars(Progress(r))

-----------------------------------------------------------------------------
(* Properties *)

TenancyTypeOK ==
  /\ AccountsTypeOK
  /\ tenant \in [Tenants -> TenantRow \cup {None}]
  /\ subscription \in [Tenants -> SubscriptionRow \cup {None}]
  /\ overlapped \subseteq Tenants
  /\ \A r \in Requests : held[r] # Nothing => pc[r] \in {"subscription", "activating"}

\* One account per address, so that a login is unambiguous: registrations and
\* create_user look the address up before they insert it.
EmailsUnique ==
  \A u, v \in Existing : user[u].email = user[v].email => u = v

\* A tenant is there with the owner who registered it and a subscription, or
\* not at all.
TenantsWhole ==
  \A t \in Tenants : tenant[t] # None =>
    /\ subscription[t] # None
    /\ \E u \in Existing : user[u].tenant = t /\ user[u].role = "OWNER"
                           /\ user[u].email = tenant[t].email

\* A refresh token that is good was obtained with the password the user has
\* now, also by a login that was checking the old one when it was reset;
\* overlapping changes of the user aside.
SessionsOfPassword ==
  \A t \in tokens : Valid(t) /\ t.user \notin stale => t.password = user[t.user].password

\* A refresh token that has gone bad stays bad, also when the user is
\* activated again; overlapping changes of the user aside.
RevokedStaysRevoked ==
  [][\A t \in tokens : ~Valid(t) /\ Valid(t)' => t.user \in stale']_vars

\* What a request may change of u: it is committing its copy of u, and the copy
\* of its caller that the guards looked at is of an active user of the same
\* tenant, who is u or an owner.
MayChange(r, u) ==
  LET caller == loaded[r][task[r].actor]
  IN /\ pc[r] = "ending" /\ u \in Dirty(r)
     /\ caller.is_active /\ caller.tenant = user[u].tenant
     /\ u = task[r].actor \/ caller.role = "OWNER"

\* A row of users changes only in the commit of a request whose caller was let
\* in for it: by the tenant's own active owner, or by the user in person.
ChangedInTenant ==
  [][\A u \in Existing : user'[u] # user[u] =>
       \E r \in Requests : pc'[r] = "done" /\ MayChange(r, u)]_vars

StatusMirrored(t) ==
  tenant[t] # None => tenant[t].subscription_status = subscription[t].status

\* The status on the tenant is that of its subscription, and the subscription
\* is what one activation with the admin key asked for, of a plan there is;
\* overlapping activations aside.
SubscriptionMirrored ==
  \A t \in Tenants \ overlapped :
    /\ StatusMirrored(t)
    /\ tenant[t] # None =>
         \/ subscription[t] = Trial
         \/ \E a \in Activations :
              /\ a.admin_key /\ a.tenant = t /\ PlanFound(a.plan_id)
              /\ subscription[t] = [status |-> a.status, plan_id |-> a.plan_id]

\* An activation mirrors the status onto the tenant, whatever overlaps.
AlwaysMirrored == \A t \in Tenants : StatusMirrored(t)

\* Every request comes to an end.
RequestsEnd == \A r \in Requests : r \in Busy ~> r \notin Busy
=============================================================================
