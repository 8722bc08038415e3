------------------------------ MODULE MCTenancy ------------------------------
(* Instances of Tenancy for TLC. *)
EXTENDS Tenancy, TLC

CONSTANTS r1, r2, r3,
          owner, cashier, rival,  \* users
          shop, market,           \* tenants
          e1, e2, e3, e4          \* addresses

\* A shop with an owner and a cashier, and an owner of another tenant.
TwoShops ==
  (owner   :> [tenant |-> shop, email |-> e1, role |-> "OWNER"]) @@
  (cashier :> [tenant |-> shop, email |-> e2, role |-> "CASHIER"]) @@
  (rival   :> [tenant |-> market, email |-> e3, role |-> "OWNER"])

\* Only the cashier of the first shop is changed, and only reports are asked for.
FewCalls ==
  {[op |-> "logout"], [op |-> "other", permission |-> "report:view"],
   [op |-> "update", user |-> cashier, is_active |-> FALSE],
   [op |-> "update", user |-> cashier, is_active |-> TRUE],
   [op |-> "reset", user |-> cashier],
   [op |-> "create", email |-> e4, role |-> "CASHIER"]}

Ask(status, plan_id) ==
  [admin_key |-> TRUE, tenant |-> shop, status |-> status, plan_id |-> plan_id]

\* The first three share a column with another, or with the trial; the last two
\* are to be refused.
FiveActivations ==
  {Ask("Active", 1), Ask("Trial", 2), Ask("Suspended", 1),
   Ask("Expired", 3), [Ask("Expired", 1) EXCEPT !.admin_key = FALSE]}
=============================================================================
