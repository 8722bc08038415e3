------------------------------- MODULE Billing -------------------------------
(***************************************************************************)
(* Checkout and void: billing_service.create_sale, with the subscription   *)
(* guard, the invoice number, the stock movements and the usage counter it *)
(* drives, and invoice_service.void_invoice, which takes them back.        *)
(*                                                                         *)
(* One action per database statement whose place between the statements of *)
(* other sessions can be observed.  A saved sale is identified by the      *)
(* request that saved it; its columns are the values that request computed *)
(* (series, seq, began, today), which stay as they are once it is saved.   *)
(***************************************************************************)
EXTENDS StockLedger, Functions

CONSTANTS MaxMonth,       \* calendar months observed: 1..MaxMonth
          YearOf,         \* the year of each month
          InvoicePrefixes,\* values tenant.invoice_prefix takes
          Like,           \* Like[s]: the series whose numbers match s's LIKE pattern
          Subscriptions,  \* states of the tenant's subscription: [status, limit]
          TrialQuota,     \* settings.trial_bill_quota
          Workload        \* operations the clients send

Months == 1..MaxMonth
Series == InvoicePrefixes \X {YearOf[m] : m \in Months}
BILLABLE_STATUSES == {"Trial", "Active"}
Statuses == BILLABLE_STATUSES \cup {"Expired", "Suspended"}

ASSUME BillingAssumption ==
  /\ MaxMonth \in Nat \ {0}
  /\ YearOf \in [Months -> Nat]
  /\ InvoicePrefixes # {}
  /\ Like \in [Series -> SUBSET Series]
  /\ Subscriptions \subseteq [status : Statuses, limit : Nat \cup {None}]
  /\ Subscriptions # {}
  /\ TrialQuota \in Nat

VARIABLES month,        \* the month on the server's calendar
          subscription, \* the current tenant_subscriptions row
          prefix,       \* tenants.invoice_prefix
          usage,        \* bill_usage.bills_count per month, None while there is no row
          sale_status,  \* sales.status of the sale request r saved, "unsaved" if none
          began,        \* month at the start of r's transaction: sales.created_at
          today,        \* the date create_sale took, its month
          series, seq,  \* the invoice number: prefix and year, and the counter
          used          \* bills_count as the session read it before it writes it

billVars == <<month, subscription, prefix, usage, sale_status, began, today, series, seq, used>>
vars == <<current_stock, ledger, pc, call, todo, held, rows,
          month, subscription, prefix, usage, sale_status, began, today, series, seq, used>>

NoSeries == <<None, None>>

BillingTypeOK ==
  /\ month \in Months
  /\ subscription \in Subscriptions
  /\ prefix \in InvoicePrefixes
  /\ usage \in [Months -> Nat \cup {None}]
  /\ sale_status \in [Requests -> {"unsaved", "active", "void"}]
  /\ began \in [Requests -> Months]
  /\ today \in [Requests -> Months]
  /\ series \in [Requests -> Series \cup {NoSeries}]
  /\ seq \in [Requests -> Nat]
  /\ used \in [Requests -> Nat \cup {None}]

BillingInit ==
  /\ month = 1
  /\ subscription \in Subscriptions
  /\ prefix \in InvoicePrefixes
  /\ usage = [m \in Months |-> None]
  /\ sale_status = [r \in Requests |-> "unsaved"]
  /\ began = [r \in Requests |-> 1]
  /\ today = [r \in Requests |-> 1]
  /\ series = [r \in Requests |-> NoSeries]
  /\ seq = [r \in Requests |-> 0]
  /\ used = [r \in Requests |-> None]

-----------------------------------------------------------------------------
(* The tables as a statement sees them *)

Saved == {r \in Requests : sale_status[r] # "unsaved"}

\* Mutation: voided invoices are not counted.
MatchingActive(s) == {r \in Saved : sale_status[r] = "active" /\ series[r] \in Like[s]}

\* Mutation: the count runs over all of the tenant's sales.
MatchingAll(s) == Saved

\* SELECT count(id) ... invoice_number LIKE '<prefix>-<year>-%'.  Voided sales
\* keep their number and are counted.
MatchingSales(s) == {r \in Saved : series[r] \in Like[s]}

CountMatching(s) == Cardinality(MatchingSales(s))

\* The bills of a month: counted in the month create_sale took as today.
ActiveBills(m) == Cardinality({r \in Requests : sale_status[r] = "active" /\ today[r] = m})

Count(m) == IF usage[m] = None THEN 0 ELSE usage[m]

\* Trial uses the trial quota, and so does a subscription without a plan.
EffectiveLimit == IF subscription.status = "Trial" \/ subscription.limit = None
                  THEN TrialQuota ELSE subscription.limit

\* Mutation: the guard refuses only above the limit.
OverLimitStrict == EffectiveLimit # 0 /\ Count(month) > EffectiveLimit

\* The limit is reached; a limit of 0 is no limit.
OverLimit == EffectiveLimit # 0 /\ Count(month) >= EffectiveLimit

\* The session has inserted its sales row and holds the unique key.
Inserted(r) == call[r].op = "sale" /\ pc[r] \in {"posting", "metered"}

-----------------------------------------------------------------------------
(* create_sale *)

OpenSale(r, cart) ==
  /\ Open(r, "sale", r, cart, Opposite(cart), "began")
  /\ began' = [began EXCEPT ![r] = month]
  /\ UNCHANGED <<month, subscription, prefix, usage, sale_status, today, series, seq, used>>

\* Columns of a sale that was not saved: back to their initial values.
ForgetSale(r) ==
  /\ began' = [began EXCEPT ![r] = 1]
  /\ today' = [today EXCEPT ![r] = 1]
  /\ series' = [series EXCEPT ![r] = NoSeries]
  /\ seq' = [seq EXCEPT ![r] = 0]
  /\ used' = [used EXCEPT ![r] = None]

FailBill(r) ==
  /\ RollBack(r)
  /\ ForgetSale(r)
  /\ UNCHANGED <<month, subscription, prefix, usage, sale_status>>

\* today = date.today(), at some moment since the transaction began; then the
\* subscription guard, with the calendar and the counter of this moment.
AssertCanBill(r) ==
  /\ pc[r] = "began"
  /\ IF subscription.status \notin BILLABLE_STATUSES \/ OverLimit
     THEN FailBill(r)
     ELSE /\ pc' = [pc EXCEPT ![r] = "guarded"]
          /\ \E m \in began[r]..month : today' = [today EXCEPT ![r] = m]
          /\ UNCHANGED <<current_stock, ledger, call, todo, held, rows,
                         month, subscription, prefix, usage, sale_status, began, series, seq, used>>

LinesCovered(r) == \A i \in DOMAIN call[r].items :
                     current_stock[call[r].items[i].product] >= call[r].items[i].quantity

InCart(r) == {call[r].items[i].product : i \in DOMAIN call[r].items}

\* The tenant row gives the prefix, one SELECT loads the products, every line
\* is compared with the stock of its product, and the payments with the total.
LoadProducts(r) ==
  /\ pc[r] = "guarded"
  /\ \/ /\ LinesCovered(r)
        /\ pc' = [pc EXCEPT ![r] = "loaded"]
        /\ held' = [held EXCEPT ![r] = [p \in Products |->
                      IF p \in InCart(r) THEN current_stock[p] ELSE None]]
        /\ series' = [series EXCEPT ![r] = <<prefix, YearOf[today[r]]>>]
        /\ UNCHANGED <<current_stock, ledger, call, todo, rows,
                       month, subscription, prefix, usage, sale_status, began, today, seq, used>>
     \/ FailBill(r)   \* insufficient stock, or PaymentMismatchError

CountInvoices(r) ==
  /\ pc[r] = "loaded"
  /\ pc' = [pc EXCEPT ![r] = "numbered"]
  /\ seq' = [seq EXCEPT ![r] = CountMatching(series[r]) + 1]
  /\ UNCHANGED <<current_stock, ledger, call, todo, held, rows,
                 month, subscription, prefix, usage, sale_status, began, today, series, used>>

SameNumber(r, q) == series[r] = series[q] /\ seq[r] = seq[q]

\* Mutation: there is no unique key on the invoice number.
InsertWithoutKey(r) ==
  /\ pc[r] = "numbered"
  /\ pc' = [pc EXCEPT ![r] = "posting"]
  /\ UNCHANGED <<current_stock, ledger, call, todo, held, rows, billVars>>

\* Mutation: the session waits for the number to become free, even a committed one.
InsertWaits(r) ==
  /\ pc[r] = "numbered"
  /\ \A q \in Requests \ {r} : Inserted(q) \/ q \in Saved => ~SameNumber(r, q)
  /\ pc' = [pc EXCEPT ![r] = "posting"]
  /\ UNCHANGED <<current_stock, ledger, call, todo, held, rows, billVars>>

\* INSERT INTO sales.  The unique key (tenant_id, invoice_number) makes it wait
\* for a session that has inserted the same number, and fail when that number
\* is committed.
InsertSale(r) ==
  /\ pc[r] = "numbered"
  /\ \A q \in Requests \ {r} : Inserted(q) => ~SameNumber(r, q)
  /\ IF \E q \in Saved : SameNumber(r, q)
     THEN FailBill(r)
     ELSE /\ pc' = [pc EXCEPT ![r] = "posting"]
          /\ UNCHANGED <<current_stock, ledger, call, todo, held, rows, billVars>>

-----------------------------------------------------------------------------
(* void_invoice *)

\* Mutation: void_invoice does not look at the status.
OpenVoidUnchecked(r, s) ==
  /\ s \in Saved
  /\ Open(r, "void", s, <<>>, call[s].items, "posting")
  /\ UNCHANGED billVars

\* get_sale and the status check; each line is then given back to stock.
OpenVoid(r, s) ==
  /\ sale_status[s] = "active"
  /\ Open(r, "void", s, <<>>, call[s].items, "posting")
  /\ UNCHANGED billVars

\* The month whose counter the handler writes: today for a sale, for a void
\* the date part of the sale's created_at.
BilledMonth(r) == IF call[r].op = "sale" THEN today[r] ELSE began[call[r].ref]

-----------------------------------------------------------------------------
(* Usage and commit *)

PostBillLine(r) ==
  /\ call[r].op \in {"sale", "void"}
  /\ PostLine(r)
  /\ UNCHANGED billVars

\* increment_usage and decrement_usage select the row again.
ReadUsage(r) ==
  /\ Posted(r)
  /\ call[r].op \in {"sale", "void"}
  /\ pc' = [pc EXCEPT ![r] = "metered"]
  /\ used' = [used EXCEPT ![r] = usage[BilledMonth(r)]]
  /\ UNCHANGED <<current_stock, ledger, call, todo, held, rows,
                 month, subscription, prefix, usage, sale_status, began, today, series, seq>>

\* Mutation: the row is created, and counted only from the second bill on.
IncrementedExisting(n) == IF n = None THEN 0 ELSE n + 1

\* Mutation: the counter may go below zero.
DecrementedNoFloor(n) == IF n = None THEN n ELSE n - 1

\* get-or-create, then += 1.
Incremented(n) == IF n = None THEN 1 ELSE n + 1

\* Mutation: a void leaves the counter alone.
DecrementedNot(n) == n

\* Without a row, or at zero, there is nothing to take back.
Decremented(n) == IF n = None \/ n = 0 THEN n ELSE n - 1

\* A session that read no bill_usage row inserts one, and fails when another
\* session has committed the row since (unique tenant_id, year, month).
CommitSale(r) ==
  /\ pc[r] = "metered"
  /\ call[r].op = "sale"
  /\ IF used[r] = None /\ usage[today[r]] # None
     THEN FailBill(r)
     ELSE /\ Commit(r)
          /\ usage' = [usage EXCEPT ![today[r]] = Incremented(used[r])]
          /\ sale_status' = [sale_status EXCEPT ![r] = "active"]
          /\ used' = [used EXCEPT ![r] = None]
          /\ UNCHANGED <<month, subscription, prefix, began, today, series, seq>>

\* sale.status = void; the counter is written only when its value changes.
CommitVoid(r) ==
  /\ pc[r] = "metered"
  /\ call[r].op = "void"
  /\ Commit(r)
  /\ usage' = IF Decremented(used[r]) = used[r] THEN usage
              ELSE [usage EXCEPT ![BilledMonth(r)] = Decremented(used[r])]
  /\ sale_status' = [sale_status EXCEPT ![call[r].ref] = "void"]
  /\ used' = [used EXCEPT ![r] = None]
  /\ UNCHANGED <<month, subscription, prefix, began, today, series, seq>>

\* The request dies before its commit: a database error, a dropped
\* connection, the process killed.
AbortBill(r) ==
  /\ r \in Busy
  /\ call[r].op \in {"sale", "void"}
  /\ FailBill(r)

-----------------------------------------------------------------------------
(* What happens around the requests *)

NextMonth ==
  /\ month < MaxMonth
  /\ month' = month + 1
  /\ UNCHANGED <<ledgerVars, subscription, prefix, usage, sale_status, began, today, series, seq, used>>

\* subscription_service.activate, by platform operations.
Activate ==
  /\ "activate" \in Workload
  /\ subscription' \in Subscriptions
  /\ UNCHANGED <<ledgerVars, month, prefix, usage, sale_status, began, today, series, seq, used>>

\* settings_service.update_settings with a new invoice_prefix.
SetPrefix ==
  /\ "settings" \in Workload
  /\ prefix' \in InvoicePrefixes
  /\ UNCHANGED <<ledgerVars, month, subscription, usage, sale_status, began, today, series, seq, used>>

-----------------------------------------------------------------------------
StartBill(r) ==
  \/ "sale" \in Workload /\ \E cart \in Carts : OpenSale(r, cart)
  \/ "void" \in Workload /\ \E s \in Requests : OpenVoid(r, s)

Progress(r) ==
  \/ AssertCanBill(r) \/ LoadProducts(r) \/ CountInvoices(r) \/ InsertSale(r)
  \/ PostBillLine(r) \/ ReadUsage(r) \/ CommitSale(r) \/ CommitVoid(r)

BillingEnvironment == NextMonth \/ Activate \/ SetPrefix

BillingNext ==
  \/ \E r \in Requests : StartBill(r) \/ Progress(r) \/ AbortBill(r)
  \/ BillingEnvironment

\* Nothing is under way: the system waits for its clients.
Quiet == Busy = {} /\ UNCHANGED vars

Init == LedgerInit /\ BillingInit

Next == BillingNext \/ Quiet

\* Worker threads are scheduled and the database answers; a session that waits
\* for an invoice number is woken whenever the session that holds it ends.
Fairness == \A r \in Requests : WF_vars(Progress(r)) /\ SF_vars(InsertSale(r))

Spec == Init /\ [][Next]_vars

FairSpec == Spec /\ Fairness

-----------------------------------------------------------------------------
(* Properties *)

\* Every column and every session object has its type.
TypeOK == LedgerTypeOK /\ BillingTypeOK

InvoicesOf(s) == {r \in Saved : series[r] = s}

\* The number the next sale of a series will compute is free: no saved invoice
\* is numbered above the count that _next_invoice_number takes, so a checkout
\* that lost the race for a number succeeds when it is tried again.
NextNumberFree == \A r \in Saved : seq[r] <= CountMatching(series[r])

\* No two saved sales carry the same invoice number.
NumbersUnique == \A r, q \in Saved : SameNumber(r, q) => r = q

\* FR-4.9: the invoices of a series are numbered 1, 2, 3 ... without a gap or
\* a repetition, whatever sessions raced, failed or were voided.
SequentialNumbers ==
  \A s \in Series : {seq[r] : r \in InvoicesOf(s)} = 1..Cardinality(InvoicesOf(s))

\* The book of invoices that the saved sales make up.
BookOf(s) == [n \in 1..Cardinality(InvoicesOf(s)) |->
                IF \E r \in InvoicesOf(s) : seq[r] = n
                THEN sale_status[CHOOSE r \in InvoicesOf(s) : seq[r] = n]
                ELSE "missing"]

Book == INSTANCE InvoiceBook WITH book <- [s \in Series |-> BookOf(s)]

\* Billing implements the invoice book: sales take the next number of their
\* series one at a time, and an invoice only ever goes from active to void.
ImplementsInvoiceBook == Book!Spec

\* The quantity of product p in a list of lines, and in the ledger rows that an
\* operation wrote about document d.
QuantityIn(lines, p) ==
  SumFunctionOnSet([i \in DOMAIN lines |-> lines[i].quantity],
                   {i \in DOMAIN lines : lines[i].product = p})

QuantityMoved(op, d, p) ==
  SumFunctionOnSet([i \in DOMAIN ledger[p] |-> ledger[p][i].quantity],
                   {i \in DOMAIN ledger[p] : ledger[p][i].op = op /\ ledger[p][i].ref_id = d})

\* "Atomic write" (create_sale): the ledger holds the OUT rows of a sale, all of
\* its lines, exactly when the sale is saved.
SaleWrittenWhole ==
  \A r \in Requests, p \in Products :
    QuantityMoved("sale", r, p) =
      IF r \in Saved THEN -QuantityIn(call[r].items, p) ELSE 0

\* A void returns what the sale took, once, and only a void does ("Idempotent
\* guard against double-void").
VoidReturnsOnce ==
  \A r \in Requests, p \in Products :
    QuantityMoved("void", r, p) =
      IF sale_status[r] = "void" THEN QuantityIn(call[r].items, p) ELSE 0

\* The counter of each month is the number of its bills that stand (docs/05:
\* "no double counting, no drift").
UsageCountsBills == \A m \in Months : Count(m) = ActiveBills(m)

\* What the guard does guarantee when sessions run side by side: a month takes
\* at most Workers - 1 bills over the limit while it lasts, and Workers more
\* from sessions that dated their bill before midnight and were guarded after.
LimitOvershootBounded ==
  \A m \in Months : EffectiveLimit # 0 =>
    ActiveBills(m) <= EffectiveLimit + (IF month > m THEN 2 * Workers - 1 ELSE Workers - 1)

\* FR-4.10: no bill drives a product's stock below zero.
StockNotNegative == \A p \in Products : current_stock[p] >= 0

\* Every request ends, committed or rolled back: no session waits for ever for
\* the invoice number another one holds.
RequestsEnd == \A r \in Requests : r \in Busy ~> r \notin Busy
=============================================================================
