# BillNova: TLA+ models, model checking and proofs

BillNova is a multi-tenant billing and inventory backend: a FastAPI application whose endpoints are
plain (threaded) functions, SQLAlchemy sessions with `autoflush=False`, and PostgreSQL at its default
isolation level, READ COMMITTED. Nothing in the code takes a row lock on purpose, so what one request
reads may be out of date when the request commits. Most of what can go wrong lives there. The project
models four groups of requests that meet in the tables: billing and stock, prices and bills, users and
tenants, and the reports that read while all of it goes on.

Paths below are relative to the repository (`app/...`, `docs/...`).

## 1. Inventory of the system

| Component | State | Operations | Interacts with | Module |
|---|---|---|---|---|
| Stock ledger and sessions (`app/core/database.py`, `app/models/inventory.py`, `product.py`) | `products.current_stock`, `inventory_transactions`, sessions in flight | open, load, post a movement, commit, roll back | written by billing, purchases and inventory | `StockLedger` |
| Billing / POS (`billing_service.py`, `invoice_service.py`) | `sales`, items, payments | `preview`, `create_sale`, `void_invoice`, register, printed invoice | guard and counter, products, settings, GST engine | `Billing`, `Till`, `Reports` |
| Subscription (`subscription_service.py`) | `tenant_subscriptions`, `bill_usage`, `tenants.subscription_status` | `assert_can_bill`, `increment_usage`, `decrement_usage`, `activate`, summary | called by billing; platform operations activate | `Billing`, `Tenancy` |
| Purchases (`purchase_service.py`) | `purchases` (status), items | `create_purchase` (creates products inline, refreshes prices), `cancel_purchase` | stock ledger, catalogue | `Stockroom`, `Catalogue` |
| Inventory (`inventory_service.py`) | none of its own | stock list, ledger, low stock, `adjust` | stock ledger | `Stockroom` |
| Settings (`settings_service.py`) | business fields of `tenants`, `invoice_prefix` among them | read, update | the prefix is read by checkout | `Billing` (prefix) |
| GST engine (`gst_service.py`), prices and rates (`pricing.py`) | none (pure) | `compute_bill`, `compute_selling_price`, per-unit rates | billing, catalogue, invoices | `Gst` |
| Catalogue (`product_service.py`) | `products` (codes, cost, markup, selling price, rate) | create, update, next PD code | purchases, billing | `Catalogue` |
| Authentication (`auth_service.py`, `security.py`, `deps.py`) | `users.token_version`, `is_active`, `tenants` | register, login, refresh, logout, `get_current_user`, guards | every endpoint | `Accounts`, `Tenancy` |
| Users, roles, access audit (`user_service.py`, `permissions.py`, `audit_service.py`) | `users`, `access_audit_logs` | create, activate, deactivate, reset password, log a denial | authentication | `Accounts` |
| Reports and dashboard (`report_service.py`, `dashboard_service.py`, `api/reports.py`) | none (reads) | aggregates, registers, auditor's package | sales, purchases, products | `Reports` |
| Suppliers, exports, migrations, seeds, shell | one-row records, files, constants | CRUD, formatting | — | — |

There are no messages and no callbacks. Services call each other inside one session, and requests meet
only in the tables. A request is one session: a transaction that begins with the authentication query
(`deps.py`), and ends with the one `db.commit()` of its service or is rolled back when `get_db` closes
the session. A refused request is the exception: its audit row is committed by itself.

What is hard, and what makes each component correct:

- **Stock**: `new_balance` is computed in Python from a stock read earlier and written back as an
  absolute value. Correct means: `current_stock` is the balance of its ledger, the ledger's balances
  run, and no bill makes stock negative.
- **Invoice numbers and product codes**: computed from what is committed, protected by a unique key
  only. Correct means: unique, and the next one is always free, so that losing a race is repaired by
  trying again.
- **Voids and cancellations**: a status check, then a write at the commit. Correct would mean: reversed
  once. What the code keeps is: reversed whole, never without the status that says so, and no oftener
  than sessions overlapped.
- **Usage counter and limit**: a check on a stale count, a read-increment-write, and a month that is
  taken from two different clocks (`date.today()` and `created_at`). Correct means: the counter is the
  number of bills that stand, and the limit is respected.
- **Sessions**: one may wait for a key or a row that another holds. Correct means: all or nothing, and
  every request ends.
- **Bills**: prices are read at the preview and again at the checkout; amounts are rounded one by one.
  Correct means: saved as shown, lines, taxes and totals agree to a paisa, and payment rows that make the
  total (they do but for a paisa in two rows).
- **Accounts**: tokens are revoked by a counter that is read and written back; a slow password check
  lies between reading a user and answering. Correct means: a token follows the password and stays
  revoked, addresses are unique, tenants are whole and apart. A refusal by a role or permission guard leaves an
  audit row if that can be written; one by `require_admin_key` leaves none.
- **Reports**: several statements, several snapshots, bills that appear out of order. Correct means:
  figures agree when nothing interferes, and stay between what was always and what was ever there.

Every hazard is listed at its line in `PROJECT.json`, with the properties that address it.

## 2. Modules

| Module | Models |
|---|---|
| `StockLedger` | stock, ledger, session life cycle, one movement, the commit; no specification of its own |
| `Billing` | checkout and void, statement by statement; guard, counter, invoice number; `Spec`, `FairSpec` |
| `Stockroom` | purchase, cancellation, adjustment, built from the same operations |
| `Pos` | Billing and Stockroom on one stock ledger and one pool of sessions; `PosSpec`, `FairPosSpec` |
| `InvoiceBook` | abstract: per series, a sale takes the next number, an active invoice may be voided |
| `PerpetualLedger` | abstract: a request appends the rows of one document, which run on from a balance the product has shown |
| `BillingProofs` | types and invoice numbers of Billing; usage counter and limit, for a tenant without voids and changes of the prefix; Billing implements `InvoiceBook` |
| `StockProofs` | the stock that is shown, and sales that are written whole |
| `PosProofs` | types, sales and the shown stock of Pos; for any number of sessions, that it implements `PerpetualLedger`, which stock is lost, what reversals give back and when the counter drifts |
| `SumProofs` | what the sums of the community module `Functions` compute, and that a sum by groups is the sum of all |
| `Gst` | `compute_bill`, selling price and printed rates, as operators on exact fractions |
| `Catalogue` | products, codes and prices; edits and purchases with the flush in mid-request |
| `Till` | previews, checkouts, payments and printed invoices on top of Catalogue and Gst; `Spec` |
| `Accounts` | users, tokens, guards, audit |
| `Tenancy` | registration and activation beside Accounts; `Spec`, `FairSpec` |
| `GstProofs` | rounding, lines and bills of Gst |
| `TillProofs` | bills, printed invoices, codes and prices of Till and Catalogue |
| `TenancyProofs` | the safety properties of Tenancy |
| `Reports` | reports, dashboards and register pages beside the bills that come and go; uses Gst; `Spec` |
| `ReportsProofs` | every property of Reports |
| `MCBilling`, `MCPos`, `MCTill`, `MCTenancy`, `MCReports` | instances for TLC |

`Billing` and `Till` model the same two handlers from two sides: the first keeps numbers, stock and
counter and leaves the amounts out, the second keeps amounts and prices and leaves those out. What they
share is the session. Putting them in one state would multiply two independent questions; the
places where one side decides about the other are free choices: `LoadProducts` may be refused because of payments.

### Billing and stock: state

- `current_stock`, `ledger` are the tables; `ledger[p]` is in commit order, with the operation and
  document of each row. It starts with the row of the purchase that created the product.
- `pc`, `call`, `todo`, `held`, `rows` are a session: where it stands, what it was asked, the movements
  it has still to post, the `current_stock` of the Product objects in its identity map, and the rows it
  has added. A saved sale or purchase is identified by the request that saved it, and its columns are
  the values this request computed.
- `sale_status`, `series`, `seq`, `began` (`created_at`), `today` are the columns of `sales`;
  `usage[m]` is `bill_usage` (`None` while there is no row); `used` is the count a session has read.
- `month` is the server's calendar; `YearOf` gives the year of a month, which the series depends on.

### Billing and stock: actions and code

| Action | Code |
|---|---|
| `OpenSale` | the request reaches a worker thread; the first query starts the transaction, whose start is `created_at` |
| `AssertCanBill` | `date.today()` and `assert_can_bill`; refusal ends the request |
| `LoadProducts` | tenant row (prefix), the one SELECT of the products, the stock check line by line, payments against the total |
| `CountInvoices` | `_next_invoice_number` |
| `InsertSale` | `db.add(sale); db.flush()`: waits for a session that has inserted the same number, fails if it is committed |
| `PostBillLine` | one turn of the item loop of `create_sale`, or of `void_invoice` |
| `ReadUsage`, `CommitSale`, `CommitVoid` | the SELECT of `increment_usage` / `decrement_usage`, then `db.commit()` |
| `OpenVoid` | `get_sale` and the status check |
| `OpenPurchase`, `OpenCancel`, `OpenAdjust`, `PostStockLine`, `Commit...` | the same for purchases and adjustments |
| `AbortBill`, `AbortStockTask` | any error or death before the commit, including a deadlock victim |
| `NextMonth`, `Activate`, `SetPrefix` | the calendar, `activate`, `update_settings` |

Decisions that matter for faithfulness:

- **Where the interleaving points are.** Each action holds at most one statement whose place among
  other sessions' commits can be told apart. `assert_can_bill` reads the subscription, plan and counter in
  one action: nothing between those reads is written by it, and a change between them is covered by
  the order in which `Activate` or a commit may come before or after. `today` is any month from the
  start of the transaction to now.
- **Identity map.** A loaded Product is not read again while the service holds it (`SeenStock`); the
  `BillUsage` row is read by the guard into a local variable, is garbage by the time of the increment
  (the map holds it weakly) and is therefore read again.
- **Net changes.** The unit of work writes a column only if its value differs from the loaded one
  (`Dirty`, `CommitVoid`): a zero adjustment, or lines that cancel out, leave `current_stock` alone.
- **The commit is one action.** `autoflush=False`, so every UPDATE is emitted in the commit's flush. The
  order of the UPDATEs is fixed by the unit of work (by primary key within a table), so the row locks of two
  flushes are taken in the same order, and the later one writes its own absolute values after the
  earlier one has committed.
- **Unique keys** are the database's: (tenant, invoice number) makes a concurrent INSERT wait and a
  late one fail; (tenant, year, month) makes the second creator of a counter row fail.
- `Like` gives, for a series, the series whose numbers its LIKE pattern matches. It is a constant,
  because prefixes are strings; an instance gives the relation for its prefixes.
- Left out as data: amounts, customers, payments (their check is a free choice of refusal; `Till` has
  them), notes, prices; inline product creation in a purchase (`Catalogue` has it), since a new product is
  in nobody else's cart.
- The validators of the request schemas, such as the customer's data that a GST bill asks for, run before a
  session is opened; what they let through is what the constants range over.
- Bounded: sessions by `Workers`, requests by `Requests` (each used once, or again after a failure),
  months by `MaxMonth`.

### Prices and bills: state, actions and code

State: `product` and `code` are the columns of `products`. A session has `loaded` (the values its UPDATEs
are compared with), `mine` (its Product objects), `moved` (products whose stock it changes), `sent` and
`newCode` (what it has flushed and not committed) and `locks` (rows it has updated). `quote` is the
preview a client acts on, `bill` and `paid` the checkout in flight, `sale` the saved bills.

| Action | Code |
|---|---|
| `OpenEdit`, `Commit` | `update_product`: one read, one commit; the price follows only when the markup is in the payload |
| `RestockLine` | `_resolve_product` of a known product: `db.get` unless it is in the identity map, then `apply_purchase_pricing` |
| `PickCode` | `create_from_purchase`: the client's code or `next_product_code`, and `code_in_use` |
| `FlushRow`, `InsertProduct` | the `db.flush()` of `create_from_purchase`: UPDATEs of the rows changed so far, one by one in primary key order, then the INSERT |
| `EndPurchase`, `FlushRow`, `Commit` | the commit of `create_purchase` |
| `Preview`, `GiveUp` | `preview`; a client that does not follow it up |
| `Checkout`, `CheckPayments`, `CommitSale` | `create_sale`: prices again, payments against the total, then the sale and the rows of its products |
| `DeadlockVictim`, `Abort` | PostgreSQL's deadlock detector; any error or death before the commit |
| `PrintedInvoice` | the figures of `invoice_pdf`: amounts, rates, tax rows, BALANCE |

Decisions that matter for faithfulness:

- **The flush in mid-request** is the only place where a session holds row locks while it still
  works, so here, and not in `StockLedger`, an UPDATE is an action that may wait. Two receipts that name a product and create
  one, in opposite orders, wait for each other in a circle.
- **An UPDATE carries the changed columns and no other.** An edit of the markup does not send the cost,
  so it keeps a cost that a purchase has written meanwhile, next to a price computed from the old one.
- **Money** is in paise in `Gst` and in tenths of a paisa in `Catalogue`, where a client may send more
  decimals than a column keeps (`Kept`, `ToColumn`). Rates are in hundredths of a percent, as their column
  holds them; quantities and discounts come from the client in `1/Scale` of a unit and of a paisa. `Gst` computes with exact fractions and rounds each
  amount once, half up. Decimal has 28 digits: a share of the bill discount such as 5/9 is rounded in the 28th,
  which matters only when the exact amount is a tie. `FallsShort` says which ties fall below; an
  instance names those of its orders (computed with Python's `decimal` for `MCTill`), and it
  is only asked when there is a bill discount.
- **Payments** are any list of positive amounts in tenths of a paisa that makes the total the client was shown
  (`Pays`); `Splits` chooses among them in an instance, and the theorems leave it open.
- **What the order leaves open** is filled in by `_resolve_modes`: `Mode` and `Supply`, the latter from the
  tenant's settings (`TenantSupply`, which does not change while the model runs).
- Codes are compared as form and number. Of a number with five digits or more both forms are the same
  string in the code and two values in the model; no instance reaches one.
- Left out: names, units, HSN codes and reorder levels (copied through), searches, stock levels
  (`Billing`), the purchase's own totals.

### Users and tenants: state, actions and code

State: `user`, `tenant`, `subscription` are the committed rows, `audit` the denials; `tokens` are the refresh
tokens handed out, `access` the users who hold an access token. A session has `loaded` and `mine`, its
copies of users, and `held`, what an activation has loaded. `stale` and `overlapped` are history:
rows that a session wrote from a copy that was out of date.

| Action | Code |
|---|---|
| `OpenCall`, `Deny`, `DenyUnlogged` | `get_current_user`, the role and permission guards, `log_access_denied` and its failure |
| `Login`, `AnswerLogin` | `authenticate`: the user is read, the password checked, the tokens made from the copy |
| `Refresh` | `refresh_access_token` |
| `HandleUser`, `CommitUsers` | `logout`, `update_user`, `reset_password` |
| `HandleCreate`, `CommitCreate` | `create_user`: look up, insert |
| `LookUpEmail`, `InsertTenant`, `CommitRegister`, `AnswerRegister` | `register`: look up, flush of the tenant, commit with owner and trial, `db.refresh` and tokens |
| `OpenActivation`, `LoadSubscription`, `CommitActivation` | `require_admin_key` and `activate`: without the key, or for an unknown tenant, nothing happens and nothing is logged; an unknown plan is answered 404; then both rows are written, a subscription that was not there is inserted (no tenant of the model lacks one) |
| `Fail` | a statement fails or the worker dies |

Decisions that matter for faithfulness:

- A refresh token carries the `token_version`; in the model it also names the password it was obtained with, which is
  what `SessionsOfPassword` compares. A password is named by the request that set it. After its commit
  `register` reads the owner again (`db.refresh`) and checks nothing, so another owner's change in between goes into the
  first tokens; such an owner counts as `stale` (it takes five requests, and the theorems cover it). Encoding,
  signature and expiry are left out: the model's tokens are the ones the server made, and may be used for ever.
- Access tokens are checked against `is_active` and nothing else, as in `get_current_user`; a logout
  does not end them.
- Requests other than those of these modules are calls that need a permission (`"other"`).
- `register` is guarded by two keys at two statements: `tenants.email` at the flush, where a second
  registration waits, and `users.email` at the commit, where `create_user` may have won.
- `Plans` are the ids of the plans there are, `Activations` what the platform's operators send: with and without
  the key, and with any plan id.
- `update_user` sends `is_active` only; a payload with another field changes data nobody reads here.

### Reports: state, actions and code

State: `sale` holds the saved bills with `created_at` (`at`, the start of the transaction, and its `day`) and
their status, `pending` those in flight, `report` what each reader has asked, on which day, and been answered
so far. A report also keeps history: `changed`, whether a bill was saved or voided since its first answer,
and `ever` and `always`, the bills that were active at some time or at all times since. `Bills` are the columns
that `create_sale` has computed; they do not change, so they are a constant of the instance's orders.

| Action | Code |
|---|---|
| `OpenSale`, `CommitSale`, `VoidSale`, `Midnight` | the bills of `Billing`, as far as a report sees them |
| `OpenReport`, `Read` | one statement of `kpis`, `cashier_kpis` or `auditor_export`, in the order of the code, each with the snapshot of its own moment; the sets it selects and sums are the operators named like the functions of `report_service`. Or one page of `list_invoices` with OFFSET and LIMIT (`Page`); the client asks for the next one until a page is not full |
| `Deliver` | the client has the answer |

The bills themselves come from `ComputeBill`, so the sums are sums of rounded lines as in the tables. ORDER BY
`created_at DESC` is the rank of a bill by the number of newer ones (`NewestFirst`); no two transactions of the model begin
at the same time, so the order that the code leaves open among equal `created_at` does not arise. The cashier's
dashboard shows the newest `RecentLimit` bills (six in the code). A
report that has its answer is delivered before anything else happens: the answer no longer changes, so
this only removes orders that cannot be told apart. The single-report endpoints run one statement of the package each.

## 3. Runs

| Run | Bounds | Shows |
|---|---|---|
| `billing_concurrent` | 4 requests, 2 sessions, 2 months in 2 years, prefixes `INV` and `INV-2026`, bills with two lines of one product | types; even when patterns overlap, numbers are unique and the next one is free; a sale and its ledger rows appear together or not at all; stock is the last balance |
| `billing_guard` | 5 checkouts, 2 sessions, 2 months, limit 1, subscription suspended and restored | without voids the counter is exact; the limit is overshot by `Workers - 1`, or by `2 Workers - 1` across midnight, and no more |
| `pos_concurrent` | 4 requests, 2 sessions, 2 months in 2 years, deliveries with two lines of one product, recounts of zero | whatever overlaps: every commit is a step of `InvoiceBook` and of `PerpetualLedger`; invoices are numbered 1, 2, 3 per series; stock is lost only to a session that writes what it had loaded before another commit; the counter drifts only by a commit that was overtaken; reversals are whole and bounded by the sessions |
| `pos_requests_end` | 3 requests, 2 sessions, all five operations | under fairness every request ends |
| `till` | 3 requests, 2 sessions, 2 products, 3 orders, 3 receipts, 2 edits | what is saved is what was shown, and its payment rows are off by at most a paisa in two; lines, taxes, discounts and the printed figures add up; codes are unique and the next is free; prices follow cost and markup; some session can always move |
| `tenancy` | 3 requests, 2 sessions, 3 users of 2 tenants, 4 addresses, 2 plans, 5 activations | one account per address; tenants whole; tokens follow the password and stay revoked; a user is changed by a caller the guards let in for it; the status is mirrored and comes from a request with the key; every request ends |
| `reports` | 3 bills, 2 days, one reader of every kind, pages of one row, dashboards of two bills | figures agree when undisturbed, and stay within bounds when disturbed; paging misses nothing |

Why the bounds are enough: a race for a number or a counter needs two sessions, and a third and fourth
request to see the state it leaves used (a void of a sale that won, a sale after a failed one). Two lines of the same product in
one bill are the smallest case where the identity map matters. Two months with
different years are the smallest case where the series and the counter change under a session; five
requests are what the overshoot bound of two sessions needs to be reached, before and after the month has ended (with one
unit less in the bound TLC finds a violation). In `pos_concurrent` two sessions overlap and the third and
fourth request come before, between or after: a sale or a delivery, two reversals of it side by side, and one more request
that meets the stock, the counter or the number they leave. A delivery with two lines of one product gives a commit whose
second row continues the first, and a recount of zero one that adds a row and leaves the stock alone.

In `till`, payments are one amount, two that are half a paisa off, and three of which two are stored as nothing: both signs of
`PaymentsCoverBill`. A circle of waiting sessions needs two of them; a third request comes before or after and sees
what they leave, such as a checkout between two changes of its prices. The orders cover both modes, both supplies, bills
without tax, a line discount above its line, a shared bill discount with a tie that falls short, and half quantities
(`Scale` is 2); the receipts cover a restock before and after a new product, a code of the client's that the counter
would give next, and an unpadded one; costs and markups with a tenth of a paisa make the three price columns round apart. In `tenancy`, every race is
one of two sessions and the third request observes it: a login that is checking a password while it is reset, then a refresh; two registrations
and a new user with one address; two activations that share a column, one without the key and one for a plan there is not. In `reports`, a page can only shift
under a client that is between two pages, so pages of one row and three bills suffice; one reader
is enough because readers do not write; two days give a bill that begins before midnight and appears after it.

The symmetry set permutes requests, which no definition tells apart; liveness runs, `tenancy` and `reports` use none.

Deadlock is checked in every run but `reports`, whose bills and days are used up at some point. Elsewhere `Quiet` is the
only stuttering step of `Next`: the system may rest when no session is open.

**Fairness.** `FairSpec` of Billing and `FairPosSpec`: weak fairness of a session's next step, because endpoint functions run in the
thread pool, which schedules all of them, and the database answers or fails; strong fairness of `InsertSale`,
because an INSERT that waits on a unique key is queued behind the transaction that holds it, and PostgreSQL wakes it
when that one ends. `FairSpec` of Tenancy needs weak fairness of `Progress` only: requests run once, so
an INSERT that waits does so behind finitely many registrations. Nothing is assumed of clients, of the calendar, or of
failures. `RequestsEnd` then says that the waiting is never circular and never endless. In `till`,
`SomeoneCanMove` says the same of one moment, as the mid-request flush does make circles and only the deadlock detector opens them.

### Where the code and what is said of it part

Each of these runs checks one property that a document or a docstring states, and TLC shows a
behaviour of the model that violates it. The quotations are in `PROJECT.json`.

| Run | Statement | Behaviour |
|---|---|---|
| `neg_stock` | FR-4.10: a bill is not saved if it drives stock negative | two lines of one product are each compared with the same stock |
| `double_void` | "Idempotent guard against double-void" | both voids read `active`, both return the stock |
| `lost_stock` | "`balance_after` gives running balance" | a purchase and a sale overlap, one movement is overwritten |
| `payments_rounded` | AC-C6: payments "must equal G (else `422`)"; docs/06: "`SUM(amount) = sales.grand_total` enforced in service" | two payments of half a paisa pass the check as one paisa and are stored as one each |
| `mirror_drift` | `activate` "mirrors the status onto the tenant" | two activations overlap and each sends only the columns that differ from what it loaded |

The same causes have other effects, which have no run of their own. Each of them was seen as a TLC
counterexample of the models, by checking the property without its restriction or in another instance:

- FR-3.5 asks for a hard block at 100% usage: two sessions pass the guard on the same count. What
  does hold is `LimitOvershootBounded`.
- "No double counting, no drift" (docs/05): a sale and a void that overlap read the same counter and one
  update is lost (`UsageCountsBills` with voids and two sessions). A sale whose transaction began before midnight of the
  month's last day is counted in the new month and its void taken from the old one (with two months and one session).
  `Miscounts` is the list of these causes, and `CounterDriftsOnlyIfOvertaken` says that there is no other.
- FR-4.9 asks for sequential numbers: `INV-2026-%` counts the numbers of prefix `INV-2026` too, and the series
  skips one (`SequentialNumbers` in the instance of `billing_concurrent`).
- `cancel_purchase` has the unlocked status check of `void_invoice` (`CancelsReverseWhole` with `times <= 1`), and an
  adjustment of zero can record a balance that is no longer the stock.
- An edit of the markup that overlaps a purchase leaves a price that is not cost plus markup
  (`PriceDerived` without `stale`).
- A logout that overlaps a reset or a deactivation loses a bump of `token_version`, so that a session opened with
  the old password may stay good (`SessionsOfPassword` without `stale`); when both overlap a login, a
  refresh token that was revoked becomes good again (`RevokedStaysRevoked` without `stale`; this takes a
  fourth request, and holds for the three of `tenancy`).
- docs/07 and docs/SECURITY.md:29-30 repeat that payments make the total; `payments_rounded` is about them, too.

Two statements are refuted by reading alone: the docstring of `activate` promises a new subscription row with
history, and the code updates the row in place; the comment at `app/services/pricing.py:24` promises that
quantity times printed rate is the amount, and rounding makes it so only to half a paisa a unit (`PrintedAddsUp`).

## 4. Theorems

Every theorem is about all values of the constants (requests, sessions, products, carts, months, prefixes, orders,
receipts, users, tenants), under the named assumptions that the models make of them. What
else a theorem needs is a hypothesis with a name. The invariants behind them were
first checked by TLC on the instances of section 3; what did not hold there was not attempted.

| Module | Theorem | States | Hypotheses |
|---|---|---|---|
| `BillingProofs` | `TypeCorrect` | `TypeOK` | |
| | `NumbersAreUnique` | `NumbersUnique` | |
| | `NextNumberIsFree` | `NextNumberFree` | `LikeSelf` |
| | `NumbersAreSequential` | `SequentialNumbers` | `OwnLike` |
| | `CounterCountsBills` | `UsageCountsBills` | `OwnLike`, `NoVoids`, `FixedPrefix` |
| | `LimitOvershoot` | `LimitOvershootBounded` | the same and `OneLimit` |
| | `ImplementsTheBook` | the refinement `ImplementsInvoiceBook` | `OwnLike` |
| `StockProofs` | `StockShowsLastBalance` | `StockIsLastBalance` | `PositiveCarts` |
| | `SalesWrittenWhole` | `SaleWrittenWhole` | |
| `PosProofs` | `PosTypeCorrect` | `PosTypeOK` | |
| | `SalesWholeBesideStock` | `SaleWrittenWhole` in `PosSpec` | |
| | `StockShownBesideStock` | `StockIsLastBalance` in `PosSpec` | `PositiveCarts`, `PositiveDeliveries`, `DeltasMove` |
| | `LedgerIsPerpetual` | the refinement `ImplementsPerpetualLedger` | |
| | `StockLostOnlySo` | the action property `StockLostOnlyToStaleLoads` | |
| | `VoidsAreWhole` | `VoidsReturnWhole` | |
| | `CancelsAreWhole` | `CancelsReverseWhole` | |
| | `CounterDriftsOnlySo` | the action property `CounterDriftsOnlyIfOvertaken` | |
| `TenancyProofs` | `TenancyTypeCorrect` | `TenancyTypeOK` | |
| | `EmailsAreUnique` | `EmailsUnique` | |
| | `TenantsAreWhole` | `TenantsWhole` | |
| | `SubscriptionsAreMirrored` | `SubscriptionMirrored` | |
| | `SessionsFollowThePassword` | `SessionsOfPassword` | |
| | `UsersChangedInTheirTenant` | the action property `ChangedInTenant` | |
| | `RevokedTokensStayRevoked` | the action property `RevokedStaysRevoked` | |
| `TillProofs` | `TillTypes` | `TillTypeOK` | |
| | `UniqueCodes` | `CodesUnique` | |
| | `FreeNextCode` | `NextCodeFree` | |
| | `PricesDerived` | `PriceDerived` | `OpeningDerived` |
| | `BillsAsQuoted` | `SavedAsQuoted` | |
| | `PaymentsCover` | `PaymentsCoverBill` | |
| | `InvoicesAddUp` | `PrintedAddsUp` | |
| | `LinesAlwaysReconcile` | `LinesReconcile` | |
| | `DiscountsAccounted` | `DiscountAccounted` | |
| `ReportsProofs` | `DashboardMonth` | `MonthAddsUp` | |
| | `AuditorSheets` | `AuditorAgrees` | |
| | `AuditorRegisters` | `RegistersComplete` | |
| | `CashierTakings` | `TakingsMatchBills` | |
| | `PagesComplete` | `NothingSkipped` | |

The hypotheses, and when the program meets them:

- `LikeSelf`, a series matches its own LIKE pattern: every prefix without a backslash, PostgreSQL's escape.
  `OwnLike`, it matches no other series: no prefix of the tenant's history is a wildcard or an extension of another
  one. The instance of `billing_concurrent` violates it, and there numbers do skip.
- `NoVoids`, `FixedPrefix`: a tenant that voids nothing and keeps its prefix. Both are needed: a void takes no
  number and so is serialised with nothing, and a new prefix begins a second series that counts into the same month.
- `OneLimit`: all subscriptions the platform gives have the same limit. With a lower limit after a bill, the
  number of bills is above it without any race.
- `PositiveCarts`, `PositiveDeliveries`: `schemas/sale.py` and `schemas/purchase.py` refuse other quantities.
- `DeltasMove`: no adjustment by zero. `schemas/inventory.py` accepts one, and it does harm when another session
  moves the product at the same time.
- `OpeningDerived`: the product that is there at first has the price the code would compute for it.

None of the theorems about `Pos` other than the shown stock needs a hypothesis: what overlapping sessions spoil is part of what they
say, not excluded from them.

### Billing and Pos

**`TypeCorrect`.** `TypeOK` is not inductive: a commit writes `held`, which may be `None`, into
`current_stock`, and a void writes the status of `call[r].ref`. `TypeInv` adds `SessionOK`: a session that
has rows for a product holds that product, there are no rows outside the two posting steps, and a void
refers to a request. Each operation of `StockLedger` has a lemma (`OpenType`, `RollBackType`,
`PostLineType`, `CommitType`), and `TypeInvStep` has one step per action.

**Numbers.** `NumbersUnique` and `NextNumberFree` speak of saved sales, but what is saved was decided when
the session counted. `NumberInv` therefore adds: a session that has counted, and every saved
sale, has a known series; the number of a session in flight is at most the count of its series plus one
(counts never fall, since a void keeps the number); a session that has inserted holds its number against every other
one, saved or inserted. `OwnStep` says that a step of one session leaves the numbers of the others alone;
`NumberInvStep` goes through the actions, of which `InsertSale` (the unique key) and `CommitSale` (the count of every
series that matches grows by one) carry the argument. `NumbersAreSequential` follows from the invariant alone: a
set of n distinct numbers between 1 and n is 1..n.

**Counter and limit.** Nothing in `subscription_service` serialises two sessions that count a bill. What does is the
invoice number: where the numbers below the next one are all saved, only one session can hold an
uncommitted number of a series (`OneInserter`), and the second waits in its INSERT until the first has counted. So the
count a session has read is still the one in the table (`ReadingFresh`), which makes the counter exact. For the limit,
`Promised(m)` is the set of bills month m may still come to: those that stand, those the
guard has let through and, once the month is over, the sessions that began in it and have not met the guard. It has at most
`Workers - 1` members more than the limit while the month lasts, because the guard counted the bills that stand and the
other promises are sessions; midnight adds at most `Workers`.

**The book.** The refinement maps a state to the book whose page n of a series has the status of the
sale with number n. `NumberInv` makes it a sequence without holes (`Numbering`). Then the commit of a sale is `Issue`,
the first commit of a void is `Void`, the second void of an invoice leaves the book alone, and so does every other step.

**Stock shown.** When sessions overlap, stocks are lost but the ledger's last row still agrees with the
product. This rests on the net change the unit of work computes: a row is committed for a product only if its session moved it, and it
moved it one way (`Rises` or `Falls`), so the balance it holds differs from the one it loaded and is written
with the row (`RowsEndHeld`). The invariant (`StockInv`) is the same for checkouts, voids, deliveries, cancellations and
adjustments: the schemas require positive quantities, and a reversal is of a document whose lines are known to be positive
(`PositiveLines`; for a cancellation, `PurchasesKnown` says that it is of a purchase). An adjustment by zero moves nothing and still
adds a row, which then ends the ledger with a balance another session has left behind; `DeltasMove` leaves it out.

**Sales written whole.** For each session, the rows it has added and the movements it has still to
post make the lines of its document (`AddsItsLines`); when it commits, nothing is left to post. A void is of a sale that
is saved and over, so its lines do not change any more (`Refers`). The invariant speaks of sums over ledgers,
so each step needs what appending, concatenating or negating rows does to a sum; `SumProofs` has these facts.

**The ledger.** `LedgerInv`: what a session has loaded is a balance the product has shown, the rows it has added run on from there,
and the last of them has the stock it holds (`RowsRunOn`); the stock a product shows is one of those balances as well. Balances once
shown stay in the ledger, so no commit of another session disturbs this, however old the load has become. A commit is then `Next` of
`PerpetualLedger` (`CommitRunsOn`, for each product), every other step a stutter. The abstract ledger says from where the rows run on only as far as
the code does: from a balance that has been shown, which with overlapping sessions need not be the last.

**Lost stock.** The rows of one commit come to what they make of the balance they run on from (`RunningTotal`), and the
stock is set to the last of them. So stock and sum of the ledger move by the same amount from two starting points, the stock in
the table and the stock loaded, and their difference is what the step loses. A step in which it changes is a commit of a
product that was changed since the load (`CommitDrift`).

**Reversals.** `ReversalInv` counts, for every document, the reversals that have been committed together with those that have
passed the status check and have still to commit: never more than `Workers`. While the document is active none has been
committed, so all of them are open sessions; once it is reversed nobody passes the check any more, and a commit moves a
session from one group to the other. Every commit moves all lines of the document (the invariant of **Sales written
whole**), hence the product in `VoidsReturnWhole` and `CancelsReverseWhole`.

**Drift of the counter.** Only the commits of a sale or a void touch the counter or the bills that stand
(`BillingKeepsCounts`). If such a commit is not one of those that `Miscounts` names, what it has read of the
counter is still in the table: a sale adds the one bill it saves (`MeterSale`), and a void takes back one that is active and
in the same month, so that the counter it read is not zero and `max(0, ...)` does not hide anything (`MeterVoid`).

**Sums.** `SumFunctionOnSet` folds over a set in an order the definition leaves open. `SumsUnique` and
`SumsExist` show that the fold exists and that its value does not depend on it; then follow the sum of a set with one element removed, of a
union, of an image, of an appended, concatenated or negated sequence, of groups by a key (`SumByKey`, GROUP BY) and of sums (`SumOfSums`). Inductions are replaced by the smallest
counterexample: strict inclusion of finite sets is well founded, and the set of sets that refute a claim has a minimal element.

### Till and Catalogue

**Rounding.** `HalfUp` and `JustBelow` are within half a unit of the fraction they round
(`HalfUpRounds`, `JustBelowRounds`), whichever ties `FallsShort` names. A line has at most four rounded amounts, so they agree to two
halves on either side (`LineReconciles`, `LineDiscount`); what is left is that all amounts are
integers, so less than two is at most one. For payments, the sum is checked to half a paisa and each of n rows is within half a
paisa: with one row both roundings are the same one, and with more the difference is an integer below (n + 1) / 2, hence at most n / 2. Bills are sums of lines (`LinesAddUp`, `InvoicePrinted`).
This is `GstProofs`. None of it depends on the state, and `BillsOK` only says that every quote, bill and saved sale came out of `ComputeBill`
(`Reckoned`), that a sale's payments were made for its quote, and that a sale with payments that do not match is never
written.

**Codes.** `CodesOK` adds to `CodesUnique` what is inserted and not committed: nobody else has inserted it or committed it.
`NextCodeFree` needs no invariant beyond types, but the fact that a finite set of codes has a largest numeric one (`NextCodeIsNew`).

**Prices.** For a product that no session has written from an outdated copy, the row is whole paise and derived, and
so is what every session holds of it (`RowOK`, `ObjectOK`). The flush in mid-request sends some columns before
others exist, so the row in between needs `SentOK`: what a session has sent of a row, merged into the table, is the object
it now counts as loaded. Row locks are exclusive, hence the table does not move under what was sent.

### Tenancy

One invariant (`IInv`) carries all seven theorems. `TaskOK` says what a request knows at each step: among others that the caller
it has loaded was active and, beyond a logout, an owner, and that an activation in flight came with the key and, past the look-up, names a plan; `RowsOK`, that what a request
creates is in the tables only after its commit, which with the two keys gives `EmailsUnique` and `TenantsWhole`; `CopiesOK`, that a
session's copies are of rows that exist, that one which differs from what was loaded is of the caller or of a user of the owner's
tenant (which is `ChangedInTenant`), and that a handler takes something away only with a new version. `VersionsOK` is the heart of the token theorems: for a user whose row was never written from an outdated copy
(`stale`), no token or copy has a higher version than the row, and one with the same version has the same password and
was made for an active user. Tokens are revoked by the version alone, and this is why that suffices.

### Reports

**Figures that agree.** A bill is the sum of its lines, column by column (`BillIsReckoned`, from `Reckoned` of `GstProofs`, and
`BillIsItsLines`), so a sum over bills is a sum over their lines (`BillsAreTheirLines`). A table with a row for every
day, rate or HSN code, has the sums of what it was made from (`TableAddsUp`, `DaysAddUp`, `RatesAddUp`, `CodesAddUp`), and
one that leaves products out no more than that (`TopAddsUp`). `DashboardAgrees`, `SheetsAgree` and `TakingsAgree` say
what the statements of one report say of the same bills; they hold in every state.

**Answers that are still true.** What is left is that the statements of a report did see the same bills. The invariant
(`IInv`) says of every report in flight: as long as it has noticed no change, each of its answers is one that its statement would still
give (`Fresh`), and `always` are the bills of now (`Noted`). A commit or a void sets `changed`, and nothing else touches `sale`.

**Answers in between.** When bills do come and go, an answer is no longer true, but lies between what was always and what was
ever there (`Between`): a register is made of the bills that are active at its moment (`RegistersHold`), among which are all of
`always` and which all are in `ever`; from then on `always` only loses bills and `ever` only gains some.

**Pages.** The register is in the order of ranks (`RowsAreRanked`; times are distinct, `SalesOK`), and a page holds a range of ranks
(`PageHolds`). The invariant (`PagesOK`): of the bills that were there at the first page, those whose rank is below the rows read so far
have been seen. A bill that is saved meanwhile, however old its `created_at`, only raises ranks (`RanksGrow`), so what
has not been seen is still ahead; a page that is not full leaves no rank below it. A void in a register that is filtered by status lowers
ranks, which is why the property leaves that one out.

### What stays with TLC

- Liveness, that is `RequestsEnd` in three models, and `SomeoneCanMove`, which is about ENABLED: outside the proof system.
- `SequentialNumbers` and the counter for overlapping prefixes do not hold and have nothing to prove.

## 5. What is not modelled

- Suppliers: one-row records without an invariant.
- Reads without an interleaving of their own: stock report, low stock, subscription summary, plans, audit list, product search.
- `period_end`: it is stored and compared with nothing, so there is no behaviour to model.
- Settings other than the prefix: copied through. A change of `place_of_supply` between a preview and its checkout acts on
  the total as a change of prices does, and is left out.
- Bills that share one `created_at`, which ORDER BY leaves in no order.
- Encoding and expiry of tokens, password hashing.
- Exports and the layout of invoices: formatting. The figures on the invoice are in `Till`.
- Schemas: validation; the ranges they allow are the inputs of the models.
- Migrations, seeds, the application shell: the constraints they create are in the models of the tables.
- Three decimals of quantities: the models count in units of the column.
