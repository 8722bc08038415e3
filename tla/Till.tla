--------------------------------- MODULE Till ---------------------------------
(***************************************************************************)
(* What a bill costs: billing_service.preview and the amounts of           *)
(* create_sale, on prices that owners and purchases change meanwhile       *)
(* (Catalogue).  A client previews an order, takes the money for the total *)
(* it was shown, and posts the checkout with those payments; the server    *)
(* computes the bill again.  Numbers, stock and the guard are in Billing.  *)
(***************************************************************************)
EXTENDS Catalogue

CONSTANTS Orders,       \* what clients send: lines, bill discount, modes, billing type
          Splits(_),    \* the ways clients divide a total into payments
          TenantSupply  \* place_of_supply in the tenant's settings

OrderLine == [product : Existing, quantity : Nat, discount : Nat]

Order == [items : Seq(OrderLine), bill_discount : Nat, gst_mode : GSTModes \cup {None},
          place_of_supply : Supplies \cup {None}, billing_type : {"WITH_GST", "WITHOUT_GST"},
          show_gst_on_invoice : BOOLEAN]

ASSUME TillAssumption == Orders \subseteq Order /\ TenantSupply \in Supplies

VARIABLES quote,  \* the preview a client acts on
          bill,   \* the bill a checkout in flight has computed
          paid,   \* the amounts of its payments, in tenths of a paisa
          sale    \* the saved bills: lines, totals and payments

tillVars == <<quote, bill, paid, sale>>
vars == <<product, code, pc, task, turn, loaded, mine, sent, moved, newCode, locks, stale,
          quote, bill, paid, sale>>

Init ==
  /\ CatalogueInit
  /\ quote = NoneOf(Requests)
  /\ bill = NoneOf(Requests)
  /\ paid = [r \in Requests |-> <<>>]
  /\ sale = NoneOf(Requests)

-----------------------------------------------------------------------------
(* Preview and checkout *)

\* _line_inputs: quantity and discount from the client, price and rate from the
\* products, which one SELECT loads.
LineInputs(order) ==
  [i \in DOMAIN order.items |->
     LET p == product[order.items[i].product]
     IN [unit_price |-> p.selling_price \div 10, quantity |-> order.items[i].quantity,
         gst_percentage |-> p.gst_percentage, discount |-> order.items[i].discount]]

ChargeGst(order) == order.billing_type = "WITH_GST"

\* _resolve_modes: what the order leaves open.
Mode(order) == IF order.gst_mode = None THEN "exclusive" ELSE order.gst_mode
Supply(order) == IF order.place_of_supply = None THEN TenantSupply ELSE order.place_of_supply

BillOf(order) ==
  ComputeBill(LineInputs(order), order.bill_discount, Mode(order), Supply(order), ChargeGst(order))

\* preview answers and keeps nothing; the client keeps the answer.
Preview(r, order) ==
  /\ Start(r, [op |-> "sale", order |-> order], "quoted")
  /\ quote' = [quote EXCEPT ![r] = BillOf(order)]
  /\ UNCHANGED <<product, code, stale, sessionVars, bill, paid, sale>>

Sum(amounts) == SumFunction(amounts)

\* The schemas take any list of positive amounts, with any number of decimals;
\* a client that follows its preview sends one that makes the total it was shown.
Pays(amounts, total) ==
  /\ amounts \in Seq(Nat \ {0})
  /\ amounts # <<>>
  /\ ToColumn(Sum(amounts)) = total

\* create_sale up to the check of the payments: the prices are read again.
Checkout(r) ==
  /\ pc[r] = "quoted"
  /\ Cardinality(Busy) < Workers
  /\ \E amounts \in Splits(quote[r].grand_total) :
       /\ Pays(amounts, quote[r].grand_total)
       /\ paid' = [paid EXCEPT ![r] = amounts]
  /\ bill' = [bill EXCEPT ![r] = BillOf(task[r].order)]
  /\ pc' = [pc EXCEPT ![r] = "checked"]
  /\ UNCHANGED <<product, code, task, stale, sessionVars, quote, sale>>

\* Mutation: payments may exceed the total.
PaymentsAccepted(r) == ToColumn(Sum(paid[r])) >= bill[r].grand_total

\* Mutation: the total the client was shown is taken for the bill's.
PaymentsMatchQuote(r) == ToColumn(Sum(paid[r])) = quote[r].grand_total

\* "Payments must sum to the grand total."
PaymentsMatch(r) == ToColumn(Sum(paid[r])) = bill[r].grand_total

\* Mutation: the computed bill outlives its request.
ForgetQuote(r) ==
  /\ quote' = [quote EXCEPT ![r] = None]
  /\ paid' = [paid EXCEPT ![r] = <<>>]
  /\ UNCHANGED bill

\* The request has ended, and the client's order with it.
ForgetBill(r) ==
  /\ quote' = [quote EXCEPT ![r] = None]
  /\ bill' = [bill EXCEPT ![r] = None]
  /\ paid' = [paid EXCEPT ![r] = <<>>]

FailSale(r) == RollBack(r) /\ ForgetBill(r) /\ UNCHANGED sale

\* PaymentMismatchError, or the sale with its items and the stock of their
\* products, whose rows the commit updates.
CheckPayments(r) ==
  /\ pc[r] = "checked"
  /\ IF ~PaymentsMatch(r)
     THEN FailSale(r)
     ELSE /\ pc' = [pc EXCEPT ![r] = "ending"]
          /\ moved' = [moved EXCEPT ![r] =
               {task[r].order.items[i].product : i \in DOMAIN task[r].order.items}]
          /\ UNCHANGED <<product, code, task, turn, loaded, mine, sent, newCode, locks, stale,
                         quote, bill, paid, sale>>

\* Every payment row is rounded by its own column.
Payments(r) == [i \in DOMAIN paid[r] |-> ToColumn(paid[r][i])]

\* Whether the invoice shows the tax is fixed with the bill.
ShowGst(order) == order.show_gst_on_invoice /\ ChargeGst(order)

CommitSale(r) ==
  /\ task[r].op = "sale"
  /\ Commit(r)
  /\ sale' = [sale EXCEPT ![r] = [bill |-> bill[r], quoted |-> quote[r].grand_total,
                                  payments |-> Payments(r), show_gst |-> ShowGst(task[r].order)]]
  /\ ForgetBill(r)

\* A preview the client does not follow up.
GiveUp(r) == pc[r] = "quoted" /\ FailSale(r)

-----------------------------------------------------------------------------
(* The printed invoice *)

\* Mutation: the line total is printed above the tax as well.
AmountWithTax(line, shown) == line.line_total

\* The amount of a printed line: before tax where the tax is shown below.
Amount(line, shown) == IF shown THEN line.taxable_value ELSE line.line_total

\* invoice_pdf of a saved bill: rate and amount of each line, the tax rows and
\* the payments; tax rows of 0 are not printed.
PrintedInvoice(s) ==
  LET b == s.bill
  IN [lines |-> [i \in DOMAIN b.lines |->
        LET amount == Amount(b.lines[i], s.show_gst)
        IN [amount |-> amount, rate |-> PerUnit(amount, b.inputs[i].quantity)]],
      taxes |-> IF s.show_gst THEN <<b.total_cgst, b.total_sgst, b.total_igst>> ELSE <<>>,
      total |-> b.grand_total,
      balance |-> Sum(s.payments) - b.grand_total]

-----------------------------------------------------------------------------
StartTask(r) ==
  \/ \E order \in Orders : Preview(r, order)
  \/ /\ \/ \E receipt \in Receipts : OpenPurchase(r, receipt)
        \/ \E p \in Existing, edit \in Edits : OpenEdit(r, p, edit)
     /\ UNCHANGED tillVars

CatalogueCommit(r) == task[r].op # "sale" /\ Commit(r) /\ UNCHANGED tillVars

Lines(r) ==
  /\ RestockLine(r) \/ PickCode(r) \/ FlushRow(r) \/ InsertProduct(r) \/ EndPurchase(r)
  /\ UNCHANGED tillVars

Victim(r) == DeadlockVictim(r) /\ ForgetBill(r) /\ UNCHANGED sale

Progress(r) == Lines(r) \/ CatalogueCommit(r) \/ CheckPayments(r) \/ CommitSale(r) \/ Victim(r)

Fail(r) == Abort(r) /\ ForgetBill(r) /\ UNCHANGED sale

Quiet == Busy = {} /\ UNCHANGED vars

Next ==
  \/ \E r \in Requests : StartTask(r) \/ Checkout(r) \/ GiveUp(r) \/ Progress(r) \/ Fail(r)
  \/ Quiet

Spec == Init /\ [][Next]_vars

-----------------------------------------------------------------------------
(* Properties *)

\* Tables and sessions have their types; a bill is computed only by a checkout
\* in flight.
TillTypeOK ==
  /\ CatalogueTypeOK
  /\ \A r \in Requests : bill[r] # None => pc[r] \in {"checked", "ending"}
  /\ paid \in [Requests -> Seq(Nat)]

\* Product codes are unique, whatever purchases and explicit codes overlap.
CodesUnique == \A p, q \in Products : code[p] # None /\ code[p] = code[q] => p = q

\* The next automatic code is free, so a purchase that lost the race for a code
\* succeeds when it is entered again.
NextCodeFree ==
  LET codes == {code[p] : p \in Products} \ {None} IN NextCode(codes) \notin codes

\* "Selling price is always derived as purchase_price + markup_amount", to the
\* paisa that rounding the three columns separately may cost.
Derived(row) == Within(row.selling_price - row.purchase_price - row.markup_amount, 10)

\* The price of every product no session has written from an outdated copy.
PriceDerived == \A p \in Products : product[p] # None /\ p \notin stale => Derived(product[p])

\* A saved bill asks for what the client was shown, although prices may have
\* changed between the preview and the checkout.
SavedAsQuoted ==
  \A r \in Requests : sale[r] # None => sale[r].quoted = sale[r].bill.grand_total

\* "SUM(amount) = sales.grand_total": the payment rows of every bill make its
\* total.
PaymentsEqualTotal ==
  \A r \in Requests : sale[r] # None => Sum(sale[r].payments) = sale[r].bill.grand_total

\* What the code keeps of that, when each row is rounded by its column after
\* their sum was checked: a bill paid by one row has a BALANCE line of 0, and of
\* any other every two rows can be off by no more than a paisa.
PaymentsCoverBill ==
  \A r \in Requests : sale[r] # None =>
    Within(PrintedInvoice(sale[r]).balance, Len(sale[r].payments) \div 2)

\* What a customer can check on the invoice: the amounts and the taxes below
\* them add up to the total, to the paisa when no tax is shown and to a paisa a
\* line when it is; quantity times rate is the amount, to half a paisa a unit.
PrintedAddsUp ==
  \A r \in Requests : sale[r] # None =>
    LET printed == PrintedInvoice(sale[r])
        quantity == [i \in DOMAIN printed.lines |-> sale[r].bill.inputs[i].quantity]
        amounts == Sum([i \in DOMAIN printed.lines |-> printed.lines[i].amount])
    IN /\ Within(amounts + Sum(printed.taxes) - printed.total,
                 IF printed.taxes = <<>> THEN 0 ELSE Len(printed.lines))
       /\ \A i \in DOMAIN printed.lines :
            Within(2 * (printed.lines[i].rate * quantity[i] - printed.lines[i].amount * Scale),
                   quantity[i])

\* Every line of a saved bill adds up to a paisa: taxable value and tax against
\* the line total, CGST against SGST.
LinesReconcile ==
  \A r \in Requests : sale[r] # None =>
    \A i \in DOMAIN sale[r].bill.lines :
      LET l == sale[r].bill.lines[i]
      IN /\ Within(l.taxable_value + l.gst_amount - l.line_total, 1)
         /\ l.cgst + l.sgst + l.igst = l.gst_amount
         /\ l.igst = 0 => l.cgst - l.sgst \in {0, 1}

\* The discount a line shows is what was taken off its price, to a paisa; only
\* a discount that exceeds the line is shown in full although it is clamped.
DiscountAccounted ==
  \A r \in Requests : sale[r] # None =>
    \A i \in DOMAIN sale[r].bill.lines :
      LET l == sale[r].bill.lines[i]
          gross == GrossOf(sale[r].bill.inputs[i])
          net == IF Mode(task[r].order) = "inclusive" THEN l.line_total ELSE l.taxable_value
      IN IF l.discount * Scale < gross
         THEN Within((l.discount + net) * Scale - gross, Scale)
         ELSE net \in {0, 1}

\* Row locks and codes are taken in the order of the receipt's lines, so
\* sessions can wait for each other in a circle; the deadlock detector is what
\* keeps the shop going: while a session is open, one of them can move.
SomeoneCanMove == Busy # {} => \E r \in Busy : ENABLED Progress(r)
=============================================================================
