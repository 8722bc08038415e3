-------------------------------- MODULE MCTill --------------------------------
(* Instances of Till for TLC. *)
EXTENDS Till, TLC

CONSTANTS r1, r2, r3

Symmetry == Permutations(Requests)

\* Cost 0.08 and 0.02 markup sell for 0.10.
Tenpaisa == [purchase_price |-> 80, markup_amount |-> 20, selling_price |-> 100, gst_percentage |-> 1800]

Auto(cost, markup) == [product |-> None, code |-> None, purchase_price |-> cost,
                       markup_amount |-> markup, gst_percentage |-> 500]
Restock(p, cost, markup) == [product |-> p, code |-> None, purchase_price |-> cost,
                             markup_amount |-> markup, gst_percentage |-> 1800]

Coded(form, n) == [Auto(95, 5) EXCEPT !.code = [form |-> form, number |-> n]]

\* A restock before and after a new product: the two flushes lock the row and
\* the next code in opposite orders.  Amounts with a tenth of a paisa are
\* rounded column by column.  The third purchase brings codes of its own: the
\* one that the counter would give next, and an unpadded PD-5 that makes it skip.
ThreeReceipts == {<<Restock(<<None, 1>>, 85, 25), Auto(95, 5)>>, <<Auto(95, 5), Restock(<<None, 1>>, 105, 20)>>,
                  <<Coded("padded", 3), Coded("short", 5)>>}

MarkupOrRate == {[markup_amount |-> 45, gst_percentage |-> None],
                 [markup_amount |-> None, gst_percentage |-> 25]}

Item(n, q, d) == [product |-> <<None, n>>, quantity |-> q, discount |-> d]

\* Quantities of half units, discounts of half paise.  The first order leaves
\* its modes to the server.
ThreeOrders ==
  {[items |-> <<Item(1, 5, 0), Item(2, 4, 0)>>, bill_discount |-> 20, gst_mode |-> None,
    place_of_supply |-> None, show_gst_on_invoice |-> TRUE, billing_type |-> "WITH_GST"],
   [items |-> <<Item(1, 20, 9), Item(2, 1, 100)>>, bill_discount |-> 0, gst_mode |-> "inclusive",
    place_of_supply |-> "inter", show_gst_on_invoice |-> FALSE, billing_type |-> "WITH_GST"],
   [items |-> <<Item(2, 3, 0)>>, bill_discount |-> 2, gst_mode |-> "inclusive",
    place_of_supply |-> "intra", show_gst_on_invoice |-> TRUE, billing_type |-> "WITHOUT_GST"]}

\* One payment; half a paisa apart, whose rows make more than the total; and two
\* payments whose rows are 0.
OneTwoOrThree(total) == {<<10 * total>>, <<10 * total - 5, 5>>, <<10 * total - 8, 4, 4>>}

\* At 0.10 each the tax of the first line is 3.5 paise, and Decimal's
\* 0.5555555555555555555555555556 of the discount leaves it just below.
TaxOfFirstLine(part, share) == part = "gst" /\ share = <<50, 90, 20, 0, 1800, "exclusive">>
=============================================================================
