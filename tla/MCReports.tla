------------------------------ MODULE MCReports ------------------------------
(* Instances of Reports for TLC. *)
EXTENDS Reports

Line(price, quantity, rate, discount) ==
  [unit_price |-> price, quantity |-> quantity, gst_percentage |-> rate, discount |-> discount]

Sold(lines, bill_discount, gst_mode, place_of_supply) ==
  [lines |-> lines, bill_discount |-> bill_discount, gst_mode |-> gst_mode,
   place_of_supply |-> place_of_supply]

\* A bill of two rates and one HSN code with a discount to share, an inclusive
\* one that crosses a state border, and one without tax for a GST customer.
Bill(name) ==
  CASE name = "retail" ->
         [order |-> Sold(<<Line(33, 3, 525, 0), Line(50, 1, 1800, 0)>>, 25, "exclusive", "intra"),
          billing_type |-> GST, is_gst_customer |-> FALSE, created_by |-> "asha",
          goods |-> <<[hsn |-> "1006", product |-> "rice"], [hsn |-> "1006", product |-> "salt"]>>]
    [] name = "trade" ->
         [order |-> Sold(<<Line(77, 2, 1800, 13)>>, 0, "inclusive", "inter"),
          billing_type |-> GST, is_gst_customer |-> TRUE, created_by |-> "ravi",
          goods |-> <<[hsn |-> "3401", product |-> "soap"]>>]
    [] name = "estimate" ->
         [order |-> Sold(<<Line(51, 1, 1800, 0)>>, 0, "exclusive", "intra"),
          billing_type |-> NonGST, is_gst_customer |-> TRUE, created_by |-> "asha",
          goods |-> <<[hsn |-> "3401", product |-> "soap"]>>]

OneOfEach == [name \in {"retail", "trade", "estimate"} |-> Bill(name)]

NoTies(part, share) == FALSE

FirstOrBoth == {<<1, 1>>, <<1, 2>>}

AnyOrActiveGst == {[status |-> None, billing_type |-> None], [status |-> Active, billing_type |-> GST]}
=============================================================================
