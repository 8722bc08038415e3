--------------------------------- MODULE Gst ---------------------------------
(***************************************************************************)
(* The arithmetic of a bill: gst_service.compute_bill and the prices and   *)
(* rates of pricing.py.  Money is in paise, quantities and discounts of    *)
(* the client in units of 1/Scale, and rates in hundredths of a percent,   *)
(* so every exact amount is a fraction of integers; Decimal computes with  *)
(* 28 digits, which only matters when an amount lies exactly half-way      *)
(* between two paise (FallsShort).                                         *)
(***************************************************************************)
EXTENDS Integers, Sequences, Functions

CONSTANTS Scale,            \* a quantity q stands for q / Scale units, a
                            \* discount d for d / Scale paise
          FallsShort(_, _)  \* of a part of a line: do the digits of the discount
                            \* share leave it below an exact half paisa?

GSTModes == {"inclusive", "exclusive"}
Supplies == {"intra", "inter"}

\* Quantities, prices and discounts are not negative; a rate of 1800 is 18 %,
\* as the two decimals of its column allow.
LineInput == [unit_price : Nat, quantity : Nat, gst_percentage : Nat, discount : Nat]

ComputedLine == [taxable_value : Int, cgst : Int, sgst : Int, igst : Int,
                 gst_amount : Int, discount : Int, line_total : Int]

ASSUME GstAssumption == Scale \in Nat \ {0}

-----------------------------------------------------------------------------
(* Rounding *)

\* n/d to whole paise, ROUND_HALF_UP; n is not negative.
HalfUp(n, d) == (2 * n + d) \div (2 * d)

\* The same for a value that is less than n/d by a part in 10^27.
JustBelow(n, d) == (2 * n + d - 1) \div (2 * d)

\* |x| <= bound
Within(x, bound) == -bound <= x /\ x <= bound

-----------------------------------------------------------------------------
(* compute_bill *)

GrossOf(line) == line.unit_price * line.quantity

\* The sum of one field over the lines of a bill.
TotalOf(lines, field(_)) == SumFunction([i \in DOMAIN lines |-> field(lines[i])])

TotalGross(lines) == TotalOf(lines, GrossOf)

\* The bill discount is shared out in proportion to gross / total_gross.
Shares(total) == IF total > 0 THEN total ELSE 1

\* Amounts of a line are fractions over this.
Denominator(total) == Scale * Shares(total)

\* eff_disc: the discount of the line and its share of the bill's, which is
\* nothing where no line costs anything.
EffectiveDiscount(line, total, bill_discount) ==
  line.discount * Shares(total) + bill_discount * GrossOf(line)

\* Mutation: a discount may exceed the line.
BaseUnclamped(line, total, bill_discount) ==
  GrossOf(line) * Shares(total) - EffectiveDiscount(line, total, bill_discount)

\* base: what is left to pay, never below zero.
Base(line, total, bill_discount) ==
  LET rest == GrossOf(line) * Shares(total) - EffectiveDiscount(line, total, bill_discount)
  IN IF rest < 0 THEN 0 ELSE rest

Rate(line, charge_gst) == IF charge_gst THEN line.gst_percentage ELSE 0

\* Mutation: taxable and tax are both taken from a base that includes the tax.
DoubleTaxedParts(base, den, rate, mode) ==
  [taxable |-> <<base * 10000, den * 10000>>,
   gst     |-> <<base * rate, den * 10000>>,
   total   |-> IF mode = "inclusive" THEN <<base, den>> ELSE <<base * (10000 + rate), den * 10000>>]

\* The three exact amounts of a line, as fractions: in inclusive mode the tax
\* is inside the base, in exclusive mode it is added to it.
Parts(base, den, rate, mode) ==
  IF mode = "inclusive"
  THEN [taxable |-> <<base * 10000, den * (10000 + rate)>>,
        gst     |-> <<base * rate, den * (10000 + rate)>>,
        total   |-> <<base, den>>]
  ELSE [taxable |-> <<base, den>>,
        gst     |-> <<base * rate, den * 10000>>,
        total   |-> <<base * (10000 + rate), den * 10000>>]

ComputeLine(line, total, bill_discount, mode, supply, charge_gst) ==
  LET den == Denominator(total)
      parts == Parts(Base(line, total, bill_discount), den, Rate(line, charge_gst), mode)
      share == <<GrossOf(line), total, bill_discount, line.discount, Rate(line, charge_gst), mode>>
      Paise(part, x) == IF bill_discount > 0 /\ FallsShort(part, share)
                        THEN JustBelow(x[1], x[2]) ELSE HalfUp(x[1], x[2])
      gst == Paise("gst", parts.gst)
      cgst == IF supply = "inter" THEN 0 ELSE HalfUp(gst, 2)
      igst == IF supply = "inter" THEN gst ELSE 0
  IN [taxable_value |-> Paise("taxable", parts.taxable),
      cgst |-> cgst, sgst |-> gst - cgst - igst, igst |-> igst, gst_amount |-> gst,
      discount |-> Paise("discount", <<EffectiveDiscount(line, total, bill_discount), den>>),
      line_total |-> Paise("total", parts.total)]

Taxable(l) == l.taxable_value
Tax(l) == l.gst_amount
Discount(l) == l.discount
Payable(l) == l.line_total
Cgst(l) == l.cgst
Sgst(l) == l.sgst
Igst(l) == l.igst

\* The totals of a bill are the sums of its rounded lines.
ComputeBill(lines, bill_discount, mode, supply, charge_gst) ==
  LET computed == [i \in DOMAIN lines |->
        ComputeLine(lines[i], TotalGross(lines), bill_discount, mode, supply, charge_gst)]
  IN [inputs |-> lines, lines |-> computed,
      total_taxable  |-> TotalOf(computed, Taxable),
      total_discount |-> TotalOf(computed, Discount),
      total_cgst     |-> TotalOf(computed, Cgst),
      total_sgst     |-> TotalOf(computed, Sgst),
      total_igst     |-> TotalOf(computed, Igst),
      total_gst      |-> TotalOf(computed, Tax),
      grand_total    |-> TotalOf(computed, Payable)]

-----------------------------------------------------------------------------
(* pricing.py *)

\* What a column with two decimals keeps of an amount in tenths of a paisa, in
\* paise: the client may send more decimals than the columns hold.
ToColumn(tenths) == HalfUp(tenths, 10)

\* compute_selling_price; all three amounts in tenths of a paisa.
ComputeSellingPrice(purchase_price, markup_amount) ==
  10 * HalfUp(purchase_price + markup_amount, 10)

\* customer_unit_rate and net_unit_rate: an amount per unit, as it is printed.
PerUnit(amount, quantity) == IF quantity = 0 THEN 0 ELSE HalfUp(amount * Scale, quantity)
=============================================================================
