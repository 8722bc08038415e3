------------------------------- MODULE GstProofs -------------------------------
(***************************************************************************)
(* Theorems about compute_bill: what rounding each amount of a line by     *)
(* itself leaves of the sums they should make, for every line and bill.    *)
(***************************************************************************)
EXTENDS Gst, SumProofs

-----------------------------------------------------------------------------
(* Rounding *)

\* x is n/d up to half a unit.
Rounded(x, n, d) == x \in Nat /\ -d <= 2 * (d * x) - 2 * n /\ 2 * (d * x) - 2 * n <= d

LEMMA DivBounds ==
  ASSUME NEW a \in Nat, NEW b \in Nat, b > 0
  PROVE  /\ a \div b \in Nat
         /\ b * (a \div b) <= a
         /\ a < b * (a \div b) + b
<1>1. a = b * (a \div b) + (a % b) /\ a \div b \in Int /\ a % b \in 0..(b - 1)
  BY SMT
<1>2. a \div b >= 0
  BY SMT
<1> QED  BY <1>1, <1>2

LEMMA HalfUpRounds ==
  ASSUME NEW n \in Nat, NEW d \in Nat, d > 0
  PROVE  Rounded(HalfUp(n, d), n, d)
<1> DEFINE h == (2 * n + d) \div (2 * d)
<1>1. h \in Nat /\ (2 * d) * h <= 2 * n + d /\ 2 * n + d < (2 * d) * h + 2 * d
  BY DivBounds, 2 * n + d \in Nat, 2 * d \in Nat, 2 * d > 0
<1> HIDE DEF h
<1>2. (2 * d) * h = 2 * (d * h) /\ d * h \in Nat
  BY <1>1
<1>3. Rounded(h, n, d)
  BY <1>1, <1>2 DEF Rounded
<1> QED  BY <1>3 DEF h, HalfUp

LEMMA JustBelowRounds ==
  ASSUME NEW n \in Nat, NEW d \in Nat, d > 0
  PROVE  Rounded(JustBelow(n, d), n, d)
<1> DEFINE h == (2 * n + d - 1) \div (2 * d)
<1>1. h \in Nat /\ (2 * d) * h <= 2 * n + d - 1 /\ 2 * n + d - 1 < (2 * d) * h + 2 * d
  BY DivBounds, 2 * n + d - 1 \in Nat, 2 * d \in Nat, 2 * d > 0
<1> HIDE DEF h
<1>2. (2 * d) * h = 2 * (d * h) /\ d * h \in Nat
  BY <1>1
<1>3. Rounded(h, n, d)
  BY <1>1, <1>2 DEF Rounded
<1> QED  BY <1>3 DEF h, JustBelow

\* Products of positive numbers keep the order; the provers need it in this form.
LEMMA Cancel ==
  ASSUME NEW d \in Nat, d > 0, NEW x \in Int, NEW c \in Nat,
         -((2 * c + 1) * d) <= 2 * (d * x), 2 * (d * x) <= (2 * c + 1) * d
  PROVE  Within(x, c)
<1>1. CASE x > c
  <2>1. d * (x - c - 1) >= 0
    BY <1>1
  <2>2. d * (x - c - 1) = d * x - d * c - d
    OBVIOUS
  <2>3. (2 * c + 1) * d = 2 * (d * c) + d
    OBVIOUS
  <2> QED  BY <2>1, <2>2, <2>3
<1>2. CASE x < -c
  <2>1. d * (-x - c - 1) >= 0
    BY <1>2
  <2>2. d * (-x - c - 1) = -(d * x) - d * c - d
    OBVIOUS
  <2>3. (2 * c + 1) * d = 2 * (d * c) + d
    OBVIOUS
  <2> QED  BY <2>1, <2>2, <2>3
<1> QED  BY <1>1, <1>2 DEF Within

-----------------------------------------------------------------------------
(* Lines of a bill *)

\* What a line is computed from.
Settings == [total : Nat, bill_discount : Nat, mode : GSTModes, supply : Supplies,
             charge_gst : BOOLEAN]

Line(line, s) == ComputeLine(line, s.total, s.bill_discount, s.mode, s.supply, s.charge_gst)
Eff(line, s) == EffectiveDiscount(line, s.total, s.bill_discount)
Net(line, s) == Base(line, s.total, s.bill_discount)
Den(s) == Denominator(s.total)

LEMMA DenType ==
  ASSUME NEW s \in Settings
  PROVE  /\ Den(s) \in Nat /\ Den(s) > 0
         /\ Shares(s.total) \in Nat /\ Den(s) = Scale * Shares(s.total)
         /\ Shares(s.total) > 0
<1>1. PICK k : k = Shares(s.total)
  OBVIOUS
<1>2. k \in Nat /\ k > 0 /\ Scale \in Nat /\ Scale > 0
  BY <1>1, GstAssumption DEF Settings, Shares
<1>3. Scale * k \in Nat /\ Scale * k > 0
  BY <1>2
<1> QED  BY <1>1, <1>2, <1>3 DEF Den, Denominator

LEMMA PartsType ==
  ASSUME NEW line \in LineInput, NEW s \in Settings
  PROVE  /\ GrossOf(line) \in Nat
         /\ Eff(line, s) \in Nat
         /\ Net(line, s) \in Nat
         /\ Rate(line, s.charge_gst) \in Nat
<1>1. line.unit_price \in Nat /\ line.quantity \in Nat /\ line.discount \in Nat /\ line.gst_percentage \in Nat
  BY DEF LineInput
<1>2. s.total \in Nat /\ s.bill_discount \in Nat /\ Scale \in Nat
  BY GstAssumption DEF Settings
<1>3. GrossOf(line) \in Nat
  BY <1>1 DEF GrossOf
<1>4. Den(s) \in Nat /\ Shares(s.total) \in Nat
  BY DenType
<1>5. Eff(line, s) \in Nat
  <2>1. line.discount * Shares(s.total) \in Nat /\ s.bill_discount * GrossOf(line) \in Nat
    BY <1>1, <1>2, <1>3, <1>4
  <2> QED  BY <2>1 DEF Eff, EffectiveDiscount
<1>6. Net(line, s) \in Nat
  <2>1. GrossOf(line) * Shares(s.total) \in Nat
    BY <1>3, <1>4
  <2> QED  BY <1>5, <2>1 DEF Net, Base, Eff, Den
<1> QED  BY <1>1, <1>3, <1>5, <1>6 DEF Rate

\* The amounts of a line are its exact amounts, each rounded to a paisa.
LEMMA LineRounds ==
  ASSUME NEW line \in LineInput, NEW s \in Settings,
         NEW b, b = Net(line, s), NEW d, d = Den(s), NEW r, r = Rate(line, s.charge_gst)
  PROVE  LET l == Line(line, s)
         IN /\ s.mode = "inclusive" =>
                 /\ Rounded(l.taxable_value, b * 10000, d * (10000 + r))
                 /\ Rounded(l.gst_amount, b * r, d * (10000 + r))
                 /\ Rounded(l.line_total, b, d)
            /\ s.mode = "exclusive" =>
                 /\ Rounded(l.taxable_value, b, d)
                 /\ Rounded(l.gst_amount, b * r, d * 10000)
                 /\ Rounded(l.line_total, b * (10000 + r), d * 10000)
            /\ Rounded(l.discount, Eff(line, s), d)
            /\ l.cgst = (IF s.supply = "inter" THEN 0 ELSE HalfUp(l.gst_amount, 2))
            /\ l.igst = (IF s.supply = "inter" THEN l.gst_amount ELSE 0)
            /\ l.sgst = l.gst_amount - l.cgst - l.igst
<1>1. b \in Nat /\ r \in Nat /\ d \in Nat /\ d > 0 /\ Eff(line, s) \in Nat
  BY DenType, PartsType
<1>2. /\ b * 10000 \in Nat /\ b * r \in Nat /\ b * (10000 + r) \in Nat
      /\ d * (10000 + r) \in Nat /\ d * (10000 + r) > 0 /\ d * 10000 \in Nat /\ d * 10000 > 0
  BY <1>1
<1> DEFINE share == <<GrossOf(line), s.total, s.bill_discount, line.discount, r, s.mode>>
           below(part) == (s.bill_discount > 0 /\ FallsShort(part, share)) = TRUE
           P(part, x) == IF below(part) THEN JustBelow(x[1], x[2]) ELSE HalfUp(x[1], x[2])
           parts == Parts(b, d, r, s.mode)
           l == Line(line, s)
<1>4. /\ l.taxable_value = P("taxable", parts.taxable)
      /\ l.gst_amount = P("gst", parts.gst)
      /\ l.line_total = P("total", parts.total)
      /\ l.discount = P("discount", <<Eff(line, s), d>>)
  BY DEF Line, ComputeLine, Net, Den, Eff
<1>5. /\ l.cgst = (IF s.supply = "inter" THEN 0 ELSE HalfUp(l.gst_amount, 2))
      /\ l.igst = (IF s.supply = "inter" THEN l.gst_amount ELSE 0)
      /\ l.sgst = l.gst_amount - l.cgst - l.igst
  BY DEF Line, ComputeLine
<1>6. ASSUME NEW part, NEW n \in Nat, NEW e \in Nat, e > 0
      PROVE  Rounded(P(part, <<n, e>>), n, e)
  <2>1. Rounded(HalfUp(n, e), n, e) /\ Rounded(JustBelow(n, e), n, e)
    BY <1>6, HalfUpRounds, JustBelowRounds
  <2> QED  BY <2>1
<1>7. s.mode = "inclusive" =>
        /\ parts.taxable = <<b * 10000, d * (10000 + r)>>
        /\ parts.gst = <<b * r, d * (10000 + r)>>
        /\ parts.total = <<b, d>>
  BY DEF Parts
<1>8. s.mode = "exclusive" =>
        /\ parts.taxable = <<b, d>>
        /\ parts.gst = <<b * r, d * 10000>>
        /\ parts.total = <<b * (10000 + r), d * 10000>>
  BY DEF Parts
<1> HIDE DEF P, parts, l
<1>9. s.mode = "inclusive" =>
        /\ Rounded(l.taxable_value, b * 10000, d * (10000 + r))
        /\ Rounded(l.gst_amount, b * r, d * (10000 + r))
        /\ Rounded(l.line_total, b, d)
  BY <1>1, <1>2, <1>4, <1>6, <1>7
<1>10. s.mode = "exclusive" =>
        /\ Rounded(l.taxable_value, b, d)
        /\ Rounded(l.gst_amount, b * r, d * 10000)
        /\ Rounded(l.line_total, b * (10000 + r), d * 10000)
  BY <1>1, <1>2, <1>4, <1>6, <1>8
<1>11. Rounded(l.discount, Eff(line, s), d)
  BY <1>1, <1>4, <1>6
<1> QED  BY <1>5, <1>9, <1>10, <1>11 DEF l

\* Two amounts that add up to a third still do, to a paisa, once all three are
\* rounded.
LEMMA RoundedSum ==
  ASSUME NEW n1 \in Nat, NEW n2 \in Nat, NEW d \in Nat, d > 0, NEW x, NEW y, NEW z,
         Rounded(x, n1, d), Rounded(y, n2, d), Rounded(z, n1 + n2, d)
  PROVE  Within(x + y - z, 1)
<1>1. x \in Nat /\ y \in Nat /\ z \in Nat
  BY DEF Rounded
<1>2. d * (x + y - z) = d * x + d * y - d * z /\ d * x \in Nat /\ d * y \in Nat /\ d * z \in Nat
  BY <1>1
<1>3. -(3 * d) <= 2 * (d * (x + y - z)) /\ 2 * (d * (x + y - z)) <= 3 * d
  BY <1>2 DEF Rounded
<1> QED  BY <1>1, <1>3, Cancel

\* The same fraction, written with another denominator.
LEMMA RoundedScaled ==
  ASSUME NEW n \in Nat, NEW d \in Nat, d > 0, NEW k \in Nat, NEW x, Rounded(x, n, d)
  PROVE  Rounded(x, n * k, d * k)
<1>1. x \in Nat
  BY DEF Rounded
<1>2. /\ 0 <= (2 * (d * x) - 2 * n + d) * k
      /\ 0 <= (d - 2 * (d * x) + 2 * n) * k
  <2>1. 2 * (d * x) - 2 * n + d >= 0 /\ d - 2 * (d * x) + 2 * n >= 0 /\ d * x \in Nat
    BY <1>1 DEF Rounded
  <2>2. \A a \in Int : a >= 0 => 0 <= a * k
    OBVIOUS
  <2> QED  BY <2>1, <2>2
<1>3. /\ (2 * (d * x) - 2 * n + d) * k = 2 * ((d * k) * x) - 2 * (n * k) + d * k
      /\ (d - 2 * (d * x) + 2 * n) * k = d * k - 2 * ((d * k) * x) + 2 * (n * k)
  BY <1>1
<1>4. (d * k) * x \in Nat /\ n * k \in Nat /\ d * k \in Nat
  BY <1>1
<1> QED  BY <1>1, <1>2, <1>3, <1>4 DEF Rounded

LEMMA LineReconciles ==
  ASSUME NEW line \in LineInput, NEW s \in Settings
  PROVE  LET l == Line(line, s)
         IN /\ Within(l.taxable_value + l.gst_amount - l.line_total, 1)
            /\ l.cgst + l.sgst + l.igst = l.gst_amount
            /\ l.igst = 0 => l.cgst - l.sgst \in {0, 1}
<1>1. PICK b : b = Net(line, s)
  OBVIOUS
<1>2. PICK d : d = Den(s)
  OBVIOUS
<1>3. PICK r : r = Rate(line, s.charge_gst)
  OBVIOUS
<1>4. PICK l : l = Line(line, s)
  OBVIOUS
<1>5. b \in Nat /\ r \in Nat /\ d \in Nat /\ d > 0
  BY <1>1, <1>2, <1>3, DenType, PartsType
<1>6. /\ s.mode = "inclusive" =>
           /\ Rounded(l.taxable_value, b * 10000, d * (10000 + r))
           /\ Rounded(l.gst_amount, b * r, d * (10000 + r))
           /\ Rounded(l.line_total, b, d)
      /\ s.mode = "exclusive" =>
           /\ Rounded(l.taxable_value, b, d)
           /\ Rounded(l.gst_amount, b * r, d * 10000)
           /\ Rounded(l.line_total, b * (10000 + r), d * 10000)
      /\ l.cgst = (IF s.supply = "inter" THEN 0 ELSE HalfUp(l.gst_amount, 2))
      /\ l.igst = (IF s.supply = "inter" THEN l.gst_amount ELSE 0)
      /\ l.sgst = l.gst_amount - l.cgst - l.igst
  BY <1>1, <1>2, <1>3, <1>4, LineRounds
<1>7. ASSUME s.mode = "inclusive"
      PROVE  Within(l.taxable_value + l.gst_amount - l.line_total, 1) /\ l.gst_amount \in Nat
  <2>1. 10000 + r \in Nat /\ d * (10000 + r) \in Nat /\ d * (10000 + r) > 0 /\ b * 10000 \in Nat /\ b * r \in Nat
    BY <1>5
  <2>2. Rounded(l.line_total, b * (10000 + r), d * (10000 + r))
    <3>1. PICK k \in Nat : k = 10000 + r
      BY <2>1
    <3>2. Rounded(l.line_total, b * k, d * k)
      BY <1>5, <1>6, <1>7, RoundedScaled
    <3> QED  BY <3>1, <3>2
  <2>3. b * (10000 + r) = b * 10000 + b * r
    BY <1>5
  <2>4. l.gst_amount \in Nat
    BY <1>6, <1>7 DEF Rounded
  <2> QED  BY <1>6, <1>7, <2>1, <2>2, <2>3, <2>4, RoundedSum
<1>8. ASSUME s.mode = "exclusive"
      PROVE  Within(l.taxable_value + l.gst_amount - l.line_total, 1) /\ l.gst_amount \in Nat
  <2>1. d * 10000 \in Nat /\ d * 10000 > 0 /\ b * 10000 \in Nat /\ b * r \in Nat /\ 10000 \in Nat
    BY <1>5
  <2>2. Rounded(l.taxable_value, b * 10000, d * 10000)
    BY <1>5, <1>6, <1>8, <2>1, RoundedScaled
  <2>3. b * (10000 + r) = b * 10000 + b * r
    BY <1>5
  <2>4. l.gst_amount \in Nat
    BY <1>6, <1>8 DEF Rounded
  <2> QED  BY <1>6, <1>8, <2>1, <2>2, <2>3, <2>4, RoundedSum
<1>9. Within(l.taxable_value + l.gst_amount - l.line_total, 1) /\ l.gst_amount \in Nat
  BY <1>7, <1>8 DEF Settings, GSTModes
<1>10. Rounded(HalfUp(l.gst_amount, 2), l.gst_amount, 2)
  BY <1>9, HalfUpRounds
<1>11. HalfUp(l.gst_amount, 2) = (2 * l.gst_amount + 2) \div 4
  BY DEF HalfUp
<1>12. l.cgst + l.sgst + l.igst = l.gst_amount /\ (l.igst = 0 => l.cgst - l.sgst \in {0, 1})
  <2>1. PICK g : g = l.gst_amount
    OBVIOUS
  <2>2. PICK h : h = HalfUp(g, 2)
    OBVIOUS
  <2>3. g \in Nat /\ h \in Nat /\ h = (2 * g + 2) \div 4
    BY <1>9, <1>10, <1>11, <2>1, <2>2 DEF Rounded
  <2>4. 2 * h - g \in {0, 1}
    BY <2>3
  <2>5. CASE s.supply = "inter"
    BY <1>6, <2>1, <2>3, <2>5
  <2>6. CASE s.supply # "inter"
    <3>1. l.cgst = h /\ l.igst = 0 /\ l.sgst = g - h - 0
      BY <1>6, <2>1, <2>2, <2>6
    <3> QED  BY <2>1, <2>3, <2>4, <3>1
  <2> QED  BY <2>5, <2>6
<1> QED  BY <1>4, <1>9, <1>12

LEMMA LineDiscount ==
  ASSUME NEW line \in LineInput, NEW s \in Settings
  PROVE  LET l == Line(line, s)
             gross == GrossOf(line)
             net == IF s.mode = "inclusive" THEN l.line_total ELSE l.taxable_value
         IN IF l.discount * Scale < gross
            THEN Within((l.discount + net) * Scale - gross, Scale)
            ELSE net \in {0, 1}
<1>1. PICK b : b = Net(line, s)
  OBVIOUS
<1>2. PICK d : d = Den(s)
  OBVIOUS
<1>3. PICK r : r = Rate(line, s.charge_gst)
  OBVIOUS
<1>4. PICK l : l = Line(line, s)
  OBVIOUS
<1>5. PICK e : e = Eff(line, s)
  OBVIOUS
<1>6. PICK g : g = GrossOf(line)
  OBVIOUS
<1>7. PICK k : k = Shares(s.total)
  OBVIOUS
<1>8. PICK n : n = IF s.mode = "inclusive" THEN l.line_total ELSE l.taxable_value
  OBVIOUS
<1>9. PICK m : m = l.discount
  OBVIOUS
<1>10. PICK c : c = Scale
  OBVIOUS
<1>11. /\ b \in Nat /\ r \in Nat /\ d \in Nat /\ d > 0 /\ e \in Nat /\ g \in Nat
       /\ k \in Nat /\ k > 0 /\ d = c * k /\ c \in Nat /\ c > 0
  BY <1>1, <1>2, <1>3, <1>5, <1>6, <1>7, <1>10, DenType, PartsType, GstAssumption
<1>12. Rounded(n, b, d) /\ Rounded(m, e, d)
  BY <1>1, <1>2, <1>3, <1>4, <1>5, <1>8, <1>9, LineRounds DEF Settings, GSTModes
<1>13. b = IF g * k - e < 0 THEN 0 ELSE g * k - e
  BY <1>1, <1>5, <1>6, <1>7 DEF Net, Base, Eff, Den
<1>14. n \in Nat /\ m \in Nat
  BY <1>12 DEF Rounded
<1>15. CASE m * c < g
  <2>1. PICK x : x = (m + n) * c - g
    OBVIOUS
  <2>2. x \in Int
    BY <1>11, <1>14, <2>1
  <2>3. k * x = d * m + d * n - g * k
    BY <1>11, <1>14, <2>1
  <2>4. d * m \in Nat /\ d * n \in Nat /\ g * k \in Nat
    BY <1>11, <1>14
  <2>5. CASE g * k - e >= 0
    <3>1. -d <= k * x /\ k * x <= d
      BY <1>11, <1>12, <1>13, <2>3, <2>4, <2>5 DEF Rounded
    <3>2. CASE x > c
      <4>1. k * (x - c - 1) >= 0
        BY <1>11, <2>2, <3>2
      <4>2. k * (x - c - 1) = k * x - c * k - k
        BY <1>11, <2>2
      <4> QED  BY <1>11, <3>1, <4>1, <4>2, <2>2
    <3>3. CASE x < -c
      <4>1. k * (-x - c - 1) >= 0
        BY <1>11, <2>2, <3>3
      <4>2. k * (-x - c - 1) = -(k * x) - c * k - k
        BY <1>11, <2>2
      <4> QED  BY <1>11, <3>1, <4>1, <4>2, <2>2
    <3> QED  BY <1>11, <2>2, <3>2, <3>3, <2>1, <1>4, <1>6, <1>8, <1>9, <1>10, <1>15 DEF Within
  <2>6. CASE g * k - e < 0
    <3>1. b = 0
      BY <1>13, <2>6
    <3>2. 2 * (d * n) <= d
      BY <1>11, <1>12, <2>4, <3>1 DEF Rounded
    <3>3. n = 0
      <4>1. CASE n >= 1
        <5>1. d * (n - 1) >= 0 /\ d * (n - 1) = d * n - d
          BY <1>11, <1>14, <4>1
        <5> QED  BY <1>11, <2>4, <3>2, <5>1
      <4> QED  BY <1>14, <4>1
    <3>4. x = m * c - g /\ x < 0
      BY <1>11, <1>14, <1>15, <2>1, <3>3
    <3>5. -d <= k * x
      <4>1. d * n = 0
        BY <1>11, <3>3
      <4>2. 2 * (d * m) >= 2 * e - d
        BY <1>11, <1>12, <2>4 DEF Rounded
      <4> QED  BY <1>11, <2>3, <2>4, <2>6, <4>1, <4>2
    <3>6. x >= -c
      <4>1. CASE x < -c
        <5>1. k * (-x - c - 1) >= 0
          BY <1>11, <2>2, <4>1
        <5>2. k * (-x - c - 1) = -(k * x) - c * k - k
          BY <1>11, <2>2
        <5> QED  BY <1>11, <3>5, <5>1, <5>2, <2>2
      <4> QED  BY <1>11, <2>2, <4>1
    <3>7. Within(x, c)
      BY <1>11, <2>2, <3>4, <3>6 DEF Within
    <3> QED  BY <2>1, <1>4, <1>6, <1>8, <1>9, <1>10, <1>15, <3>7
  <2> QED  BY <1>11, <2>4, <2>5, <2>6
<1>16. CASE ~(m * c < g)
  <2>1. m * c >= g /\ m * c \in Nat
    BY <1>11, <1>14, <1>16
  <2>2. d * m >= g * k /\ d * m \in Nat /\ g * k \in Nat /\ d * n \in Nat
    <3>1. (m * c - g) * k >= 0
      BY <1>11, <2>1
    <3>2. (m * c - g) * k = d * m - g * k
      BY <1>11, <1>14
    <3> QED  BY <1>11, <1>14, <3>1, <3>2
  <2>3. 2 * b <= d
    BY <1>11, <1>12, <1>13, <2>2 DEF Rounded
  <2>4. d * n <= d
    BY <1>11, <1>12, <2>2, <2>3 DEF Rounded
  <2>5. n \in {0, 1}
    <3>1. CASE n >= 2
      <4>1. d * (n - 2) >= 0 /\ d * (n - 2) = d * n - 2 * d
        BY <1>11, <1>14, <3>1
      <4> QED  BY <1>11, <2>2, <2>4, <4>1
    <3> QED  BY <1>14, <3>1
  <2> QED  BY <1>4, <1>6, <1>8, <1>9, <1>10, <1>16, <2>5
<1> QED  BY <1>15, <1>16

\* Nothing costs nothing.
LEMMA LineOfNone ==
  ASSUME NEW line \in LineInput, NEW s \in Settings, line.quantity = 0
  PROVE  Line(line, s).taxable_value = 0 /\ Line(line, s).line_total = 0
<1>1. PICK d : d = Den(s)
  OBVIOUS
<1>2. PICK r : r = Rate(line, s.charge_gst)
  OBVIOUS
<1>3. d \in Nat /\ d > 0 /\ r \in Nat /\ Eff(line, s) \in Nat /\ Shares(s.total) \in Nat
  BY <1>1, <1>2, DenType, PartsType
<1>4. Net(line, s) = 0
  <2>1. line.unit_price \in Nat
    BY DEF LineInput
  <2>2. GrossOf(line) = 0 /\ GrossOf(line) * Shares(s.total) = 0
    BY <1>3, <2>1 DEF GrossOf
  <2> QED  BY <1>1, <1>3, <2>2 DEF Net, Base, Eff, Den
<1>5. \A x, e \in Nat : e > 0 /\ Rounded(x, 0, e) => x = 0
  <2> SUFFICES ASSUME NEW x \in Nat, NEW e \in Nat, e > 0, Rounded(x, 0, e), x > 0 PROVE FALSE
    OBVIOUS
  <2>1. e * (x - 1) >= 0 /\ e * (x - 1) = e * x - e
    OBVIOUS
  <2> QED  BY <2>1 DEF Rounded
<1>6. PICK l : l = Line(line, s)
  OBVIOUS
<1>7. /\ s.mode = "inclusive" =>
           Rounded(l.taxable_value, 0 * 10000, d * (10000 + r)) /\ Rounded(l.line_total, 0, d)
      /\ s.mode = "exclusive" =>
           Rounded(l.taxable_value, 0, d) /\ Rounded(l.line_total, 0 * (10000 + r), d * 10000)
  BY <1>1, <1>2, <1>4, <1>6, LineRounds
<1>8. /\ 0 * 10000 = 0 /\ 0 * (10000 + r) = 0
      /\ d * (10000 + r) \in Nat /\ d * (10000 + r) > 0 /\ d * 10000 \in Nat /\ d * 10000 > 0
  BY <1>3
<1>9. s.mode \in {"inclusive", "exclusive"}
  BY DEF Settings, GSTModes
<1>10. \E e \in Nat : e > 0 /\ Rounded(l.taxable_value, 0, e)
  BY <1>3, <1>7, <1>8, <1>9
<1>11. \E e \in Nat : e > 0 /\ Rounded(l.line_total, 0, e)
  BY <1>3, <1>7, <1>8, <1>9
<1>12. l.taxable_value \in Nat /\ l.line_total \in Nat
  BY <1>10, <1>11 DEF Rounded
<1> QED  BY <1>5, <1>6, <1>10, <1>11, <1>12

-----------------------------------------------------------------------------
(* Bills *)

\* What is true of every line, computed from its input.
LineOK(in, l, mode) ==
  /\ {l.taxable_value, l.gst_amount, l.line_total, l.discount} \subseteq Nat
  /\ {l.cgst, l.sgst, l.igst} \subseteq Int
  /\ Within(l.taxable_value + l.gst_amount - l.line_total, 1)
  /\ l.cgst + l.sgst + l.igst = l.gst_amount
  /\ l.igst = 0 => l.cgst - l.sgst \in {0, 1}
  /\ LET net == IF mode = "inclusive" THEN l.line_total ELSE l.taxable_value
     IN IF l.discount * Scale < GrossOf(in)
        THEN Within((l.discount + net) * Scale - GrossOf(in), Scale)
        ELSE net \in {0, 1}
  /\ in.quantity \in Nat
  /\ in.quantity = 0 => l.taxable_value = 0 /\ l.line_total = 0

\* A bill has a computed line for every input, and its totals are their sums.
Reckoned(b, mode) ==
  /\ \E n \in Nat : DOMAIN b.lines = 1..n /\ DOMAIN b.inputs = 1..n
  /\ \A i \in DOMAIN b.lines : LineOK(b.inputs[i], b.lines[i], mode)
  /\ b.total_cgst = SumFunction([i \in DOMAIN b.lines |-> b.lines[i].cgst])
  /\ b.total_sgst = SumFunction([i \in DOMAIN b.lines |-> b.lines[i].sgst])
  /\ b.total_igst = SumFunction([i \in DOMAIN b.lines |-> b.lines[i].igst])
  /\ b.grand_total = SumFunction([i \in DOMAIN b.lines |-> b.lines[i].line_total])
  /\ b.total_taxable = SumFunction([i \in DOMAIN b.lines |-> b.lines[i].taxable_value])
  /\ b.total_gst = SumFunction([i \in DOMAIN b.lines |-> b.lines[i].gst_amount])

LEMMA LineIsOK ==
  ASSUME NEW line \in LineInput, NEW s \in Settings
  PROVE  LineOK(line, Line(line, s), s.mode)
<1>1. PICK l : l = Line(line, s)
  OBVIOUS
<1>2. PICK b : b = Net(line, s)
  OBVIOUS
<1>3. PICK d : d = Den(s)
  OBVIOUS
<1>4. PICK r : r = Rate(line, s.charge_gst)
  OBVIOUS
<1>5. {l.taxable_value, l.gst_amount, l.line_total, l.discount} \subseteq Nat
  <2>1. /\ s.mode = "inclusive" =>
             /\ Rounded(l.taxable_value, b * 10000, d * (10000 + r))
             /\ Rounded(l.gst_amount, b * r, d * (10000 + r))
             /\ Rounded(l.line_total, b, d)
        /\ s.mode = "exclusive" =>
             /\ Rounded(l.taxable_value, b, d)
             /\ Rounded(l.gst_amount, b * r, d * 10000)
             /\ Rounded(l.line_total, b * (10000 + r), d * 10000)
        /\ Rounded(l.discount, Eff(line, s), d)
    BY <1>1, <1>2, <1>3, <1>4, LineRounds
  <2> QED  BY <2>1 DEF Rounded, Settings, GSTModes
<1>6. {l.cgst, l.sgst, l.igst} \subseteq Int
  <2>1. /\ l.cgst = (IF s.supply = "inter" THEN 0 ELSE HalfUp(l.gst_amount, 2))
        /\ l.igst = (IF s.supply = "inter" THEN l.gst_amount ELSE 0)
        /\ l.sgst = l.gst_amount - l.cgst - l.igst
    BY <1>1, <1>2, <1>3, <1>4, LineRounds
  <2>2. HalfUp(l.gst_amount, 2) \in Nat
    BY <1>5, HalfUpRounds DEF Rounded
  <2> QED  BY <1>5, <2>1, <2>2
<1>7. /\ Within(l.taxable_value + l.gst_amount - l.line_total, 1)
      /\ l.cgst + l.sgst + l.igst = l.gst_amount
      /\ l.igst = 0 => l.cgst - l.sgst \in {0, 1}
  BY <1>1, LineReconciles
<1>8. line.quantity \in Nat /\ (line.quantity = 0 => l.taxable_value = 0 /\ l.line_total = 0)
  BY <1>1, LineOfNone DEF LineInput
<1> QED  BY <1>1, <1>5, <1>6, <1>7, <1>8, LineDiscount DEF LineOK

LEMMA BillReckoned ==
  ASSUME NEW lines \in Seq(LineInput), NEW d \in Nat, NEW m \in GSTModes, NEW p \in Supplies,
         NEW c \in BOOLEAN
  PROVE  Reckoned(ComputeBill(lines, d, m, p, c), m)
<1>1. PICK n \in Nat : DOMAIN lines = 1..n
  OBVIOUS
<1>2. \A i \in 1..n : lines[i] \in LineInput
  BY <1>1
<1>3. TotalGross(lines) \in Nat
  <2> DEFINE f == [i \in DOMAIN lines |-> GrossOf(lines[i])]
  <2>1. \A i \in 1..n : f[i] \in Nat
    BY <1>1, <1>2 DEF GrossOf, LineInput
  <2>2. SumFunction(f) \in Nat
    BY <1>1, <2>1, SumOfIntegers
  <2> QED  BY <2>2 DEF TotalGross, TotalOf
<1>4. PICK t \in Nat : t = TotalGross(lines)
  BY <1>3
<1> DEFINE s == [total |-> t, bill_discount |-> d, mode |-> m, supply |-> p, charge_gst |-> c]
           b == ComputeBill(lines, d, m, p, c)
<1>5. s \in Settings /\ s.mode = m
  BY DEF Settings
<1>6. \A i \in 1..n : LineOK(lines[i], Line(lines[i], s), m)
  BY <1>2, <1>5, LineIsOK
<1>7. b.lines = [i \in DOMAIN lines |-> Line(lines[i], s)] /\ b.inputs = lines
  BY <1>4 DEF ComputeBill, Line
<1>8. /\ b.total_cgst = SumFunction([i \in DOMAIN b.lines |-> b.lines[i].cgst])
      /\ b.total_sgst = SumFunction([i \in DOMAIN b.lines |-> b.lines[i].sgst])
      /\ b.total_igst = SumFunction([i \in DOMAIN b.lines |-> b.lines[i].igst])
      /\ b.grand_total = SumFunction([i \in DOMAIN b.lines |-> b.lines[i].line_total])
      /\ b.total_taxable = SumFunction([i \in DOMAIN b.lines |-> b.lines[i].taxable_value])
      /\ b.total_gst = SumFunction([i \in DOMAIN b.lines |-> b.lines[i].gst_amount])
  BY DEF ComputeBill, TotalOf, Cgst, Sgst, Igst, Payable, Taxable, Tax
<1> HIDE DEF b, s
<1>9. DOMAIN b.lines = 1..n /\ DOMAIN b.inputs = 1..n
  BY <1>1, <1>7
<1>10. \A i \in DOMAIN b.lines : LineOK(b.inputs[i], b.lines[i], m)
  BY <1>1, <1>6, <1>7, <1>9
<1>11. Reckoned(b, m)
  BY <1>8, <1>9, <1>10 DEF Reckoned
<1> QED  BY <1>11 DEF b

LEMMA RatePrinted ==
  ASSUME NEW a \in Nat, NEW q \in Nat, q = 0 => a = 0
  PROVE  Within(2 * (PerUnit(a, q) * q - a * Scale), q)
<1>1. Scale \in Nat /\ a * Scale \in Nat
  BY GstAssumption
<1>2. CASE q = 0
  BY <1>1, <1>2 DEF PerUnit, Within
<1>3. CASE q # 0
  <2>1. PICK x : x = HalfUp(a * Scale, q)
    OBVIOUS
  <2>2. Rounded(x, a * Scale, q)
    BY <1>1, <1>3, <2>1, HalfUpRounds
  <2>3. x \in Nat /\ x * q = q * x /\ q * x \in Nat
    BY <2>2 DEF Rounded
  <2>4. PerUnit(a, q) = x
    BY <1>3, <2>1 DEF PerUnit
  <2> QED  BY <1>1, <2>2, <2>3, <2>4 DEF Rounded, Within
<1> QED  BY <1>2, <1>3

\* Lines that add up to a paisa each make a bill that adds up to a paisa a line.
LEMMA LinesAddUp ==
  ASSUME NEW S, IsFiniteSet(S), NEW n, n = Cardinality(S), NEW t, NEW c, NEW s, NEW g, NEW l,
         \A i \in S : /\ {t[i], c[i], s[i], g[i], l[i]} \subseteq Int
                      /\ Within(t[i] + c[i] + s[i] + g[i] - l[i], 1)
  PROVE  LET Of(f) == SumFunctionOnSet(f, S)
         IN Of(t) \in Int /\ Of(c) \in Int /\ Of(s) \in Int /\ Of(g) \in Int /\ Of(l) \in Int
            /\ Within(Of(t) + Of(c) + Of(s) + Of(g) - Of(l), n)
<1> DEFINE Of(f) == SumFunctionOnSet(f, S)
           u == [i \in S |-> t[i] + c[i]]
           v == [i \in S |-> s[i] + g[i]]
           w == [i \in S |-> u[i] + v[i]]
           h == [i \in S |-> w[i] - l[i]]
           one == [i \in S |-> 1]
           less == [i \in S |-> -1]
<1>1. n \in Nat
  BY FS_CardinalityType
<1>2. \A i \in S : t[i] \in Int /\ c[i] \in Int /\ s[i] \in Int /\ g[i] \in Int /\ l[i] \in Int
  OBVIOUS
<1>3. \A i \in S : /\ u[i] \in Int /\ u[i] = t[i] + c[i]
                   /\ v[i] \in Int /\ v[i] = s[i] + g[i]
                   /\ w[i] \in Int /\ w[i] = u[i] + v[i]
                   /\ h[i] \in Int /\ w[i] = l[i] + h[i]
                   /\ one[i] = 1 /\ less[i] = -1
                   /\ less[i] <= h[i] /\ h[i] <= one[i]
  <2> TAKE i \in S
  <2>1. u[i] = t[i] + c[i] /\ v[i] = s[i] + g[i] /\ w[i] = u[i] + v[i] /\ h[i] = w[i] - l[i]
        /\ one[i] = 1 /\ less[i] = -1
    OBVIOUS
  <2> HIDE DEF u, v, w, h, one, less
  <2> QED  BY <1>2, <2>1 DEF Within
<1> HIDE DEF u, v, w, h, one, less
<1>4. Of(u) = Of(t) + Of(c)
  BY <1>2, <1>3, SumPlus
<1>5. Of(v) = Of(s) + Of(g)
  BY <1>2, <1>3, SumPlus
<1>6. Of(w) = Of(u) + Of(v)
  BY <1>3, SumPlus
<1>7. Of(w) = Of(l) + Of(h)
  BY <1>2, <1>3, SumPlus
<1>8. Of(one) = 1 * n /\ Of(less) = (-1) * n
  BY <1>3, SumConstant
<1>9. Of(h) <= Of(one)
  BY <1>3, SumMonotone
<1>10. Of(less) <= Of(h)
  BY <1>3, SumMonotone
<1>11. Of(t) \in Int /\ Of(c) \in Int /\ Of(s) \in Int /\ Of(g) \in Int /\ Of(l) \in Int
  BY <1>2, SumType
<1>12. Of(h) \in Int
  BY <1>3, SumType
<1> HIDE DEF Of
<1>13. Within(Of(t) + Of(c) + Of(s) + Of(g) - Of(l), n)
  BY <1>4, <1>5, <1>6, <1>7, <1>8, <1>9, <1>10, <1>11, <1>12, <1>1 DEF Within
<1> QED  BY <1>11, <1>13 DEF Of
=============================================================================
