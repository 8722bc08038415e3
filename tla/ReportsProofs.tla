---------------------------- MODULE ReportsProofs ----------------------------
(***************************************************************************)
(* Theorems about the reports.  The statements of one report agree because *)
(* they are sums over the same bills, taken by day, rate or HSN code       *)
(* (SumByKey), of bills that are themselves the sums of their lines        *)
(* (BillReckoned), and because nothing changed between them: an answer of  *)
(* a report that noticed no change is still what its statement would give. *)
(***************************************************************************)
EXTENDS Reports, GstProofs, SequenceTheorems

-----------------------------------------------------------------------------
(* Bills and their lines *)

Goods == [s \in Sales |-> DOMAIN Content[s].goods]

AllLines == LinesOf(Sales)

\* Columns of the tables of bills and of lines.
Grands == [s \in Sales |-> Grand(s)]
Taxables == [s \in Sales |-> TaxableOf(s)]
Gsts == [s \in Sales |-> GstOf(s)]
LineTaxables == [x \in AllLines |-> LineTaxable(x)]
LineCgsts == [x \in AllLines |-> LineCgst(x)]
LineSgsts == [x \in AllLines |-> LineSgst(x)]
LineIgsts == [x \in AllLines |-> LineIgst(x)]
LineGsts == [x \in AllLines |-> LineGst(x)]
LineTotals == [x \in AllLines |-> LineTotal(x)]

LEMMA BillIsReckoned ==
  ASSUME NEW s \in Sales
  PROVE  /\ Reckoned(Bills[s], Content[s].order.gst_mode)
         /\ DOMAIN Bills[s].lines = Goods[s]
<1>1. /\ Content[s].order.lines \in Seq(LineInput)
      /\ Content[s].order.bill_discount \in Nat
      /\ Content[s].order.gst_mode \in GSTModes
      /\ Content[s].order.place_of_supply \in Supplies
      /\ DOMAIN Content[s].goods = DOMAIN Content[s].order.lines
  BY ReportsAssumption DEF Order
<1>2. PICK c \in BOOLEAN : c = (Content[s].billing_type = GST)
  OBVIOUS
<1>3. PICK o : o = Content[s].order
  OBVIOUS
<1>4. PICK b : b = ComputeBill(o.lines, o.bill_discount, o.gst_mode, o.place_of_supply, c)
  OBVIOUS
<1>5. Bills[s] = b
  BY <1>2, <1>3, <1>4 DEF Bills
<1>6. Reckoned(b, o.gst_mode)
  BY <1>1, <1>3, <1>4, BillReckoned
<1>7. DOMAIN b.lines = DOMAIN o.lines
  BY <1>4 DEF ComputeBill
<1> QED  BY <1>1, <1>3, <1>5, <1>6, <1>7 DEF Goods

LEMMA LinesOfIsPairs ==
  ASSUME NEW S, S \subseteq Sales
  PROVE  LinesOf(S) = Pairs(S, Goods)
<1>1. \A s \in S : Goods[s] = DOMAIN Content[s].goods
  BY DEF Goods
<1>2. \A x : x \in LinesOf(S) <=> \E s \in S : \E i \in DOMAIN Content[s].goods : x = <<s, i>>
  BY DEF LinesOf
<1>3. \A x : x \in Pairs(S, Goods) <=> \E s \in S : \E i \in Goods[s] : x = <<s, i>>
  BY DEF Pairs
<1> QED  BY <1>1, <1>2, <1>3

LEMMA LinesInAll ==
  ASSUME NEW S, S \subseteq Sales
  PROVE  /\ LinesOf(S) \subseteq AllLines
         /\ \A x \in LinesOf(S) : \E s \in S : \E i \in Goods[s] : x = <<s, i>>
BY DEF LinesOf, AllLines, Goods

LEMMA LineColumns ==
  ASSUME NEW x \in AllLines
  PROVE  /\ LineTaxables[x] \in Nat /\ LineTotals[x] \in Nat /\ LineGsts[x] \in Nat
         /\ LineCgsts[x] \in Int /\ LineSgsts[x] \in Int /\ LineIgsts[x] \in Int
         /\ LineGsts[x] = LineCgsts[x] + LineSgsts[x] + LineIgsts[x]
         /\ LineGsts[x] = Computed(x).gst_amount
         /\ Within(LineTaxables[x] + LineGsts[x] - LineTotals[x], 1)
<1>1. PICK s \in Sales : \E i \in Goods[s] : x = <<s, i>>
  BY LinesInAll DEF AllLines
<1>2. PICK i \in Goods[s] : x = <<s, i>>
  BY <1>1
<1>3. PICK l : l = Bills[s].lines[i]
  OBVIOUS
<1>4. PICK mode, in : LineOK(in, l, mode)
  BY <1>3, BillIsReckoned DEF Reckoned
<1>5. /\ {l.taxable_value, l.gst_amount, l.line_total, l.discount} \subseteq Nat
      /\ {l.cgst, l.sgst, l.igst} \subseteq Int
      /\ Within(l.taxable_value + l.gst_amount - l.line_total, 1)
      /\ l.cgst + l.sgst + l.igst = l.gst_amount
  BY <1>4 DEF LineOK
<1>6. x[1] = s /\ x[2] = i
  BY <1>2
<1>7. Computed(x) = l
  BY <1>3, <1>6 DEF Computed
<1>8. /\ LineTaxables[x] = l.taxable_value /\ LineTotals[x] = l.line_total
      /\ LineCgsts[x] = l.cgst /\ LineSgsts[x] = l.sgst /\ LineIgsts[x] = l.igst
      /\ LineGsts[x] = l.cgst + l.sgst + l.igst
  BY <1>7 DEF LineTaxables, LineTotals, LineCgsts, LineSgsts, LineIgsts, LineGsts,
              LineTaxable, LineTotal, LineCgst, LineSgst, LineIgst, LineGst
<1> QED  BY <1>5, <1>7, <1>8

LEMMA SalesFinite ==
  ASSUME NEW S, S \subseteq Sales
  PROVE  IsFiniteSet(S) /\ Cardinality(S) \in Nat
<1>1. IsFiniteSet(S)
  BY ReportsAssumption, FS_Subset
<1> QED  BY <1>1, FS_CardinalityType

\* A bill is the sum of its lines.
LEMMA BillIsItsLines ==
  ASSUME NEW s \in Sales
  PROVE  /\ IsFiniteSet(Goods[s])
         /\ \A i \in Goods[s] : /\ <<s, i>> \in AllLines
                                /\ LineTotals[<<s, i>>] \in Nat
                                /\ LineTaxables[<<s, i>>] \in Nat
                                /\ LineGsts[<<s, i>>] \in Nat
         /\ Grands[s] = SumFunctionOnSet([i \in Goods[s] |-> LineTotals[<<s, i>>]], Goods[s])
         /\ Taxables[s] = SumFunctionOnSet([i \in Goods[s] |-> LineTaxables[<<s, i>>]], Goods[s])
         /\ Gsts[s] = SumFunctionOnSet([i \in Goods[s] |-> LineGsts[<<s, i>>]], Goods[s])
         /\ Grands[s] \in Nat /\ Taxables[s] \in Nat /\ Gsts[s] \in Nat
<1>1. PICK b : b = Bills[s]
  OBVIOUS
<1>2. PICK D : D = Goods[s]
  OBVIOUS
<1>3. DOMAIN b.lines = D /\ \E n \in Nat : D = 1..n
  BY <1>1, <1>2, BillIsReckoned DEF Reckoned
<1>4. IsFiniteSet(D)
  BY <1>3, FS_Interval
<1>5. \A i \in D : <<s, i>> \in AllLines
  BY <1>2 DEF AllLines, LinesOf, Goods
<1>6. \A i \in D : /\ LineTotals[<<s, i>>] = b.lines[i].line_total
                   /\ LineTaxables[<<s, i>>] = b.lines[i].taxable_value
                   /\ LineGsts[<<s, i>>] = b.lines[i].gst_amount
  <2> TAKE i \in D
  <2>1. PICK x : x = <<s, i>>
    OBVIOUS
  <2>2. x[1] = s /\ x[2] = i /\ x \in AllLines
    BY <1>5, <2>1
  <2>3. Computed(x) = b.lines[i]
    BY <1>1, <2>2 DEF Computed
  <2>4. LineTotals[x] = Computed(x).line_total /\ LineTaxables[x] = Computed(x).taxable_value
    BY <2>2 DEF LineTotals, LineTotal, LineTaxables, LineTaxable
  <2>5. LineGsts[x] = Computed(x).gst_amount
    BY <2>2, LineColumns
  <2> QED  BY <2>1, <2>3, <2>4, <2>5
<1>7. /\ b.grand_total = SumFunctionOnSet([i \in D |-> b.lines[i].line_total], D)
      /\ b.total_taxable = SumFunctionOnSet([i \in D |-> b.lines[i].taxable_value], D)
      /\ b.total_gst = SumFunctionOnSet([i \in D |-> b.lines[i].gst_amount], D)
  <2>1. /\ b.grand_total = SumFunction([i \in D |-> b.lines[i].line_total])
        /\ b.total_taxable = SumFunction([i \in D |-> b.lines[i].taxable_value])
        /\ b.total_gst = SumFunction([i \in D |-> b.lines[i].gst_amount])
    <3>1. PICK mode : Reckoned(b, mode)
      BY <1>1, BillIsReckoned
    <3>2. /\ b.grand_total = SumFunction([i \in DOMAIN b.lines |-> b.lines[i].line_total])
          /\ b.total_taxable = SumFunction([i \in DOMAIN b.lines |-> b.lines[i].taxable_value])
          /\ b.total_gst = SumFunction([i \in DOMAIN b.lines |-> b.lines[i].gst_amount])
      BY <3>1 DEF Reckoned
    <3>3. DOMAIN b.lines = D
      BY <1>3
    <3> QED  BY ONLY <3>2, <3>3
  <2>2. \A f : DOMAIN f = D => SumFunction(f) = SumFunctionOnSet(f, D)
    BY DEF SumFunction
  <2> QED  BY <2>1, <2>2
<1>8. /\ [i \in D |-> LineTotals[<<s, i>>]] = [i \in D |-> b.lines[i].line_total]
      /\ [i \in D |-> LineTaxables[<<s, i>>]] = [i \in D |-> b.lines[i].taxable_value]
      /\ [i \in D |-> LineGsts[<<s, i>>]] = [i \in D |-> b.lines[i].gst_amount]
  BY <1>6
<1>9. Grands[s] = b.grand_total /\ Taxables[s] = b.total_taxable /\ Gsts[s] = b.total_gst
  BY <1>1 DEF Grands, Taxables, Gsts, Grand, TaxableOf, GstOf
<1>10. \A i \in D : LineTotals[<<s, i>>] \in Nat /\ LineTaxables[<<s, i>>] \in Nat /\ LineGsts[<<s, i>>] \in Nat
  BY <1>5, LineColumns
<1>11. PICK f, g, h : /\ f = [i \in D |-> LineTotals[<<s, i>>]]
                      /\ g = [i \in D |-> LineTaxables[<<s, i>>]]
                      /\ h = [i \in D |-> LineGsts[<<s, i>>]]
  OBVIOUS
<1>12. \A i \in D : f[i] \in Nat /\ g[i] \in Nat /\ h[i] \in Nat
  BY <1>10, <1>11
<1>13. SumFunctionOnSet(f, D) \in Nat /\ SumFunctionOnSet(g, D) \in Nat /\ SumFunctionOnSet(h, D) \in Nat
  BY <1>4, <1>12, SumNat
<1>14. Grands[s] \in Nat /\ Taxables[s] \in Nat /\ Gsts[s] \in Nat
  BY <1>7, <1>8, <1>9, <1>11, <1>13
<1> QED  BY <1>2, <1>4, <1>5, <1>7, <1>8, <1>9, <1>10, <1>14

LEMMA GrandsAreNat == \A s \in Sales : Grands[s] \in Nat
<1> TAKE s \in Sales
<1> QED  BY BillIsItsLines, Zenon

LEMMA BillsAreTheirLines ==
  ASSUME NEW S, S \subseteq Sales
  PROVE  /\ IsFiniteSet(LinesOf(S))
         /\ SumFunctionOnSet(Grands, S) = SumFunctionOnSet(LineTotals, LinesOf(S))
         /\ SumFunctionOnSet(Taxables, S) = SumFunctionOnSet(LineTaxables, LinesOf(S))
         /\ SumFunctionOnSet(Gsts, S) = SumFunctionOnSet(LineGsts, LinesOf(S))
<1>1. /\ SumsOver(LineTotals, S, Goods, Grands)
      /\ SumsOver(LineTaxables, S, Goods, Taxables)
      /\ SumsOver(LineGsts, S, Goods, Gsts)
  <2>1. ASSUME NEW s \in S
        PROVE  /\ IsFiniteSet(Goods[s])
               /\ \A i \in Goods[s] : LineTotals[<<s, i>>] \in Int
                                      /\ LineTaxables[<<s, i>>] \in Int
                                      /\ LineGsts[<<s, i>>] \in Int
               /\ Grands[s] = SumFunctionOnSet([i \in Goods[s] |-> LineTotals[<<s, i>>]], Goods[s])
               /\ Taxables[s] = SumFunctionOnSet([i \in Goods[s] |-> LineTaxables[<<s, i>>]], Goods[s])
               /\ Gsts[s] = SumFunctionOnSet([i \in Goods[s] |-> LineGsts[<<s, i>>]], Goods[s])
    <3>1. s \in Sales
      OBVIOUS
    <3>2. /\ IsFiniteSet(Goods[s])
          /\ Grands[s] = SumFunctionOnSet([i \in Goods[s] |-> LineTotals[<<s, i>>]], Goods[s])
          /\ Taxables[s] = SumFunctionOnSet([i \in Goods[s] |-> LineTaxables[<<s, i>>]], Goods[s])
          /\ Gsts[s] = SumFunctionOnSet([i \in Goods[s] |-> LineGsts[<<s, i>>]], Goods[s])
      BY <3>1, BillIsItsLines, Zenon
    <3>3. \A i \in Goods[s] : /\ LineTotals[<<s, i>>] \in Nat
                              /\ LineTaxables[<<s, i>>] \in Nat
                              /\ LineGsts[<<s, i>>] \in Nat
      BY <3>1, BillIsItsLines, Zenon
    <3> QED  BY <3>2, <3>3
  <2> QED  BY <2>1 DEF SumsOver
<1>2. IsFiniteSet(S) /\ LinesOf(S) = Pairs(S, Goods)
  BY SalesFinite, LinesOfIsPairs
<1>3. IsFiniteSet(Pairs(S, Goods)) /\ SumFunctionOnSet(Grands, S) = SumFunctionOnSet(LineTotals, Pairs(S, Goods))
  BY <1>1, <1>2, SumOfSums
<1>4. SumFunctionOnSet(Taxables, S) = SumFunctionOnSet(LineTaxables, Pairs(S, Goods))
  BY <1>1, <1>2, SumOfSums
<1>5. SumFunctionOnSet(Gsts, S) = SumFunctionOnSet(LineGsts, Pairs(S, Goods))
  BY <1>1, <1>2, SumOfSums
<1> QED  BY <1>2, <1>3, <1>4, <1>5

\* The totals of the statements are sums over the columns.
LEMMA BillTotals ==
  ASSUME NEW S, S \subseteq Sales
  PROVE  /\ Total(S, Grand) = SumFunctionOnSet(Grands, S)
         /\ Total(S, TaxableOf) = SumFunctionOnSet(Taxables, S)
         /\ Total(S, GstOf) = SumFunctionOnSet(Gsts, S)
<1>1. IsFiniteSet(S) /\ \A s \in S : Grands[s] \in Nat /\ Taxables[s] \in Nat /\ Gsts[s] \in Nat
  BY SalesFinite, BillIsItsLines
<1>2. SumFunctionOnSet([s \in S |-> Grand(s)], S) = SumFunctionOnSet(Grands, S)
  <2>1. \A s \in S : [t \in S |-> Grand(t)][s] = Grands[s]
    BY DEF Grands
  <2> QED  BY <1>1, <2>1, SumEqual
<1>3. SumFunctionOnSet([s \in S |-> TaxableOf(s)], S) = SumFunctionOnSet(Taxables, S)
  <2>1. \A s \in S : [t \in S |-> TaxableOf(t)][s] = Taxables[s]
    BY DEF Taxables
  <2> QED  BY <1>1, <2>1, SumEqual
<1>4. SumFunctionOnSet([s \in S |-> GstOf(s)], S) = SumFunctionOnSet(Gsts, S)
  <2>1. \A s \in S : [t \in S |-> GstOf(t)][s] = Gsts[s]
    BY DEF Gsts
  <2> QED  BY <1>1, <2>1, SumEqual
<1> QED  BY <1>2, <1>3, <1>4 DEF Total

LEMMA LineTotalsAre ==
  ASSUME NEW X, X \subseteq AllLines
  PROVE  /\ Total(X, LineTaxable) = SumFunctionOnSet(LineTaxables, X)
         /\ Total(X, LineCgst) = SumFunctionOnSet(LineCgsts, X)
         /\ Total(X, LineSgst) = SumFunctionOnSet(LineSgsts, X)
         /\ Total(X, LineIgst) = SumFunctionOnSet(LineIgsts, X)
         /\ Total(X, LineGst) = SumFunctionOnSet(LineGsts, X)
         /\ Total(X, LineTotal) = SumFunctionOnSet(LineTotals, X)
<1>1. IsFiniteSet(X)
  BY BillsAreTheirLines, FS_Subset DEF AllLines
<1>2. \A x \in X : /\ LineTaxables[x] \in Int /\ LineTotals[x] \in Int /\ LineGsts[x] \in Int
                   /\ LineCgsts[x] \in Int /\ LineSgsts[x] \in Int /\ LineIgsts[x] \in Int
  BY LineColumns
<1>3. SumFunctionOnSet([x \in X |-> LineTaxable(x)], X) = SumFunctionOnSet(LineTaxables, X)
  <2>1. \A x \in X : [y \in X |-> LineTaxable(y)][x] = LineTaxables[x]
    BY DEF LineTaxables
  <2> QED  BY <1>1, <1>2, <2>1, SumEqual
<1>4. SumFunctionOnSet([x \in X |-> LineCgst(x)], X) = SumFunctionOnSet(LineCgsts, X)
  <2>1. \A x \in X : [y \in X |-> LineCgst(y)][x] = LineCgsts[x]
    BY DEF LineCgsts
  <2> QED  BY <1>1, <1>2, <2>1, SumEqual
<1>5. SumFunctionOnSet([x \in X |-> LineSgst(x)], X) = SumFunctionOnSet(LineSgsts, X)
  <2>1. \A x \in X : [y \in X |-> LineSgst(y)][x] = LineSgsts[x]
    BY DEF LineSgsts
  <2> QED  BY <1>1, <1>2, <2>1, SumEqual
<1>6. SumFunctionOnSet([x \in X |-> LineIgst(x)], X) = SumFunctionOnSet(LineIgsts, X)
  <2>1. \A x \in X : [y \in X |-> LineIgst(y)][x] = LineIgsts[x]
    BY DEF LineIgsts
  <2> QED  BY <1>1, <1>2, <2>1, SumEqual
<1>7. SumFunctionOnSet([x \in X |-> LineGst(x)], X) = SumFunctionOnSet(LineGsts, X)
  <2>1. \A x \in X : [y \in X |-> LineGst(y)][x] = LineGsts[x]
    BY DEF LineGsts
  <2> QED  BY <1>1, <1>2, <2>1, SumEqual
<1>8. SumFunctionOnSet([x \in X |-> LineTotal(x)], X) = SumFunctionOnSet(LineTotals, X)
  <2>1. \A x \in X : [y \in X |-> LineTotal(y)][x] = LineTotals[x]
    BY DEF LineTotals
  <2> QED  BY <1>1, <1>2, <2>1, SumEqual
<1> QED  BY <1>3, <1>4, <1>5, <1>6, <1>7, <1>8 DEF Total
-----------------------------------------------------------------------------
(* Tables of lines and of days *)

\* A table with a row for every key of the lines X has the sums of all of them.
LEMMA TableAddsUp ==
  ASSUME NEW X, X \subseteq AllLines, NEW f, Integers(f, X), NEW key, NEW K, K = Image(key, X),
         NEW g, DOMAIN g = K, Groups(f, X, key, g, K)
  PROVE  SumFunctionOnSet(f, X) = SumFunction(g)
<1>1. IsFiniteSet(X)
  BY BillsAreTheirLines, FS_Subset DEF AllLines
<1>2. IsFiniteSet(K)
  BY <1>1, ImageFinite
<1>3. KeyedBy(X, key, K)
  BY DEF KeyedBy, Image
<1>4. SumFunctionOnSet(f, X) = SumFunctionOnSet(g, K)
  BY <1>1, <1>2, <1>3, SumByKey
<1> QED  BY <1>4 DEF SumFunction

LEMMA RatesAddUp ==
  ASSUME NEW from, NEW to
  PROVE  LET X == GstLines(from, to)
             table == GstSummary(from, to)
         IN /\ Column(table, LAMBDA row : row.taxable) = SumFunctionOnSet(LineTaxables, X)
            /\ Column(table, LAMBDA row : row.total_gst) = SumFunctionOnSet(LineGsts, X)
<1>1. PICK X, table : X = GstLines(from, to) /\ table = GstSummary(from, to)
  OBVIOUS
<1>2. table = [rate \in {LineRate(x) : x \in X} |->
                 LET L == {x \in X : LineRate(x) = rate}
                 IN [taxable |-> Total(L, LineTaxable), cgst |-> Total(L, LineCgst),
                     sgst |-> Total(L, LineSgst), igst |-> Total(L, LineIgst),
                     total_gst |-> Total(L, LineCgst) + Total(L, LineSgst) + Total(L, LineIgst)]]
  BY <1>1 DEF GstSummary
<1>3. X \subseteq AllLines
  BY <1>1, LinesInAll DEF GstLines, Selected, Saved
<1>4. PICK key : key = [x \in X |-> LineRate(x)]
  OBVIOUS
<1>5. PICK K : K = DOMAIN table
  OBVIOUS
<1>6. K = Image(key, X)
  BY <1>2, <1>4, <1>5 DEF Image
<1>7. PICK g, h : g = [k \in K |-> table[k].taxable] /\ h = [k \in K |-> table[k].total_gst]
  OBVIOUS
<1>8. ASSUME NEW k \in K
      PROVE  /\ g[k] = SumFunctionOnSet(LineTaxables, Group(X, key, k))
             /\ h[k] = SumFunctionOnSet(LineGsts, Group(X, key, k))
  <2>1. PICK L : L = {x \in X : LineRate(x) = k}
    OBVIOUS
  <2>2. L = Group(X, key, k) /\ L \subseteq AllLines
    BY <1>3, <1>4, <2>1 DEF Group
  <2>3. /\ table[k].taxable = Total(L, LineTaxable)
        /\ table[k].total_gst = Total(L, LineCgst) + Total(L, LineSgst) + Total(L, LineIgst)
    BY <1>2, <1>5, <2>1
  <2>4. /\ table[k].taxable = SumFunctionOnSet(LineTaxables, L)
        /\ table[k].total_gst = SumFunctionOnSet(LineCgsts, L) + SumFunctionOnSet(LineSgsts, L)
                                  + SumFunctionOnSet(LineIgsts, L)
    BY <2>2, <2>3, LineTotalsAre
  <2>5. PICK cs : cs = [x \in L |-> LineCgsts[x] + LineSgsts[x]]
    OBVIOUS
  <2>6. IsFiniteSet(L)
    BY <2>2, BillsAreTheirLines, FS_Subset DEF AllLines
  <2>7. \A x \in L : /\ LineCgsts[x] \in Int /\ LineSgsts[x] \in Int /\ LineIgsts[x] \in Int
                     /\ cs[x] \in Int /\ cs[x] = LineCgsts[x] + LineSgsts[x]
                     /\ LineGsts[x] = cs[x] + LineIgsts[x]
    <3> TAKE x \in L
    <3>1. x \in AllLines
      BY <2>2
    <3> QED  BY <2>5, <3>1, LineColumns
  <2>8. SumFunctionOnSet(cs, L) = SumFunctionOnSet(LineCgsts, L) + SumFunctionOnSet(LineSgsts, L)
    BY <2>6, <2>7, SumPlus
  <2>9. SumFunctionOnSet(LineGsts, L) = SumFunctionOnSet(cs, L) + SumFunctionOnSet(LineIgsts, L)
    BY <2>6, <2>7, SumPlus
  <2> QED  BY <1>7, <2>2, <2>4, <2>8, <2>9
<1>9. Groups(LineTaxables, X, key, g, K) /\ Groups(LineGsts, X, key, h, K)
  BY <1>8 DEF Groups
<1>10. Integers(LineTaxables, X) /\ Integers(LineGsts, X)
  BY <1>3, LineColumns DEF Integers
<1>11. DOMAIN g = K /\ DOMAIN h = K
  BY <1>7
<1>12. SumFunctionOnSet(LineTaxables, X) = SumFunction(g)
  BY <1>3, <1>6, <1>9, <1>10, <1>11, TableAddsUp
<1>13. SumFunctionOnSet(LineGsts, X) = SumFunction(h)
  BY <1>3, <1>6, <1>9, <1>10, <1>11, TableAddsUp
<1> QED  BY <1>1, <1>5, <1>7, <1>12, <1>13 DEF Column

LEMMA CodesAddUp ==
  ASSUME NEW from, NEW to
  PROVE  LET X == GstLines(from, to)
             table == HsnSummary(from, to)
         IN /\ Column(table, LAMBDA row : row.taxable) = SumFunctionOnSet(LineTaxables, X)
            /\ Column(table, LAMBDA row : row.gst) = SumFunctionOnSet(LineGsts, X)
<1>1. PICK X, table : X = GstLines(from, to) /\ table = HsnSummary(from, to)
  OBVIOUS
<1>2. table = [hsn \in {Good(x).hsn : x \in X} |->
                 LET L == {x \in X : Good(x).hsn = hsn}
                 IN [quantity |-> Total(L, LineQuantity), taxable |-> Total(L, LineTaxable),
                     gst |-> Total(L, LineGst)]]
  BY <1>1 DEF HsnSummary
<1>3. X \subseteq AllLines
  BY <1>1, LinesInAll DEF GstLines, Selected, Saved
<1>4. PICK key : key = [x \in X |-> Good(x).hsn]
  OBVIOUS
<1>5. PICK K : K = DOMAIN table
  OBVIOUS
<1>6. K = Image(key, X)
  BY <1>2, <1>4, <1>5 DEF Image
<1>7. PICK g, h : g = [k \in K |-> table[k].taxable] /\ h = [k \in K |-> table[k].gst]
  OBVIOUS
<1>8. ASSUME NEW k \in K
      PROVE  /\ g[k] = SumFunctionOnSet(LineTaxables, Group(X, key, k))
             /\ h[k] = SumFunctionOnSet(LineGsts, Group(X, key, k))
  <2>1. PICK L : L = {x \in X : Good(x).hsn = k}
    OBVIOUS
  <2>2. L = Group(X, key, k) /\ L \subseteq AllLines
    BY <1>3, <1>4, <2>1 DEF Group
  <2>3. table[k].taxable = Total(L, LineTaxable) /\ table[k].gst = Total(L, LineGst)
    BY <1>2, <1>5, <2>1
  <2> QED  BY <1>7, <2>2, <2>3, LineTotalsAre
<1>9. Groups(LineTaxables, X, key, g, K) /\ Groups(LineGsts, X, key, h, K)
  BY <1>8 DEF Groups
<1>10. Integers(LineTaxables, X) /\ Integers(LineGsts, X)
  BY <1>3, LineColumns DEF Integers
<1>11. DOMAIN g = K /\ DOMAIN h = K
  BY <1>7
<1>12. SumFunctionOnSet(LineTaxables, X) = SumFunction(g)
  BY <1>3, <1>6, <1>9, <1>10, <1>11, TableAddsUp
<1>13. SumFunctionOnSet(LineGsts, X) = SumFunction(h)
  BY <1>3, <1>6, <1>9, <1>10, <1>11, TableAddsUp
<1> QED  BY <1>1, <1>5, <1>7, <1>12, <1>13 DEF Column
\* What the table of days says of one of them.
BillsOn(table, d) == IF d \in DOMAIN table THEN table[d].bills ELSE 0

OnDay(S, d) == {s \in S : sale[s].day = d}

LEMMA DaysAddUp ==
  ASSUME NEW from, NEW to
  PROVE  LET S == Selected(from, to)
             table == DayRows(from, to)
         IN /\ Column(table, LAMBDA row : row.total) = SumFunctionOnSet(Grands, S)
            /\ Column(table, LAMBDA row : row.bills) = Cardinality(S)
            /\ \A d : BillsOn(table, d) = Cardinality(OnDay(S, d))
<1>1. PICK S, table : S = Selected(from, to) /\ table = DayRows(from, to)
  OBVIOUS
<1>2. PICK key : key = [s \in S |-> sale[s].day]
  OBVIOUS
<1>3. PICK K : K = DOMAIN table
  OBVIOUS
<1>4. K = Image(key, S) /\ S \subseteq Sales
  BY <1>1, <1>2, <1>3 DEF Image, DayRows, Selected, Saved
<1>5. PICK g, h : g = [d \in K |-> table[d].total] /\ h = [d \in K |-> table[d].bills]
  OBVIOUS
<1>6. ASSUME NEW d
      PROVE  OnDay(S, d) = Group(S, key, d)
  BY <1>2 DEF Group, OnDay
<1>7. ASSUME NEW d \in K
      PROVE  /\ table[d].bills = Cardinality(Group(S, key, d))
             /\ table[d].total = SumFunctionOnSet(Grands, Group(S, key, d))
  <2>1. PICK D : D = OnDay(S, d)
    OBVIOUS
  <2>2. D = Group(S, key, d) /\ D \subseteq Sales
    BY <1>4, <1>6, <2>1 DEF OnDay
  <2>3. table[d].bills = Cardinality(D) /\ table[d].total = Total(D, Grand)
    BY <1>1, <1>3, <2>1 DEF DayRows, OnDay
  <2> QED  BY <2>2, <2>3, BillTotals
<1>8. Groups(Grands, S, key, g, K) /\ Counts(S, key, h, K)
  BY <1>5, <1>7 DEF Groups, Counts
<1>9. IsFiniteSet(S) /\ Integers(Grands, S) /\ KeyedBy(S, key, K)
  <2>1. IsFiniteSet(S)
    BY <1>4, SalesFinite
  <2>2. Integers(Grands, S)
    BY <1>4, GrandsAreNat DEF Integers
  <2>3. KeyedBy(S, key, K)
    BY <1>4 DEF KeyedBy, Image
  <2> QED  BY <2>1, <2>2, <2>3
<1>10. IsFiniteSet(K)
  BY <1>4, <1>9, ImageFinite
<1>11. SumFunctionOnSet(Grands, S) = SumFunctionOnSet(g, K)
  BY <1>8, <1>9, <1>10, SumByKey
<1>12. Cardinality(S) = SumFunctionOnSet(h, K)
  BY <1>8, <1>9, <1>10, CountByKey
<1>13. DOMAIN g = K /\ DOMAIN h = K
  BY <1>5
<1>14. SumFunction(g) = SumFunctionOnSet(Grands, S) /\ SumFunction(h) = Cardinality(S)
  BY <1>11, <1>12, <1>13 DEF SumFunction
<1>15. ASSUME NEW d
       PROVE  BillsOn(table, d) = Cardinality(OnDay(S, d))
  <2>1. CASE d \in K
    BY <1>3, <1>6, <1>7, <2>1 DEF BillsOn
  <2>2. CASE d \notin K
    <3>1. Group(S, key, d) = {}
      BY <1>4, <2>2 DEF Group, Image
    <3> QED  BY <1>3, <1>6, <2>2, <3>1, FS_EmptySet DEF BillsOn
  <2> QED  BY <2>1, <2>2
<1> QED  BY <1>1, <1>3, <1>5, <1>14, <1>15 DEF Column

LEMMA TopAddsUp ==
  ASSUME NEW a, NEW b, NEW limit, NEW table, table \in TopProducts(a, b, limit)
  PROVE  /\ SumFunction([n \in DOMAIN table |-> table[n].amount]) \in Nat
         /\ SumFunction([n \in DOMAIN table |-> table[n].amount]) <= SumFunctionOnSet(Grands, Selected(a, b))
<1>1. PICK S : S = Selected(a, b)
  OBVIOUS
<1>2. PICK X : X = LinesOf(S)
  OBVIOUS
<1>3. S \subseteq Sales /\ X \subseteq AllLines /\ IsFiniteSet(X)
  BY <1>1, <1>2, LinesInAll, BillsAreTheirLines DEF Selected, Saved
<1>4. PICK names : names = {Good(x).product : x \in X}
  OBVIOUS
<1>5. PICK T \in SUBSET names :
        table = [n \in T |-> LET L == {x \in X : Good(x).product = n}
                             IN [quantity |-> Total(L, LineQuantity), amount |-> Total(L, LineTotal)]]
  <2>1. \E T \in SUBSET {Good(x).product : x \in LinesOf(Selected(a, b))} :
          table = [n \in T |-> LET L == {x \in LinesOf(Selected(a, b)) : Good(x).product = n}
                               IN [quantity |-> Total(L, LineQuantity), amount |-> Total(L, LineTotal)]]
    BY DEF TopProducts
  <2> QED  BY <1>1, <1>2, <1>4, <2>1
<1>6. PICK key : key = [x \in X |-> Good(x).product]
  OBVIOUS
<1>7. PICK Y : Y = {x \in X : key[x] \in T}
  OBVIOUS
<1>8. PICK g : g = [n \in T |-> table[n].amount]
  OBVIOUS
<1>9. ASSUME NEW n \in T
      PROVE  g[n] = SumFunctionOnSet(LineTotals, Group(Y, key, n))
  <2>1. PICK L : L = {x \in X : Good(x).product = n}
    OBVIOUS
  <2>2. L = Group(Y, key, n) /\ L \subseteq AllLines
    BY <1>3, <1>6, <1>7, <2>1 DEF Group
  <2>3. table[n].amount = Total(L, LineTotal)
    BY <1>5, <2>1
  <2> QED  BY <1>8, <2>2, <2>3, LineTotalsAre
<1>10. Groups(LineTotals, Y, key, g, T)
  BY <1>9 DEF Groups
<1>11. Y \subseteq X /\ IsFiniteSet(Y) /\ KeyedBy(Y, key, T)
  BY <1>3, <1>7, FS_Subset DEF KeyedBy
<1>12. IsFiniteSet(T)
  <2>1. names = Image(key, X)
    BY <1>4, <1>6 DEF Image
  <2>2. IsFiniteSet(names)
    BY <1>3, <2>1, ImageFinite
  <2> QED  BY <2>2, FS_Subset
<1>13. \A x \in X : LineTotals[x] \in Nat
  BY <1>3, LineColumns
<1>14. Integers(LineTotals, Y)
  BY <1>11, <1>13 DEF Integers
<1>15. SumFunctionOnSet(LineTotals, Y) = SumFunctionOnSet(g, T)
  BY <1>10, <1>11, <1>12, <1>14, SumByKey
<1>16. /\ SumFunctionOnSet(LineTotals, Y) \in Nat
       /\ SumFunctionOnSet(LineTotals, Y) <= SumFunctionOnSet(LineTotals, X)
  BY <1>3, <1>11, <1>13, SumSubset
<1>17. SumFunctionOnSet(LineTotals, X) = SumFunctionOnSet(Grands, S)
  BY <1>2, <1>3, BillsAreTheirLines
<1>18. DOMAIN table = T /\ DOMAIN g = T
  BY <1>5, <1>8
<1>19. SumFunction(g) = SumFunctionOnSet(g, T)
  BY <1>18 DEF SumFunction
<1> QED  BY <1>1, <1>8, <1>15, <1>16, <1>17, <1>18, <1>19

-----------------------------------------------------------------------------
(* Newest first *)

\* No two bills of S have the same created_at.
Distinct(S) ==
  /\ S \subseteq Sales
  /\ \A s \in S : sale[s].at \in Nat
  /\ \A s, t \in S : sale[s].at = sale[t].at => s = t

Newer(s, S) == {t \in S : sale[t].at > sale[s].at}

LEMMA RankIsCount == ASSUME NEW s, NEW S PROVE Rank(s, S) = Cardinality(Newer(s, S))
BY DEF Rank, Newer

LEMMA RankInRange ==
  ASSUME NEW S, Distinct(S), NEW s \in S
  PROVE  Rank(s, S) \in 0..(Cardinality(S) - 1)
<1>1. IsFiniteSet(S) /\ IsFiniteSet(S \ {s}) /\ Cardinality(S) \in Nat
  BY SalesFinite, FS_RemoveElement DEF Distinct
<1>2. Cardinality(S \ {s}) = Cardinality(S) - 1
  BY <1>1, FS_RemoveElement
<1>3. Newer(s, S) \subseteq S \ {s}
  BY DEF Distinct, Newer
<1>4. Cardinality(Newer(s, S)) <= Cardinality(S \ {s}) /\ IsFiniteSet(Newer(s, S))
  BY <1>1, <1>3, FS_Subset
<1>5. Cardinality(Newer(s, S)) \in Nat
  BY <1>4, FS_CardinalityType
<1> QED  BY <1>1, <1>2, <1>4, <1>5, RankIsCount

LEMMA NewerRanksLower ==
  ASSUME NEW S, Distinct(S), NEW s \in S, NEW t \in S, sale[t].at > sale[s].at
  PROVE  Rank(t, S) < Rank(s, S)
<1>1. IsFiniteSet(S)
  BY SalesFinite DEF Distinct
<1>2. PICK A, B : A = Newer(t, S) /\ B = Newer(s, S)
  OBVIOUS
<1>3. A \subseteq B /\ t \in B /\ t \notin A /\ B \subseteq S
  BY <1>2 DEF Distinct, Newer
<1>4. IsFiniteSet(A) /\ IsFiniteSet(B)
  BY <1>1, <1>3, FS_Subset
<1>5. Cardinality(A) \in Nat /\ Cardinality(B) \in Nat
  BY <1>4, FS_CardinalityType
<1>6. Cardinality(A) <= Cardinality(B) /\ (Cardinality(B) = Cardinality(A) => B = A)
  BY <1>3, <1>4, FS_Subset
<1>7. Cardinality(A) < Cardinality(B)
  BY <1>3, <1>5, <1>6
<1> QED  BY <1>2, <1>7, RankIsCount

LEMMA RanksDistinct ==
  ASSUME NEW S, Distinct(S), NEW s \in S, NEW t \in S, Rank(s, S) = Rank(t, S)
  PROVE  s = t
<1>1. Rank(s, S) \in Nat /\ Rank(t, S) \in Nat /\ sale[s].at \in Nat /\ sale[t].at \in Nat
  BY RankInRange DEF Distinct
<1>2. ~(sale[t].at > sale[s].at) /\ ~(sale[s].at > sale[t].at)
  BY <1>1, NewerRanksLower
<1> QED  BY <1>1, <1>2 DEF Distinct

\* The rows of S are S in the order of the ranks.
LEMMA RowsAreRanked ==
  ASSUME NEW S, Distinct(S), NEW rows, rows = NewestFirst(S)
  PROVE  /\ rows \in Seq(S) /\ Len(rows) = Cardinality(S) /\ Cardinality(S) \in Nat
         /\ \A s \in S : Rank(s, S) + 1 \in 1..Len(rows) /\ rows[Rank(s, S) + 1] = s
         /\ Range(rows) = S
<1>1. PICK n \in Nat : n = Cardinality(S)
  BY SalesFinite DEF Distinct
<1>2. IsFiniteSet(S)
  BY SalesFinite DEF Distinct
<1>3. PICK f : f = [s \in S |-> Rank(s, S) + 1]
  OBVIOUS
<1>4. \A s \in S : f[s] \in 1..n /\ Rank(s, S) = f[s] - 1
  BY <1>1, <1>3, RankInRange
<1>5. \A s, t \in S : f[s] = f[t] => s = t
  <2> TAKE s, t \in S
  <2> HAVE f[s] = f[t]
  <2>1. Rank(s, S) = Rank(t, S)
    BY <1>4
  <2> QED  BY <2>1, RanksDistinct
<1>6. f \in Injection(S, 1..n)
  BY <1>3, <1>4, <1>5 DEF Injection, IsInjective
<1>7. IsFiniteSet(1..n) /\ Cardinality(1..n) = n
  BY FS_Interval
<1>8. f \in Surjection(S, 1..n)
  BY <1>1, <1>6, <1>7, FS_Injection
<1>9. \A i \in 1..n : \E s \in S : f[s] = i
  BY <1>8 DEF Surjection
<1>10. rows = [i \in 1..n |-> CHOOSE s \in S : Rank(s, S) = i - 1]
  BY <1>1 DEF NewestFirst
<1>11. \A i \in 1..n : rows[i] \in S /\ Rank(rows[i], S) = i - 1
  <2> TAKE i \in 1..n
  <2>1. \E s \in S : Rank(s, S) = i - 1
    BY <1>4, <1>9
  <2>2. PICK r : r = CHOOSE s \in S : Rank(s, S) = i - 1
    OBVIOUS
  <2>3. r \in S /\ Rank(r, S) = i - 1
    BY <2>1, <2>2
  <2> QED  BY <1>10, <2>2, <2>3
<1>12. rows \in [1..n -> S]
  BY <1>10, <1>11
<1>13. rows \in Seq(S) /\ Len(rows) = n /\ DOMAIN rows = 1..n
  BY <1>12
<1>14. \A s \in S : Rank(s, S) + 1 \in 1..n /\ rows[Rank(s, S) + 1] = s
  <2> TAKE s \in S
  <2>1. PICK i \in 1..n : i = f[s]
    BY <1>4
  <2>2. Rank(s, S) = i - 1
    BY <1>4, <2>1
  <2>3. rows[i] = s
    BY <1>11, <2>2, RanksDistinct
  <2> QED  BY <1>3, <2>1, <2>3
<1>15. Range(rows) = S
  BY <1>11, <1>13, <1>14 DEF Range
<1> QED  BY <1>1, <1>13, <1>14, <1>15
-----------------------------------------------------------------------------
(* The invariant *)

\* Requests that save a bill have each a time of their own.
Time(s) == IF s \in Saved THEN sale[s].at ELSE pending[s].at

Begun == {s \in Sales : pending[s] # None} \cup Saved

SaleRecord == [at : Nat, day : Nat, status : {Active, Void}]

SalesOK ==
  /\ today \in Nat /\ opened \in Nat
  /\ pending = [s \in Sales |-> pending[s]] /\ sale = [s \in Sales |-> sale[s]]
  /\ \A s \in Sales : pending[s] # None => s \notin Saved /\ pending[s].day \in Nat
  /\ \A s \in Saved : sale[s] \in SaleRecord
  /\ \A s \in Begun : Time(s) \in 1..opened
  /\ \A s, t \in Begun : Time(s) = Time(t) => s = t

Shape(rep) ==
  /\ rep = [asked |-> rep.asked, day |-> rep.day, answer |-> rep.answer,
            changed |-> rep.changed, ever |-> rep.ever, always |-> rep.always]
  /\ rep.asked.kind \in {"dashboard", "cashier", "auditor", "pages"}
  /\ rep.day \in Nat
  /\ rep.answer \in Seq(Range(rep.answer))
  /\ rep.changed \in BOOLEAN
  /\ rep.asked.kind # "pages" => Len(rep.answer) <= Len(Statements[rep.asked.kind])

\* As long as a report has noticed no change, every answer is one that its
\* statement could still give.
Fresh(rep) ==
  rep.asked.kind # "pages" /\ ~rep.changed =>
    \A i \in 1..Len(rep.answer) : rep.answer[i] \in Answers(rep, Statements[rep.asked.kind][i])

\* What a report has noticed of the bills.
Noted(rep) ==
  rep.answer # <<>> =>
    /\ rep.always \subseteq Concerned(rep.asked)
    /\ ~rep.changed => rep.always = Concerned(rep.asked)
    /\ rep.asked.kind = "auditor" => Concerned(rep.asked) \subseteq rep.ever /\ rep.ever \subseteq Saved

\* Sorts of bills.
GstSort == {s \in Sales : IsGst(s)}
NonGstSort == {s \in Sales : ~IsGst(s)}
CustomerSort == {s \in Sales : IsGstCustomer(s)}

DueIn(S, asked, sort) == {s \in S \cap sort : sale[s].day \in asked.start..asked.end}

\* A register once it is made, and the GST sales of the combined summary, lie
\* between the bills that were always active and those that ever were.
RegisterBetween(rep, i, sort) ==
  Len(rep.answer) >= i =>
    /\ DueIn(rep.always, rep.asked, sort) \subseteq Range(rep.answer[i].rows)
    /\ Range(rep.answer[i].rows) \subseteq DueIn(rep.ever, rep.asked, sort)

SummaryBetween(rep) ==
  Len(rep.answer) >= 1 =>
    /\ rep.answer[1].total_gst_sales \in Int
    /\ SumFunctionOnSet(Grands, DueIn(rep.always, rep.asked, GstSort)) <= rep.answer[1].total_gst_sales
    /\ rep.answer[1].total_gst_sales <= SumFunctionOnSet(Grands, DueIn(rep.ever, rep.asked, GstSort))

Between(rep) ==
  rep.asked.kind = "auditor" =>
    /\ SummaryBetween(rep)
    /\ RegisterBetween(rep, 2, GstSort)
    /\ RegisterBetween(rep, 4, CustomerSort)
    /\ RegisterBetween(rep, 6, NonGstSort)

SeenIn(rep) == UNION {Range(page) : page \in Range(rep.answer)}

\* The pages read so far hold the newest bills of those that were there; new
\* bills only push them further down.
PagesOK(rep) ==
  Unfiltered(rep.asked) /\ rep.answer # <<>> =>
    /\ \A s \in rep.always :
         Rank(s, Concerned(rep.asked)) < Len(rep.answer) * PageLimit => s \in SeenIn(rep)
    /\ Finished(rep) => rep.always \subseteq SeenIn(rep)

ReportOK(rep) == Shape(rep) /\ Fresh(rep) /\ Noted(rep) /\ Between(rep) /\ PagesOK(rep)

ReportsOK ==
  /\ report = [r \in Readers |-> report[r]]
  /\ \A r \in Readers : report[r] # None => ReportOK(report[r])

IInv == SalesOK /\ ReportsOK

\* Bills do not change while reports are read, and reports not by themselves.
Quiet == UNCHANGED <<opened, pending, sale>>

LEMMA SalesQuiet ==
  ASSUME SalesOK, Quiet, today' \in Nat
  PROVE  SalesOK'
BY DEF SalesOK, Quiet, Begun, Saved, Time, SaleRecord

LEMMA SalesOpened ==
  ASSUME SalesOK, NEW s \in Sales, OpenSale(s)
  PROVE  SalesOK'
<1>1. /\ pending[s] = None /\ s \notin Saved
      /\ opened' = opened + 1 /\ today' = today /\ sale' = sale
      /\ pending' = [pending EXCEPT ![s] = [at |-> opened + 1, day |-> today]]
  BY DEF OpenSale, Saved
<1>2. opened \in Nat /\ today \in Nat
  BY DEF SalesOK
<1>3. Saved' = Saved
  BY <1>1 DEF Saved
<1>4. /\ pending' = [t \in Sales |-> pending'[t]]
      /\ pending'[s] = [at |-> opened + 1, day |-> today]
      /\ \A t \in Sales : t # s => pending'[t] = pending[t]
  BY <1>1 DEF SalesOK
<1>5. Begun' \subseteq Begun \cup {s} /\ s \notin Begun
  BY <1>1, <1>3, <1>4 DEF Begun
<1>6. Time(s)' = opened + 1 /\ \A t \in Begun : Time(t)' = Time(t)
  BY <1>1, <1>3, <1>4, <1>5 DEF Time, Begun, Saved
<1>7. \A t \in Begun : Time(t) \in 1..opened
  BY DEF SalesOK
<1>8. \A t \in Begun' : Time(t)' \in 1..opened'
  BY <1>1, <1>2, <1>5, <1>6, <1>7
<1>9. \A t, u \in Begun' : Time(t)' = Time(u)' => t = u
  <2> TAKE t, u \in Begun'
  <2> HAVE Time(t)' = Time(u)'
  <2>1. CASE t = s \/ u = s
    BY <1>2, <1>5, <1>6, <1>7, <2>1
  <2>2. CASE t # s /\ u # s
    <3>1. t \in Begun /\ u \in Begun
      BY <1>5, <2>2
    <3> QED  BY <1>6, <3>1 DEF SalesOK
  <2> QED  BY <2>1, <2>2
<1>10. \A t \in Sales : pending'[t] # None => t \notin Saved' /\ pending'[t].day \in Nat
  BY <1>1, <1>2, <1>3, <1>4 DEF SalesOK
<1>11. /\ today' \in Nat /\ opened' \in Nat /\ sale' = [t \in Sales |-> sale'[t]]
       /\ \A t \in Saved' : sale'[t] \in SaleRecord
  BY <1>1, <1>2, <1>3 DEF SalesOK
<1> QED  BY <1>4, <1>8, <1>9, <1>10, <1>11 DEF SalesOK, SaleRecord

LEMMA RecordIsNotNone == \A x \in SaleRecord : x # None
BY ReportsAssumption DEF SaleRecord

LEMMA SalesCommitted ==
  ASSUME SalesOK, NEW s \in Sales, CommitSale(s)
  PROVE  SalesOK' /\ Saved' = Saved \cup {s} /\ s \notin Saved /\ sale'[s].status = Active
         /\ \A t \in Saved : sale'[t] = sale[t]
<1>1. /\ pending[s] # None /\ today' = today /\ opened' = opened
      /\ sale' = [sale EXCEPT ![s] = [at |-> pending[s].at, day |-> pending[s].day, status |-> Active]]
      /\ pending' = [pending EXCEPT ![s] = None]
  BY DEF CommitSale
<1>2. s \in Begun /\ s \notin Saved /\ pending[s].day \in Nat
  BY <1>1 DEF SalesOK, Begun
<1>3. pending[s].at \in 1..opened /\ Time(s) = pending[s].at /\ opened \in Nat
  BY <1>2 DEF SalesOK, Time
<1>4. /\ pending' = [t \in Sales |-> pending'[t]] /\ sale' = [t \in Sales |-> sale'[t]]
      /\ pending'[s] = None
      /\ sale'[s] = [at |-> pending[s].at, day |-> pending[s].day, status |-> Active]
      /\ \A t \in Sales : t # s => pending'[t] = pending[t] /\ sale'[t] = sale[t]
  BY <1>1 DEF SalesOK
<1>5. sale'[s] \in SaleRecord /\ sale'[s] # None /\ sale'[s].at = pending[s].at /\ sale'[s].status = Active
  BY <1>2, <1>3, <1>4, RecordIsNotNone DEF SaleRecord
<1>6. Saved' = Saved \cup {s}
  BY <1>4, <1>5 DEF Saved
<1>7. Begun' = Begun
  BY <1>2, <1>4, <1>6 DEF Begun
<1>8. \A t \in Begun : Time(t)' = Time(t)
  BY <1>3, <1>4, <1>5, <1>6 DEF Time, Begun, Saved
<1>9. \A t \in Saved : sale'[t] = sale[t]
  BY <1>2, <1>4 DEF Saved
<1>10. \A t \in Begun' : Time(t)' \in 1..opened'
  BY <1>1, <1>7, <1>8 DEF SalesOK
<1>11. \A t, u \in Begun' : Time(t)' = Time(u)' => t = u
  BY <1>7, <1>8 DEF SalesOK
<1>12. \A t \in Sales : pending'[t] # None => t \notin Saved' /\ pending'[t].day \in Nat
  BY <1>4, <1>6 DEF SalesOK
<1>13. today' \in Nat /\ opened' \in Nat /\ \A t \in Saved' : sale'[t] \in SaleRecord
  BY <1>1, <1>5, <1>6, <1>9 DEF SalesOK
<1>14. SalesOK'
  BY <1>4, <1>10, <1>11, <1>12, <1>13 DEF SalesOK
<1> QED  BY <1>2, <1>5, <1>6, <1>9, <1>14

LEMMA SalesVoided ==
  ASSUME SalesOK, NEW s \in Sales, VoidSale(s)
  PROVE  /\ SalesOK' /\ Saved' = Saved /\ s \in Saved
         /\ sale'[s].at = sale[s].at /\ sale'[s].day = sale[s].day /\ sale'[s].status = Void
         /\ \A t \in Saved : t # s => sale'[t] = sale[t]
<1>1. /\ s \in Saved /\ today' = today /\ opened' = opened /\ pending' = pending
      /\ sale' = [sale EXCEPT ![s].status = Void]
  BY DEF VoidSale
<1>2. sale[s] \in SaleRecord
  BY <1>1 DEF SalesOK
<1>3. /\ sale' = [t \in Sales |-> sale'[t]]
      /\ sale'[s] = [sale[s] EXCEPT !.status = Void]
      /\ \A t \in Sales : t # s => sale'[t] = sale[t]
  BY <1>1 DEF SalesOK
<1>4. /\ sale'[s].at = sale[s].at /\ sale'[s].day = sale[s].day /\ sale'[s].status = Void
      /\ sale'[s] \in SaleRecord /\ sale'[s] # None
  BY <1>2, <1>3, RecordIsNotNone DEF SaleRecord
<1>5. Saved' = Saved
  BY <1>1, <1>3, <1>4 DEF Saved
<1>6. Begun' = Begun
  BY <1>1, <1>5 DEF Begun
<1>7. \A t \in Begun : Time(t)' = Time(t)
  BY <1>1, <1>3, <1>4, <1>5 DEF Time, Begun, Saved
<1>8. \A t \in Begun' : Time(t)' \in 1..opened'
  BY <1>1, <1>6, <1>7 DEF SalesOK
<1>9. \A t, u \in Begun' : Time(t)' = Time(u)' => t = u
  BY <1>6, <1>7 DEF SalesOK
<1>10. \A t \in Sales : pending'[t] # None => t \notin Saved' /\ pending'[t].day \in Nat
  BY <1>1, <1>5 DEF SalesOK
<1>11. /\ today' \in Nat /\ opened' \in Nat /\ pending' = [t \in Sales |-> pending'[t]]
       /\ \A t \in Saved' : sale'[t] \in SaleRecord
  BY <1>1, <1>3, <1>4, <1>5 DEF SalesOK, Saved
<1>12. SalesOK'
  BY <1>3, <1>8, <1>9, <1>10, <1>11 DEF SalesOK
<1> QED  BY <1>1, <1>3, <1>4, <1>5, <1>12 DEF Saved

LEMMA SavedDistinct ==
  ASSUME SalesOK, NEW S, S \subseteq Saved
  PROVE  Distinct(S)
<1>1. \A s \in S : s \in Begun /\ Time(s) = sale[s].at /\ sale[s] \in SaleRecord
  BY DEF SalesOK, Begun, Time
<1>2. \A s \in S : sale[s].at \in Nat
  BY <1>1 DEF SaleRecord
<1> QED  BY <1>1, <1>2 DEF SalesOK, Distinct, Saved
-----------------------------------------------------------------------------
(* What a step does to a report *)

\* Answers are read from the bills and nothing else.
LEMMA SameAnswers ==
  ASSUME sale' = sale, NEW rep, NEW what
  PROVE  Answers(rep, what)' = Answers(rep, what)
BY DEF Answers, FirstOfMonth, LastOfMonth, SalesSummary, DayRows, TopProducts, OwnCount,
       OwnCollection, OwnRecent, Own, GstBillingSummary, GstSalesRegister, HsnSummary,
       GstSummary, NonGstSalesRegister, GstCustomerRegister, RegisterRows, Page, After,
       Matches, GstLines, GstBills, Selected, Saved, Total, NewestFirst, Rank

\* Nor does an answer depend on the earlier ones, but for pages.
LEMMA AnswersAsked ==
  ASSUME NEW rep, NEW rep2, rep2.asked = rep.asked, rep2.day = rep.day, NEW what, what # "page"
  PROVE  Answers(rep2, what) = Answers(rep, what)
BY DEF Answers

LEMMA ReportQuiet ==
  ASSUME sale' = sale, NEW rep, ReportOK(rep)
  PROVE  ReportOK(rep)'
<1>1. Shape(rep)'
  BY DEF ReportOK, Shape, Statements
<1>2. Fresh(rep)'
  BY SameAnswers DEF ReportOK, Fresh, Statements
<1>3. Noted(rep)' /\ Between(rep)' /\ PagesOK(rep)'
  BY DEF ReportOK, Noted, Between, SummaryBetween, RegisterBetween, DueIn, PagesOK, Concerned,
         Matches, Saved, Rank, Finished, SeenIn, Unfiltered, GstSort, NonGstSort, CustomerSort,
         IsGst, IsGstCustomer
<1> QED  BY <1>1, <1>2, <1>3 DEF ReportOK

\* One report changes, or goes.
LEMMA Elsewhere ==
  ASSUME ReportsOK, sale' = sale, NEW r \in Readers, NEW rep, report' = [report EXCEPT ![r] = rep],
         rep = None \/ ReportOK(rep)
  PROVE  ReportsOK'
<1>1. report' = [q \in Readers |-> report'[q]] /\ report'[r] = rep
  BY DEF ReportsOK
<1>2. \A q \in Readers : q # r => report'[q] = report[q]
  BY DEF ReportsOK
<1>3. \A q \in Readers : report'[q] # None => ReportOK(report'[q])
  BY <1>1, <1>2 DEF ReportsOK
<1>4. ASSUME NEW q \in Readers, report'[q] # None
      PROVE  ReportOK(report[q])'
  <2>1. PICK x : x = report'[q]
    OBVIOUS
  <2>2. ReportOK(x)
    BY <1>3, <1>4, <2>1
  <2>3. ReportOK(x)'
    BY <2>2, ReportQuiet
  <2> QED  BY <2>1, <2>3
<1> QED  BY <1>1, <1>4 DEF ReportsOK
\* What a commit or a void does to the bills: appeared are active now, gone are
\* so no more, and a bill keeps its place in time.
Effect(appeared, gone) ==
  /\ \A s \in Saved : s \in Saved' /\ sale'[s].at = sale[s].at /\ sale'[s].day = sale[s].day
  /\ appeared \subseteq Saved'
  /\ \A asked :
       /\ Unfiltered(asked) => Concerned(asked) \subseteq Concerned(asked)'
       /\ Concerned(asked) \ gone \subseteq Concerned(asked)'
       /\ asked.kind # "pages" => Concerned(asked)' \subseteq Concerned(asked) \cup appeared

LEMMA CommitEffect ==
  ASSUME SalesOK, NEW s \in Sales, CommitSale(s)
  PROVE  Effect({s}, {})
<1>1. /\ Saved' = Saved \cup {s} /\ s \notin Saved /\ sale'[s].status = Active
      /\ \A t \in Saved : sale'[t] = sale[t]
  BY SalesCommitted
<1>2. ASSUME NEW asked
      PROVE  /\ Concerned(asked) \subseteq Concerned(asked)'
             /\ asked.kind # "pages" => Concerned(asked)' \subseteq Concerned(asked) \cup {s}
  BY <1>1 DEF Concerned, Matches
<1> QED  BY <1>1, <1>2 DEF Effect

LEMMA VoidEffect ==
  ASSUME SalesOK, NEW s \in Sales, VoidSale(s)
  PROVE  Effect({}, {s})
<1>1. /\ Saved' = Saved /\ s \in Saved
      /\ sale'[s].at = sale[s].at /\ sale'[s].day = sale[s].day /\ sale'[s].status = Void
      /\ \A t \in Saved : t # s => sale'[t] = sale[t]
  BY SalesVoided
<1>2. ASSUME NEW asked
      PROVE  /\ Unfiltered(asked) => Concerned(asked) \subseteq Concerned(asked)'
             /\ Concerned(asked) \ {s} \subseteq Concerned(asked)'
  <2>1. CASE asked.kind = "pages"
    <3>1. Concerned(asked) = {t \in Saved : Matches(t, asked.filter)}
      BY <2>1 DEF Concerned
    <3>2. Concerned(asked)' = {t \in Saved' : Matches(t, asked.filter)'}
      BY <2>1 DEF Concerned
    <3>3. \A t \in Saved : t # s /\ Matches(t, asked.filter) => Matches(t, asked.filter)'
      BY <1>1 DEF Matches
    <3>4. Unfiltered(asked) /\ Matches(s, asked.filter) => Matches(s, asked.filter)'
      BY DEF Matches, Unfiltered
    <3> QED  BY <1>1, <3>1, <3>2, <3>3, <3>4
  <2>2. CASE asked.kind # "pages"
    BY <1>1, <2>2 DEF Concerned, Unfiltered
  <2> QED  BY <2>1, <2>2
<1>3. ASSUME NEW asked, asked.kind # "pages"
      PROVE  Concerned(asked)' \subseteq Concerned(asked)
  <2>1. Void # Active
    BY DEF Void, Active
  <2> QED  BY <1>1, <1>3, <2>1 DEF Concerned
<1> QED  BY <1>1, <1>2, <1>3 DEF Effect

\* How a report that has read something notices it.
Noticing(rep, appeared, gone) ==
  [rep EXCEPT !.changed = TRUE, !.ever = @ \cup appeared,
              !.always = IF Unfiltered(rep.asked) THEN @ ELSE @ \ gone]

LEMMA RanksGrow ==
  ASSUME NEW S, NEW T, IsFiniteSet(T), S \subseteq T, NEW s \in S,
         \A t \in S : sale'[t].at = sale[t].at
  PROVE  Rank(s, S) \in Nat /\ Rank(s, T)' \in Nat /\ Rank(s, S) <= Rank(s, T)'
<1>1. PICK A : A = {t \in S : sale[t].at > sale[s].at}
  OBVIOUS
<1>2. PICK B : B = {t \in T : sale'[t].at > sale'[s].at}
  OBVIOUS
<1>3. A \subseteq B /\ B \subseteq T
  BY <1>1, <1>2
<1>4. IsFiniteSet(B)
  BY <1>3, FS_Subset
<1>5. IsFiniteSet(A) /\ Cardinality(A) <= Cardinality(B)
  BY <1>3, <1>4, FS_Subset
<1>6. Cardinality(A) \in Nat /\ Cardinality(B) \in Nat
  BY <1>4, <1>5, FS_CardinalityType
<1> QED  BY <1>1, <1>2, <1>5, <1>6 DEF Rank

LEMMA DueSum ==
  ASSUME NEW S, NEW T, S \subseteq T, T \subseteq Sales
  PROVE  SumFunctionOnSet(Grands, S) \in Nat /\ SumFunctionOnSet(Grands, T) \in Nat
         /\ SumFunctionOnSet(Grands, S) <= SumFunctionOnSet(Grands, T)
<1>1. IsFiniteSet(T) /\ \A s \in T : Grands[s] \in Nat
  BY SalesFinite, GrandsAreNat
<1> QED  BY <1>1, SumSubset

LEMMA ReportNotices ==
  ASSUME SalesOK, SalesOK', NEW appeared, NEW gone, Effect(appeared, gone),
         NEW rep, ReportOK(rep), ~Finished(rep), rep.answer # <<>>,
         NEW rep2, rep2 = Noticing(rep, appeared, gone)
  PROVE  ReportOK(rep2)'
<1>0. Shape(rep)
  BY DEF ReportOK
<1>1. /\ rep2.asked = rep.asked /\ rep2.day = rep.day /\ rep2.answer = rep.answer
      /\ rep2.changed = TRUE /\ rep2.ever = rep.ever \cup appeared
      /\ rep2.always = (IF Unfiltered(rep.asked) THEN rep.always ELSE rep.always \ gone)
      /\ rep2 = [asked |-> rep2.asked, day |-> rep2.day, answer |-> rep2.answer,
                 changed |-> rep2.changed, ever |-> rep2.ever, always |-> rep2.always]
  BY <1>0 DEF Shape, Noticing
<1>2. Shape(rep2)'
  BY <1>1 DEF ReportOK, Shape, Statements
<1>3. Fresh(rep2)'
  BY <1>1 DEF Fresh
<1>4. PICK asked : asked = rep.asked
  OBVIOUS
<1>5. /\ rep.always \subseteq Concerned(asked)
      /\ asked.kind = "auditor" => Concerned(asked) \subseteq rep.ever /\ rep.ever \subseteq Saved
  BY <1>4 DEF ReportOK, Noted
<1>6. /\ Unfiltered(asked) => Concerned(asked) \subseteq Concerned(asked)'
      /\ Concerned(asked) \ gone \subseteq Concerned(asked)'
      /\ asked.kind # "pages" => Concerned(asked)' \subseteq Concerned(asked) \cup appeared
  BY DEF Effect
<1>7. /\ \A s \in Saved : s \in Saved' /\ sale'[s].at = sale[s].at /\ sale'[s].day = sale[s].day
      /\ appeared \subseteq Saved'
  BY DEF Effect
<1>8. /\ rep2.always \subseteq Concerned(asked)'
      /\ asked.kind = "auditor" => Concerned(asked)' \subseteq rep2.ever /\ rep2.ever \subseteq Saved'
  BY <1>1, <1>4, <1>5, <1>6, <1>7
<1>9. Noted(rep2)'
  BY <1>1, <1>4, <1>8 DEF Noted
<1>10. Between(rep2)'
  <2> SUFFICES ASSUME asked.kind = "auditor"
               PROVE  /\ SummaryBetween(rep2)' /\ RegisterBetween(rep2, 2, GstSort)'
                      /\ RegisterBetween(rep2, 4, CustomerSort)' /\ RegisterBetween(rep2, 6, NonGstSort)'
    BY <1>1, <1>4 DEF Between, GstSort, CustomerSort, NonGstSort, IsGst, IsGstCustomer
  <2>1. /\ SummaryBetween(rep) /\ RegisterBetween(rep, 2, GstSort)
        /\ RegisterBetween(rep, 4, CustomerSort) /\ RegisterBetween(rep, 6, NonGstSort)
    BY <1>4 DEF ReportOK, Between
  <2>2. ASSUME NEW sort
        PROVE  /\ DueIn(rep2.always, asked, sort)' \subseteq DueIn(rep.always, asked, sort)
               /\ DueIn(rep.ever, asked, sort) \subseteq DueIn(rep2.ever, asked, sort)'
    <3>1. rep2.always \subseteq rep.always /\ rep.always \subseteq Saved
      BY <1>1, <1>5 DEF Concerned
    <3>2. rep.ever \subseteq rep2.ever /\ rep.ever \subseteq Saved
      BY <1>1, <1>5
    <3> QED  BY <1>7, <3>1, <3>2 DEF DueIn
  <2>3. ASSUME NEW i, NEW sort, RegisterBetween(rep, i, sort)
        PROVE  RegisterBetween(rep2, i, sort)'
    BY <1>1, <1>4, <2>2, <2>3 DEF RegisterBetween
  <2>4. SummaryBetween(rep2)'
    <3>1. PICK a, b, c, d : /\ a = DueIn(rep2.always, asked, GstSort)'
                            /\ b = DueIn(rep.always, asked, GstSort)
                            /\ c = DueIn(rep.ever, asked, GstSort)
                            /\ d = DueIn(rep2.ever, asked, GstSort)'
      OBVIOUS
    <3>2. a \subseteq b /\ c \subseteq d /\ b \subseteq Sales /\ d \subseteq Sales
      <4>1. GstSort' = GstSort
        BY DEF GstSort, IsGst
      <4>2. a \subseteq b /\ c \subseteq d
        BY <2>2, <3>1, <4>1
      <4> QED  BY <3>1, <4>2 DEF DueIn, GstSort
    <3>3. /\ SumFunctionOnSet(Grands, a) \in Nat /\ SumFunctionOnSet(Grands, b) \in Nat
          /\ SumFunctionOnSet(Grands, a) <= SumFunctionOnSet(Grands, b)
      BY <3>2, DueSum
    <3>4. /\ SumFunctionOnSet(Grands, c) \in Nat /\ SumFunctionOnSet(Grands, d) \in Nat
          /\ SumFunctionOnSet(Grands, c) <= SumFunctionOnSet(Grands, d)
      BY <3>2, DueSum
    <3>5. Len(rep.answer) >= 1 =>
            /\ rep.answer[1].total_gst_sales \in Int
            /\ SumFunctionOnSet(Grands, b) <= rep.answer[1].total_gst_sales
            /\ rep.answer[1].total_gst_sales <= SumFunctionOnSet(Grands, c)
      BY <1>4, <2>1, <3>1 DEF SummaryBetween
    <3>6. Len(rep.answer) >= 1 =>
            /\ rep.answer[1].total_gst_sales \in Int
            /\ SumFunctionOnSet(Grands, a) <= rep.answer[1].total_gst_sales
            /\ rep.answer[1].total_gst_sales <= SumFunctionOnSet(Grands, d)
      BY <3>3, <3>4, <3>5
    <3> QED  BY <1>1, <1>4, <3>1, <3>6 DEF SummaryBetween, Grands, Grand
  <2>5. GstSort' = GstSort /\ CustomerSort' = CustomerSort /\ NonGstSort' = NonGstSort
    BY DEF GstSort, CustomerSort, NonGstSort, IsGst, IsGstCustomer
  <2> QED  BY <2>1, <2>3, <2>4, <2>5
<1>11. PagesOK(rep2)'
  <2>1. Finished(rep2)' = Finished(rep)
    BY <1>1 DEF Finished, Statements
  <2>2. SUFFICES ASSUME Unfiltered(asked)
                 PROVE  \A s \in rep2.always :
                          Rank(s, Concerned(asked))' < Len(rep2.answer) * PageLimit => s \in SeenIn(rep2)
    BY <1>1, <1>4, <2>1 DEF PagesOK, SeenIn, Unfiltered
  <2>3. \A s \in rep.always : Rank(s, Concerned(asked)) < Len(rep.answer) * PageLimit => s \in SeenIn(rep)
    BY <1>4, <2>2 DEF ReportOK, PagesOK
  <2>4. rep2.always = rep.always /\ SeenIn(rep2) = SeenIn(rep)
    BY <1>1, <1>4, <2>2 DEF SeenIn
  <2>5. PICK S, T : S = Concerned(asked) /\ T = Concerned(asked)'
    OBVIOUS
  <2>6. S \subseteq T /\ S \subseteq Saved /\ T \subseteq Sales
    BY <1>6, <2>2, <2>5 DEF Concerned, Saved
  <2>7. IsFiniteSet(T)
    BY <2>6, SalesFinite
  <2>8. \A t \in S : sale'[t].at = sale[t].at
    BY <1>7, <2>6
  <2> TAKE s \in rep2.always
  <2> HAVE Rank(s, Concerned(asked))' < Len(rep2.answer) * PageLimit
  <2>9. s \in S
    BY <1>5, <2>4, <2>5
  <2>10. Rank(s, S) \in Nat /\ Rank(s, T)' \in Nat /\ Rank(s, S) <= Rank(s, T)'
    BY <2>6, <2>7, <2>8, <2>9, RanksGrow
  <2>11. Rank(s, Concerned(asked))' = Rank(s, T)'
    BY <2>5 DEF Rank
  <2>12. Len(rep.answer) * PageLimit \in Nat
    BY ReportsAssumption DEF ReportOK, Shape
  <2> QED  BY <1>1, <2>3, <2>4, <2>5, <2>10, <2>11, <2>12
<1> QED  BY <1>2, <1>3, <1>9, <1>10, <1>11 DEF ReportOK
-----------------------------------------------------------------------------
(* What reading does to a report *)

LEMMA Appended ==
  ASSUME NEW a, a \in Seq(Range(a)), NEW x, NEW b, b = Append(a, x)
  PROVE  /\ Len(a) \in Nat /\ DOMAIN a = 1..Len(a)
         /\ b \in Seq(Range(b)) /\ Len(b) = Len(a) + 1 /\ b # <<>>
         /\ \A i \in 1..Len(a) : b[i] = a[i]
         /\ b[Len(a) + 1] = x
         /\ Range(b) = Range(a) \cup {x}
<1>1. PICK S : S = Range(a) \cup {x}
  OBVIOUS
<1>2. Range(a) \subseteq S /\ x \in S
  BY <1>1
<1>3. a \in Seq(S)
  BY <1>2, SeqMonotonic
<1>4. /\ b \in Seq(S) /\ b # <<>> /\ Len(b) = Len(a) + 1
      /\ \A i \in 1..Len(a) : b[i] = a[i]
      /\ b[Len(a) + 1] = x
  BY <1>2, <1>3, AppendProperties
<1>5. Len(a) \in Nat /\ DOMAIN a = 1..Len(a) /\ DOMAIN b = 1..(Len(a) + 1)
  BY <1>3, <1>4
<1>6. Range(b) = S
  <2>1. \A y \in S : \E i \in DOMAIN b : b[i] = y
    BY <1>1, <1>4, <1>5 DEF Range
  <2>2. \A i \in DOMAIN b : b[i] \in S
    BY <1>4, <1>5
  <2> QED  BY <2>1, <2>2 DEF Range
<1> QED  BY <1>1, <1>4, <1>5, <1>6

LEMMA StatementsAre ==
  /\ Len(Statements["dashboard"]) = 4 /\ Len(Statements["cashier"]) = 3
  /\ Len(Statements["auditor"]) = 6
  /\ \A kind \in {"dashboard", "cashier", "auditor"} :
       \A i \in 1..Len(Statements[kind]) : Statements[kind][i] # "page"
<1>1. PICK a, b, c : /\ a = <<"month", "days", "day", "top_products">>
                     /\ b = <<"count", "collection", "recent">>
                     /\ c = <<"summary", "gst-sales-register", "hsn-summary",
                              "gst-customer-register", "gst-summary", "non-gst-sales-register">>
  OBVIOUS
<1>2. /\ Statements["dashboard"] = a /\ Statements["cashier"] = b /\ Statements["auditor"] = c
  BY <1>1 DEF Statements
<1>3. Len(a) = 4 /\ Len(b) = 3 /\ Len(c) = 6
  BY <1>1
<1>4. \A i \in 1..4 : a[i] # "page"
  BY <1>1
<1>5. \A i \in 1..3 : b[i] # "page"
  BY <1>1
<1>6. \A i \in 1..6 : c[i] # "page"
  BY <1>1
<1> QED  BY <1>2, <1>3, <1>4, <1>5, <1>6

\* Bills that are not void.
ActiveBills == {s \in Saved : sale[s].status = Active}

LEMMA SelectedAreActive ==
  ASSUME SalesOK, NEW a, NEW b
  PROVE  Selected(a, b) = {s \in ActiveBills : sale[s].day \in a..b}
<1>1. \A s \in Saved : sale[s].status \in {Active, Void}
  BY DEF SalesOK, SaleRecord
<1>2. Active # Void
  BY DEF Active, Void
<1> QED  BY <1>1, <1>2 DEF Selected, ActiveBills

LEMMA RowsOfRegister ==
  ASSUME SalesOK, NEW a, NEW b, NEW sort
  PROVE  /\ Range(RegisterRows(a, b, sort)) = Selected(a, b) \cap sort
         /\ Len(RegisterRows(a, b, sort)) = Cardinality(Selected(a, b) \cap sort)
<1>1. PICK S : S = Selected(a, b) \cap sort
  OBVIOUS
<1>2. PICK rows : rows = NewestFirst(S)
  OBVIOUS
<1>3. S \subseteq Saved
  BY <1>1 DEF Selected
<1>4. Distinct(S)
  BY <1>3, SavedDistinct
<1>5. rows = RegisterRows(a, b, sort)
  BY <1>1, <1>2 DEF RegisterRows
<1>6. Range(rows) = S /\ Len(rows) = Cardinality(S)
  BY <1>2, <1>4, RowsAreRanked
<1> QED  BY <1>1, <1>5, <1>6

LEMMA LengthOfRegister ==
  ASSUME SalesOK, NEW a, NEW b, NEW sort
  PROVE  Len(RegisterRows(a, b, sort)) = Cardinality(Selected(a, b) \cap sort)
BY RowsOfRegister

LEMMA RegistersHold ==
  ASSUME SalesOK, NEW asked
  PROVE  LET Due2(sort) == DueIn(ActiveBills, asked, sort)
         IN /\ Range(GstSalesRegister(asked.start, asked.end).rows) = Due2(GstSort)
            /\ Range(GstCustomerRegister(asked.start, asked.end).rows) = Due2(CustomerSort)
            /\ Range(NonGstSalesRegister(asked.start, asked.end).rows) = Due2(NonGstSort)
<1>1. PICK a, b : a = asked.start /\ b = asked.end
  OBVIOUS
<1>2. Selected(a, b) = {s \in ActiveBills : sale[s].day \in a..b}
  BY SelectedAreActive
<1>3. ActiveBills \subseteq Saved /\ Saved \subseteq Sales
  BY DEF ActiveBills, Saved
<1>4. Selected(a, b) \cap GstBills = DueIn(ActiveBills, asked, GstSort)
  BY <1>1, <1>2, <1>3 DEF DueIn, GstBills, GstSort
<1>5. Selected(a, b) \cap {s \in Saved : IsGstCustomer(s)} = DueIn(ActiveBills, asked, CustomerSort)
  BY <1>1, <1>2, <1>3 DEF DueIn, CustomerSort
<1>6. Selected(a, b) \cap (Saved \ GstBills) = DueIn(ActiveBills, asked, NonGstSort)
  BY <1>1, <1>2, <1>3 DEF DueIn, GstBills, NonGstSort
<1>7. /\ GstSalesRegister(a, b).rows = RegisterRows(a, b, GstBills)
      /\ GstCustomerRegister(a, b).rows = RegisterRows(a, b, {s \in Saved : IsGstCustomer(s)})
      /\ NonGstSalesRegister(a, b).rows = RegisterRows(a, b, Saved \ GstBills)
  BY DEF GstSalesRegister, GstCustomerRegister, NonGstSalesRegister
<1>8. Range(RegisterRows(a, b, GstBills)) = Selected(a, b) \cap GstBills
  BY RowsOfRegister, Zenon
<1>9. Range(RegisterRows(a, b, {s \in Saved : IsGstCustomer(s)}))
        = Selected(a, b) \cap {s \in Saved : IsGstCustomer(s)}
  BY RowsOfRegister, Zenon
<1>10. Range(RegisterRows(a, b, Saved \ GstBills)) = Selected(a, b) \cap (Saved \ GstBills)
  BY RowsOfRegister, Zenon
<1> QED  BY <1>1, <1>4, <1>5, <1>6, <1>7, <1>8, <1>9, <1>10

LEMMA SummaryHolds ==
  ASSUME SalesOK, NEW asked
  PROVE  GstBillingSummary(asked.start, asked.end).total_gst_sales
           = SumFunctionOnSet(Grands, DueIn(ActiveBills, asked, GstSort))
<1>1. PICK S : S = {s \in Selected(asked.start, asked.end) : IsGst(s)}
  OBVIOUS
<1>2. S = DueIn(ActiveBills, asked, GstSort) /\ S \subseteq Sales
  BY <1>1, SelectedAreActive DEF DueIn, GstSort, ActiveBills, Saved
<1>3. GstBillingSummary(asked.start, asked.end).total_gst_sales = Total(S, Grand)
  BY <1>1 DEF GstBillingSummary
<1> QED  BY <1>2, <1>3, BillTotals

\* A page holds its ranks, and the last one leaves none below it.
LEMMA PageHolds ==
  ASSUME NEW M, Distinct(M), NEW n \in Nat, NEW page, page = After(NewestFirst(M), n)
  PROVE  /\ \A s \in M : n <= Rank(s, M) /\ Rank(s, M) < n + PageLimit => s \in Range(page)
         /\ Len(page) < PageLimit => \A s \in M : Rank(s, M) < n + PageLimit
<1>1. PICK rows : rows = NewestFirst(M)
  OBVIOUS
<1>2. /\ rows \in Seq(M) /\ Cardinality(M) \in Nat /\ Len(rows) = Cardinality(M)
      /\ \A s \in M : Rank(s, M) + 1 \in 1..Len(rows) /\ rows[Rank(s, M) + 1] = s
  BY <1>1, RowsAreRanked
<1>3. PICK c \in Nat : c = Len(rows)
  BY <1>2
<1>4. PageLimit \in Nat /\ PageLimit > 0
  BY ReportsAssumption
<1>5. PICK k \in Nat : k = IF n + PageLimit < c THEN n + PageLimit ELSE c
  BY <1>4
<1>6. page = SubSeq(rows, n + 1, k)
  BY <1>1, <1>3, <1>5 DEF After
<1>7. k <= c /\ n + 1 \in Int /\ k \in Int
  BY <1>4, <1>5
<1>8. \A i \in (n + 1)..k : rows[i] \in M
  BY <1>2, <1>3, <1>7
<1>9. /\ page \in Seq(M)
      /\ Len(page) = (IF n + 1 <= k THEN k - (n + 1) + 1 ELSE 0)
      /\ \A i \in 1..(k - (n + 1) + 1) : page[i] = rows[n + 1 + i - 1]
  BY <1>6, <1>7, <1>8, SubSeqProperties
<1>10. \A s \in M : Rank(s, M) \in Nat /\ Rank(s, M) < c /\ rows[Rank(s, M) + 1] = s
  <2> TAKE s \in M
  <2>1. Rank(s, M) \in 0..(Cardinality(M) - 1)
    BY RankInRange
  <2> QED  BY <1>2, <1>3, <2>1
<1>11. ASSUME NEW s \in M, n <= Rank(s, M), Rank(s, M) < n + PageLimit
       PROVE  s \in Range(page)
  <2>1. PICK r \in Nat : r = Rank(s, M)
    BY <1>10
  <2>2. r < c /\ rows[r + 1] = s /\ n <= r /\ r < n + PageLimit
    BY <1>10, <1>11, <2>1
  <2>3. r + 1 <= k
    BY <1>4, <1>5, <2>2
  <2>4. r - n + 1 \in 1..(k - (n + 1) + 1) /\ n + 1 + (r - n + 1) - 1 = r + 1
    BY <2>2, <2>3
  <2>5. page[r - n + 1] = s
    BY <1>9, <2>2, <2>4
  <2>6. r - n + 1 \in DOMAIN page
    BY <1>9, <2>2, <2>3
  <2> QED  BY <2>5, <2>6 DEF Range
<1>12. ASSUME Len(page) < PageLimit, NEW s \in M
       PROVE  Rank(s, M) < n + PageLimit
  <2>1. c <= n + PageLimit
    BY <1>4, <1>5, <1>9, <1>12
  <2> QED  BY <1>4, <1>10, <2>1
<1> QED  BY <1>11, <1>12

\* The report after a statement of it has given an answer.
Reading(rep, answer) == [Began(rep) EXCEPT !.answer = Append(@, answer)]

LEMMA ReadShape ==
  ASSUME NEW rep, Shape(rep), ~Finished(rep), NEW answer, NEW rep2, rep2 = Reading(rep, answer)
  PROVE  /\ rep2.asked = rep.asked /\ rep2.day = rep.day /\ rep2.changed = rep.changed
         /\ rep2.answer = Append(rep.answer, answer)
         /\ rep.answer # <<>> => rep2.always = rep.always /\ rep2.ever = rep.ever
         /\ rep.answer = <<>> => /\ rep2.always = Concerned(rep.asked)
                                 /\ rep2.ever = Concerned(rep.asked)
         /\ rep.asked.kind # "pages" => Len(rep.answer) < Len(Statements[rep.asked.kind])
         /\ Shape(rep2)
<1>1. /\ rep2.asked = rep.asked /\ rep2.day = rep.day /\ rep2.changed = rep.changed
      /\ rep2.answer = Append(rep.answer, answer)
      /\ rep.answer # <<>> => rep2.always = rep.always /\ rep2.ever = rep.ever
      /\ rep.answer = <<>> => rep2.always = Concerned(rep.asked) /\ rep2.ever = Concerned(rep.asked)
      /\ rep2 = [asked |-> rep2.asked, day |-> rep2.day, answer |-> rep2.answer,
                 changed |-> rep2.changed, ever |-> rep2.ever, always |-> rep2.always]
  <2>1. rep = [asked |-> rep.asked, day |-> rep.day, answer |-> rep.answer,
               changed |-> rep.changed, ever |-> rep.ever, always |-> rep.always]
    BY DEF Shape
  <2>2. CASE rep.answer # <<>>
    BY <2>1, <2>2 DEF Reading, Began
  <2>3. CASE rep.answer = <<>>
    BY <2>1, <2>3 DEF Reading, Began
  <2> QED  BY <2>2, <2>3
<1>2. PICK a, b : a = rep.answer /\ b = rep2.answer
  OBVIOUS
<1>3. a \in Seq(Range(a)) /\ b = Append(a, answer)
  BY <1>1, <1>2 DEF Shape
<1>4. Len(a) \in Nat /\ b \in Seq(Range(b)) /\ Len(b) = Len(a) + 1
  BY <1>3, Appended
<1>5. ASSUME rep.asked.kind # "pages"
      PROVE  /\ Len(a) < Len(Statements[rep.asked.kind])
             /\ Len(b) <= Len(Statements[rep.asked.kind])
  <2>1. Len(a) <= Len(Statements[rep.asked.kind]) /\ Len(a) # Len(Statements[rep.asked.kind])
    BY <1>2, <1>5 DEF Shape, Finished
  <2>2. Len(Statements[rep.asked.kind]) \in Nat
    BY <1>5, StatementsAre DEF Shape
  <2> QED  BY <1>4, <2>1, <2>2
<1>6. Shape(rep2)
  BY <1>1, <1>2, <1>4, <1>5 DEF Shape
<1> QED  BY <1>1, <1>2, <1>5, <1>6

LEMMA ReadFresh ==
  ASSUME NEW rep, ReportOK(rep), ~Finished(rep), NEW answer \in Answers(rep, Statement(rep)),
         NEW rep2, rep2 = Reading(rep, answer)
  PROVE  Fresh(rep2)
<1>1. Shape(rep) /\ Fresh(rep)
  BY DEF ReportOK
<1>2. /\ rep2.asked = rep.asked /\ rep2.day = rep.day /\ rep2.changed = rep.changed
      /\ rep2.answer = Append(rep.answer, answer)
      /\ rep.asked.kind # "pages" => Len(rep.answer) < Len(Statements[rep.asked.kind])
  BY <1>1, ReadShape
<1>3. SUFFICES ASSUME rep.asked.kind # "pages", ~rep.changed, NEW i \in 1..Len(rep2.answer)
               PROVE  rep2.answer[i] \in Answers(rep2, Statements[rep.asked.kind][i])
  BY <1>2 DEF Fresh
<1>4. PICK a, b : a = rep.answer /\ b = rep2.answer
  OBVIOUS
<1>5. a \in Seq(Range(a)) /\ b = Append(a, answer)
  BY <1>1, <1>2, <1>4 DEF Shape
<1>6. /\ Len(a) \in Nat /\ Len(b) = Len(a) + 1
      /\ \A j \in 1..Len(a) : b[j] = a[j]
      /\ b[Len(a) + 1] = answer
  BY <1>5, Appended
<1>7. PICK what : what = Statements[rep.asked.kind][i]
  OBVIOUS
<1>8. what # "page"
  <2>1. rep.asked.kind \in {"dashboard", "cashier", "auditor"}
    BY <1>1, <1>3 DEF Shape
  <2>2. Len(Statements[rep.asked.kind]) \in Nat
    BY <2>1, StatementsAre
  <2>3. i \in 1..Len(Statements[rep.asked.kind])
    BY <1>2, <1>3, <1>4, <1>6, <2>2
  <2> QED  BY <1>7, <2>1, <2>3, StatementsAre
<1>9. rep2.answer[i] \in Answers(rep, what)
  <2>1. CASE i \in 1..Len(a)
    BY <1>1, <1>3, <1>4, <1>6, <1>7, <2>1 DEF Fresh
  <2>2. CASE i = Len(a) + 1
    BY <1>3, <1>4, <1>6, <1>7, <2>2 DEF Statement
  <2> QED  BY <1>3, <1>4, <1>6, <2>1, <2>2
<1>10. Answers(rep2, what) = Answers(rep, what)
  BY <1>2, <1>8, AnswersAsked
<1> QED  BY <1>7, <1>9, <1>10

LEMMA ReadNoted ==
  ASSUME NEW rep, ReportOK(rep), ~Finished(rep), NEW answer, NEW rep2, rep2 = Reading(rep, answer)
  PROVE  Noted(rep2)
<1>1. Shape(rep) /\ Noted(rep)
  BY DEF ReportOK
<1>2. /\ rep2.asked = rep.asked /\ rep2.changed = rep.changed
      /\ rep.answer # <<>> => rep2.always = rep.always /\ rep2.ever = rep.ever
      /\ rep.answer = <<>> => rep2.always = Concerned(rep.asked) /\ rep2.ever = Concerned(rep.asked)
  BY <1>1, ReadShape
<1>3. Concerned(rep.asked) \subseteq Saved
  BY DEF Concerned
<1>4. CASE rep.answer = <<>>
  BY <1>2, <1>3, <1>4 DEF Noted
<1>5. CASE rep.answer # <<>>
  BY <1>1, <1>2, <1>5 DEF Noted
<1> QED  BY <1>4, <1>5

LEMMA ReadBetween ==
  ASSUME SalesOK, NEW rep, ReportOK(rep), ~Finished(rep),
         NEW answer \in Answers(rep, Statement(rep)), NEW rep2, rep2 = Reading(rep, answer)
  PROVE  Between(rep2)
<1>1. Shape(rep) /\ Between(rep)
  BY DEF ReportOK
<1>2. /\ rep2.asked = rep.asked
      /\ rep2.answer = Append(rep.answer, answer)
      /\ rep.answer # <<>> => rep2.always = rep.always /\ rep2.ever = rep.ever
  BY <1>1, ReadShape
<1>3. SUFFICES ASSUME rep.asked.kind = "auditor"
               PROVE  /\ SummaryBetween(rep2)
                      /\ RegisterBetween(rep2, 2, GstSort)
                      /\ RegisterBetween(rep2, 4, CustomerSort)
                      /\ RegisterBetween(rep2, 6, NonGstSort)
  BY <1>2 DEF Between
<1>4. PICK a, b, asked : a = rep.answer /\ b = rep2.answer /\ asked = rep.asked
  OBVIOUS
<1>5. a \in Seq(Range(a)) /\ b = Append(a, answer)
  BY <1>1, <1>2, <1>4 DEF Shape
<1>6. /\ Len(a) \in Nat /\ Len(b) = Len(a) + 1 /\ b # <<>>
      /\ \A j \in 1..Len(a) : b[j] = a[j]
      /\ b[Len(a) + 1] = answer
  BY <1>5, Appended
<1>7. rep2.always \subseteq ActiveBills /\ ActiveBills \subseteq rep2.ever /\ rep2.ever \subseteq Saved
  <2>1. Noted(rep2)
    BY ReadNoted
  <2>2. Concerned(asked) = ActiveBills
    BY <1>3, <1>4 DEF Concerned, ActiveBills
  <2> QED  BY <1>2, <1>3, <1>4, <1>6, <2>1, <2>2 DEF Noted
<1>8. ASSUME NEW sort
      PROVE  /\ DueIn(rep2.always, asked, sort) \subseteq DueIn(ActiveBills, asked, sort)
             /\ DueIn(ActiveBills, asked, sort) \subseteq DueIn(rep2.ever, asked, sort)
  BY <1>7 DEF DueIn
<1>9. ASSUME Len(a) >= 1
      PROVE  rep2.always = rep.always /\ rep2.ever = rep.ever
  <2>1. a # <<>>
    BY <1>9
  <2> QED  BY <1>2, <1>4, <2>1
<1>10. answer \in Answers(rep, Statements["auditor"][Len(a) + 1])
  BY <1>3, <1>4 DEF Statement
<1>11. SummaryBetween(rep2)
  <2>1. CASE Len(a) >= 1
    <3>1. b[1] = a[1] /\ SummaryBetween(rep)
      BY <1>1, <1>3, <1>6, <2>1 DEF Between
    <3> QED  BY <1>2, <1>4, <1>9, <2>1, <3>1 DEF SummaryBetween
  <2>2. CASE Len(a) = 0
    <3>1. answer = GstBillingSummary(asked.start, asked.end) /\ b[1] = answer
      BY <1>4, <1>6, <1>10, <2>2 DEF Answers, Statements
    <3>2. answer.total_gst_sales = SumFunctionOnSet(Grands, DueIn(ActiveBills, asked, GstSort))
      BY <3>1, SummaryHolds
    <3>3. PICK c, d, e : /\ c = DueIn(rep2.always, asked, GstSort)
                         /\ d = DueIn(ActiveBills, asked, GstSort)
                         /\ e = DueIn(rep2.ever, asked, GstSort)
      OBVIOUS
    <3>4. c \subseteq d /\ d \subseteq e /\ d \subseteq Sales /\ e \subseteq Sales
      BY <1>8, <3>3 DEF DueIn, GstSort
    <3>5. /\ SumFunctionOnSet(Grands, c) <= SumFunctionOnSet(Grands, d)
          /\ SumFunctionOnSet(Grands, d) \in Nat
      BY <3>4, DueSum
    <3>6. SumFunctionOnSet(Grands, d) <= SumFunctionOnSet(Grands, e)
      BY <3>4, DueSum
    <3> QED  BY <1>2, <1>4, <3>1, <3>2, <3>3, <3>5, <3>6 DEF SummaryBetween
  <2> QED  BY <1>6, <2>1, <2>2
<1>12. ASSUME NEW i \in {2, 4, 6}, NEW sort, RegisterBetween(rep, i, sort),
              Len(a) + 1 = i => Range(answer.rows) = DueIn(ActiveBills, asked, sort)
       PROVE  RegisterBetween(rep2, i, sort)
  <2>1. CASE Len(a) >= i
    <3>1. b[i] = a[i] /\ Len(a) >= 1
      BY <1>6, <2>1
    <3> QED  BY <1>2, <1>4, <1>9, <1>12, <2>1, <3>1 DEF RegisterBetween
  <2>2. CASE Len(a) + 1 = i
    <3>1. b[i] = answer
      BY <1>6, <2>2
    <3> QED  BY <1>2, <1>4, <1>8, <1>12, <2>2, <3>1 DEF RegisterBetween
  <2>3. CASE Len(a) + 1 < i
    BY <1>4, <1>6, <2>3 DEF RegisterBetween
  <2> QED  BY <1>6, <2>1, <2>2, <2>3
<1>13. Len(a) = 1 => Range(answer.rows) = DueIn(ActiveBills, asked, GstSort)
  <2> HAVE Len(a) = 1
  <2>1. answer = GstSalesRegister(asked.start, asked.end)
    BY <1>4, <1>10 DEF Answers, Statements
  <2> QED  BY <2>1, RegistersHold
<1>14. Len(a) = 3 => Range(answer.rows) = DueIn(ActiveBills, asked, CustomerSort)
  <2> HAVE Len(a) = 3
  <2>1. answer = GstCustomerRegister(asked.start, asked.end)
    BY <1>4, <1>10 DEF Answers, Statements
  <2> QED  BY <2>1, RegistersHold
<1>15. Len(a) = 5 => Range(answer.rows) = DueIn(ActiveBills, asked, NonGstSort)
  <2> HAVE Len(a) = 5
  <2>1. answer = NonGstSalesRegister(asked.start, asked.end)
    BY <1>4, <1>10 DEF Answers, Statements
  <2> QED  BY <2>1, RegistersHold
<1>16. /\ RegisterBetween(rep, 2, GstSort) /\ RegisterBetween(rep, 4, CustomerSort)
       /\ RegisterBetween(rep, 6, NonGstSort)
  BY <1>1, <1>3 DEF Between
<1>17. RegisterBetween(rep2, 2, GstSort)
  <2>1. Len(a) + 1 = 2 => Range(answer.rows) = DueIn(ActiveBills, asked, GstSort)
    <3> HAVE Len(a) + 1 = 2
    <3>1. PICK n \in Nat : n = Len(a)
      BY <1>6
    <3>2. n = 1
      BY <3>1
    <3> QED  BY <1>13, <3>1, <3>2
  <2> QED  BY <1>12, <1>16, <2>1
<1>18. RegisterBetween(rep2, 4, CustomerSort)
  <2>1. Len(a) + 1 = 4 => Range(answer.rows) = DueIn(ActiveBills, asked, CustomerSort)
    <3> HAVE Len(a) + 1 = 4
    <3>1. PICK n \in Nat : n = Len(a)
      BY <1>6
    <3>2. n = 3
      BY <3>1
    <3> QED  BY <1>14, <3>1, <3>2
  <2> QED  BY <1>12, <1>16, <2>1
<1>19. RegisterBetween(rep2, 6, NonGstSort)
  <2>1. Len(a) + 1 = 6 => Range(answer.rows) = DueIn(ActiveBills, asked, NonGstSort)
    <3> HAVE Len(a) + 1 = 6
    <3>1. PICK n \in Nat : n = Len(a)
      BY <1>6
    <3>2. n = 5
      BY <3>1
    <3> QED  BY <1>15, <3>1, <3>2
  <2> QED  BY <1>12, <1>16, <2>1
<1> QED  BY <1>11, <1>17, <1>18, <1>19

LEMMA ReadPages ==
  ASSUME SalesOK, NEW rep, ReportOK(rep), ~Finished(rep),
         NEW answer \in Answers(rep, Statement(rep)), NEW rep2, rep2 = Reading(rep, answer)
  PROVE  PagesOK(rep2)
<1>1. Shape(rep) /\ PagesOK(rep)
  BY DEF ReportOK
<1>2. rep2.asked = rep.asked /\ rep2.answer = Append(rep.answer, answer)
      /\ (rep.answer # <<>> => rep2.always = rep.always)
  BY <1>1, ReadShape
<1>3. PICK a, b, asked : a = rep.answer /\ b = rep2.answer /\ asked = rep.asked
  OBVIOUS
<1>4. SUFFICES ASSUME Unfiltered(asked)
               PROVE  /\ \A s \in rep2.always :
                           Rank(s, Concerned(asked)) < Len(b) * PageLimit => s \in SeenIn(rep2)
                      /\ Finished(rep2) => rep2.always \subseteq SeenIn(rep2)
  BY <1>2, <1>3 DEF PagesOK
<1>5. a \in Seq(Range(a)) /\ b = Append(a, answer)
  BY <1>1, <1>2, <1>3 DEF Shape
<1>6. /\ Len(a) \in Nat /\ DOMAIN a = 1..Len(a) /\ Len(b) = Len(a) + 1 /\ b # <<>>
      /\ b[Len(a) + 1] = answer
      /\ Range(b) = Range(a) \cup {answer}
  BY <1>5, Appended
<1>7. PageLimit \in Nat /\ PageLimit > 0
  BY ReportsAssumption
<1>8. PICK M : M = Concerned(asked)
  OBVIOUS
<1>9. asked.kind = "pages"
  BY <1>4 DEF Unfiltered
<1>10. M \subseteq Saved /\ Distinct(M)
  <2>1. M \subseteq Saved
    BY <1>8 DEF Concerned
  <2> QED  BY <2>1, SavedDistinct
<1>11. rep2.always \subseteq M
  <2>1. Noted(rep2)
    BY ReadNoted
  <2> QED  BY <1>2, <1>3, <1>6, <1>8, <2>1 DEF Noted
<1>12. PICK n \in Nat : n = Len(a) * PageLimit
  BY <1>6, <1>7
<1>13. answer = After(NewestFirst(M), n)
  <2>1. answer = Page(asked.filter, Len(a) + 1)
    BY <1>3, <1>9 DEF Statement, Answers
  <2>2. M = {s \in Saved : Matches(s, asked.filter)}
    BY <1>8, <1>9 DEF Concerned
  <2>3. (Len(a) + 1 - 1) * PageLimit = n
    BY <1>6, <1>12
  <2> QED  BY <2>1, <2>2, <2>3 DEF Page
<1>14. /\ \A s \in M : n <= Rank(s, M) /\ Rank(s, M) < n + PageLimit => s \in Range(answer)
       /\ Len(answer) < PageLimit => \A s \in M : Rank(s, M) < n + PageLimit
  BY <1>10, <1>13, PageHolds
<1>15. SeenIn(rep2) = SeenIn(rep) \cup Range(answer)
  BY <1>3, <1>6 DEF SeenIn
<1>16. \A s \in M : Rank(s, M) \in Nat
  BY <1>10, RankInRange
<1>17. Len(b) * PageLimit = n + PageLimit
  BY <1>6, <1>7, <1>12
<1>18. ASSUME NEW s \in rep2.always, Rank(s, M) < n + PageLimit
       PROVE  s \in SeenIn(rep2)
  <2>1. CASE n <= Rank(s, M)
    BY <1>11, <1>14, <1>15, <1>18, <2>1
  <2>2. CASE Rank(s, M) < n
    <3>1. a # <<>>
      <4>1. Rank(s, M) \in Nat
        BY <1>11, <1>16
      <4>2. Len(a) # 0
        BY <1>7, <1>12, <2>2, <4>1
      <4> QED  BY <4>2
    <3>2. s \in rep.always
      BY <1>2, <1>3, <3>1
    <3>3. s \in SeenIn(rep)
      BY <1>1, <1>3, <1>4, <1>8, <1>12, <2>2, <3>1, <3>2 DEF PagesOK
    <3> QED  BY <1>15, <3>3
  <2> QED  BY <1>11, <1>12, <1>16, <2>1, <2>2
<1>19. ASSUME Finished(rep2)
       PROVE  rep2.always \subseteq SeenIn(rep2)
  <2>1. Len(answer) < PageLimit
    BY <1>2, <1>3, <1>6, <1>9, <1>19 DEF Finished
  <2> QED  BY <1>11, <1>14, <1>18, <2>1
<1> QED  BY <1>8, <1>17, <1>18, <1>19

LEMMA ReportReads ==
  ASSUME SalesOK, NEW rep, ReportOK(rep), ~Finished(rep),
         NEW answer \in Answers(rep, Statement(rep)), NEW rep2, rep2 = Reading(rep, answer)
  PROVE  ReportOK(rep2)
<1>1. Shape(rep2)
  BY ReadShape DEF ReportOK
<1>2. Fresh(rep2) /\ Noted(rep2) /\ Between(rep2) /\ PagesOK(rep2)
  BY ReadFresh, ReadNoted, ReadBetween, ReadPages
<1> QED  BY <1>1, <1>2 DEF ReportOK

\* A report that has read nothing yet is right whatever the bills are.
Unread(rep) == Shape(rep) /\ rep.answer = <<>>

LEMMA UnreadIsOK ==
  ASSUME NEW rep, Unread(rep)
  PROVE  ReportOK(rep) /\ ReportOK(rep)'
<1>1. Shape(rep) /\ rep.answer = <<>> /\ Len(rep.answer) = 0
  BY DEF Unread
<1>2. Fresh(rep) /\ Fresh(rep)'
  BY <1>1 DEF Fresh
<1>3. Noted(rep) /\ Noted(rep)'
  BY <1>1 DEF Noted
<1>4. Between(rep) /\ Between(rep)'
  BY <1>1 DEF Between, SummaryBetween, RegisterBetween
<1>5. PagesOK(rep) /\ PagesOK(rep)'
  BY <1>1 DEF PagesOK
<1>6. Shape(rep)'
  BY <1>1 DEF Shape, Statements
<1> QED  BY <1>1, <1>2, <1>3, <1>4, <1>5, <1>6 DEF ReportOK

-----------------------------------------------------------------------------
(* The invariant holds *)

LEMMA InitHolds == Init => IInv
<1> SUFFICES ASSUME Init PROVE IInv
  OBVIOUS
<1>1. /\ today = 1 /\ opened = 0 /\ pending = [s \in Sales |-> None]
      /\ sale = [s \in Sales |-> None] /\ report = [r \in Readers |-> None]
  BY DEF Init
<1>2. Saved = {} /\ Begun = {}
  BY <1>1 DEF Saved, Begun
<1>3. SalesOK
  BY <1>1, <1>2 DEF SalesOK
<1>4. ReportsOK
  BY <1>1 DEF ReportsOK
<1> QED  BY <1>3, <1>4 DEF IInv

\* The bills change under the reports.
LEMMA ReportsNotice ==
  ASSUME IInv, SalesOK', NEW appeared, NEW gone, Effect(appeared, gone), Answered = {},
         Noticed(appeared, gone)
  PROVE  ReportsOK'
<1>0. SalesOK
  BY DEF IInv
<1>1. report' = [r \in Readers |-> report'[r]]
  BY DEF Noticed
<1>2. ASSUME NEW r \in Readers, report'[r] # None
      PROVE  ReportOK(report[r])'
  <2>1. PICK rep : rep = report[r]
    OBVIOUS
  <2>2. PICK rep2 : rep2 = report'[r]
    OBVIOUS
  <2>3. rep2 = IF rep = None \/ rep.answer = <<>> THEN rep ELSE Noticing(rep, appeared, gone)
    BY <2>1, <2>2 DEF Noticed, Noticing
  <2>4. rep # None => ReportOK(rep) /\ ~Finished(rep)
    BY <2>1 DEF IInv, ReportsOK, Answered
  <2>5. CASE rep.answer = <<>>
    <3>1. rep2 = rep /\ ReportOK(rep)
      BY <1>2, <2>2, <2>3, <2>4, <2>5
    <3>2. Unread(rep)
      BY <2>5, <3>1 DEF ReportOK, Unread
    <3>3. ReportOK(rep2)'
      BY <3>1, <3>2, UnreadIsOK
    <3> QED  BY <2>2, <3>3
  <2>6. CASE rep.answer # <<>>
    <3>1. rep # None
      BY <1>2, <2>2, <2>3
    <3>2. rep2 = Noticing(rep, appeared, gone)
      BY <2>3, <2>6, <3>1
    <3>3. ReportOK(rep2)'
      BY <1>0, <2>4, <2>6, <3>1, <3>2, ReportNotices
    <3> QED  BY <2>2, <3>3
  <2> QED  BY <2>5, <2>6
<1> QED  BY <1>1, <1>2 DEF ReportsOK

LEMMA ReportOpened ==
  ASSUME IInv, NEW r \in Readers, NEW asked \in Asked, OpenReport(r, asked)
  PROVE  IInv'
<1>1. PICK rep : rep = [asked |-> asked, day |-> today, answer |-> <<>>,
                        changed |-> FALSE, ever |-> {}, always |-> {}]
  OBVIOUS
<1>2. asked.kind \in {"dashboard", "cashier", "auditor", "pages"}
  BY DEF Asked
<1>3. rep.answer = <<>> /\ rep.answer \in Seq(Range(rep.answer)) /\ Len(rep.answer) = 0
  BY <1>1
<1>4. asked.kind # "pages" => Len(Statements[asked.kind]) \in Nat
  BY <1>2, StatementsAre
<1>5. Shape(rep)
  BY <1>1, <1>2, <1>3, <1>4 DEF Shape, IInv, SalesOK
<1>6. ReportOK(rep)
  BY <1>3, <1>5, UnreadIsOK DEF Unread
<1>7. report' = [report EXCEPT ![r] = rep] /\ Quiet /\ today' = today /\ sale' = sale
  BY <1>1 DEF OpenReport, Quiet
<1>8. ReportsOK'
  BY <1>6, <1>7, Elsewhere DEF IInv
<1>9. SalesOK'
  BY <1>7, SalesQuiet DEF IInv, SalesOK
<1> QED  BY <1>8, <1>9 DEF IInv

LEMMA ReportRead ==
  ASSUME IInv, NEW r \in Readers, Read(r)
  PROVE  IInv'
<1>1. PICK rep : rep = report[r]
  OBVIOUS
<1>2. PICK answer \in Answers(rep, Statement(rep)) :
        report' = [report EXCEPT ![r] = [Began(report[r]) EXCEPT !.answer = Append(@, answer)]]
  BY <1>1 DEF Read
<1>3. PICK rep2 : rep2 = Reading(rep, answer)
  OBVIOUS
<1>4. report' = [report EXCEPT ![r] = rep2]
  BY <1>1, <1>2, <1>3 DEF Reading
<1>5. rep # None /\ ~Finished(rep) /\ Quiet /\ today' = today /\ sale' = sale
  BY <1>1 DEF Read, Quiet
<1>6. ReportOK(rep)
  BY <1>1, <1>5 DEF IInv, ReportsOK
<1>7. ReportOK(rep2)
  BY <1>3, <1>5, <1>6, ReportReads DEF IInv
<1>8. ReportsOK'
  BY <1>4, <1>5, <1>7, Elsewhere DEF IInv
<1>9. SalesOK'
  BY <1>5, SalesQuiet DEF IInv, SalesOK
<1> QED  BY <1>8, <1>9 DEF IInv

LEMMA NextHolds == IInv /\ [Next]_vars => IInv'
<1> SUFFICES ASSUME IInv, [Next]_vars PROVE IInv'
  OBVIOUS
<1>1. SalesOK /\ ReportsOK /\ today \in Nat
  BY DEF IInv, SalesOK
<1>2. ASSUME sale' = sale, report' = report PROVE ReportsOK'
  <2>1. ASSUME NEW r \in Readers, report[r] # None
        PROVE  ReportOK(report[r])'
    <3>1. PICK x : x = report[r]
      OBVIOUS
    <3>2. ReportOK(x)
      BY <1>1, <2>1, <3>1 DEF ReportsOK
    <3>3. ReportOK(x)'
      BY <1>2, <3>2, ReportQuiet
    <3>4. x = report'[r]
      BY <1>2, <3>1
    <3> QED  BY <3>3, <3>4
  <2> QED  BY <1>1, <1>2, <2>1 DEF ReportsOK
<1>3. ASSUME NEW r \in Readers, Deliver(r)
      PROVE  IInv'
  <2>1. /\ report' = [report EXCEPT ![r] = None] /\ Quiet /\ today' = today /\ sale' = sale
    BY <1>3 DEF Deliver, Quiet
  <2>2. ReportsOK'
    BY <1>1, <2>1, Elsewhere
  <2>3. SalesOK'
    BY <1>1, <2>1, SalesQuiet
  <2> QED  BY <2>2, <2>3 DEF IInv
<1>4. ASSUME NEW s \in Sales, OpenSale(s)
      PROVE  IInv'
  <2>1. sale' = sale /\ report' = report
    BY <1>4 DEF OpenSale
  <2> QED  BY <1>1, <1>2, <1>4, <2>1, SalesOpened DEF IInv
<1>5. ASSUME NEW s \in Sales, CommitSale(s), Answered = {}
      PROVE  IInv'
  <2>1. SalesOK'
    BY <1>1, <1>5, SalesCommitted
  <2>2. Effect({s}, {}) /\ Noticed({s}, {})
    BY <1>1, <1>5, CommitEffect DEF CommitSale
  <2>3. ReportsOK'
    BY <1>5, <2>1, <2>2, ReportsNotice
  <2> QED  BY <2>1, <2>3 DEF IInv
<1>6. ASSUME NEW s \in Sales, VoidSale(s), Answered = {}
      PROVE  IInv'
  <2>1. SalesOK'
    BY <1>1, <1>6, SalesVoided
  <2>2. Effect({}, {s}) /\ Noticed({}, {s})
    BY <1>1, <1>6, VoidEffect DEF VoidSale
  <2>3. ReportsOK'
    BY <1>6, <2>1, <2>2, ReportsNotice
  <2> QED  BY <2>1, <2>3 DEF IInv
<1>7. ASSUME Midnight
      PROVE  IInv'
  <2>1. Quiet /\ sale' = sale /\ report' = report /\ today' \in Nat
    BY <1>1, <1>7 DEF Midnight, Quiet
  <2> QED  BY <1>1, <1>2, <2>1, SalesQuiet DEF IInv
<1>8. ASSUME UNCHANGED vars
      PROVE  IInv'
  <2>1. Quiet /\ sale' = sale /\ report' = report /\ today' \in Nat
    BY <1>1, <1>8 DEF vars, Quiet
  <2> QED  BY <1>1, <1>2, <2>1, SalesQuiet DEF IInv
<1> QED  BY <1>3, <1>4, <1>5, <1>6, <1>7, <1>8, ReportOpened, ReportRead
         DEF Next, SaleStep, ReadStep

\* Bills have times of their own and keep them, and what a report has read so
\* far is right.
THEOREM SpecInvariant == Spec => []IInv
<1>1. Init => IInv
  BY InitHolds
<1>2. IInv /\ [Next]_vars => IInv'
  BY NextHolds
<1> QED  BY <1>1, <1>2, PTL DEF Spec

-----------------------------------------------------------------------------
(* What statements say of the same bills *)

\* The day of a dashboard is in its month.
LEMMA DayInMonth ==
  ASSUME NEW day \in Nat
  PROVE  /\ FirstOfMonth(day) \in Int /\ LastOfMonth(day) \in Int
         /\ FirstOfMonth(day) <= day /\ day <= LastOfMonth(day)
<1>1. MonthDays \in Nat /\ MonthDays > 0
  BY ReportsAssumption
<1>2. PICK m \in 0..(MonthDays - 1) : m = (day - 1) % MonthDays
  BY <1>1
<1> QED  BY <1>1, <1>2 DEF FirstOfMonth, LastOfMonth

LEMMA DashboardAgrees ==
  ASSUME SalesOK, NEW day \in Nat, NEW from, from = FirstOfMonth(day), NEW to, to = LastOfMonth(day),
         NEW top \in TopProducts(from, day, 5)
  PROVE  /\ SalesSummary(from, to).gross = Column(DayRows(from, to), LAMBDA row : row.total)
         /\ SalesSummary(from, to).bills = Column(DayRows(from, to), LAMBDA row : row.bills)
         /\ SalesSummary(day, day).bills
              = (IF day \in DOMAIN DayRows(from, to) THEN DayRows(from, to)[day].bills ELSE 0)
         /\ Column(top, LAMBDA row : row.amount) <= SalesSummary(from, to).gross
<1>1. from \in Int /\ to \in Int /\ from <= day /\ day <= to
  BY DayInMonth
<1>2. PICK S, D, T : S = Selected(from, to) /\ D = Selected(day, day) /\ T = Selected(from, day)
  OBVIOUS
<1>3. \A s \in Saved : sale[s].day \in Nat
  BY DEF SalesOK, SaleRecord
<1>4. S \subseteq Sales /\ D = {s \in S : sale[s].day = day} /\ T \subseteq S
  BY <1>1, <1>2, <1>3 DEF Selected, Saved
<1>5. /\ SalesSummary(from, to).gross = SumFunctionOnSet(Grands, S)
      /\ SalesSummary(from, to).bills = Cardinality(S)
      /\ SalesSummary(day, day).bills = Cardinality(D)
  BY <1>2, <1>4, BillTotals DEF SalesSummary
<1>6. /\ Column(DayRows(from, to), LAMBDA row : row.total) = SumFunctionOnSet(Grands, S)
      /\ Column(DayRows(from, to), LAMBDA row : row.bills) = Cardinality(S)
      /\ (IF day \in DOMAIN DayRows(from, to) THEN DayRows(from, to)[day].bills ELSE 0) = Cardinality(D)
  <2>1. /\ Column(DayRows(from, to), LAMBDA row : row.total) = SumFunctionOnSet(Grands, Selected(from, to))
        /\ Column(DayRows(from, to), LAMBDA row : row.bills) = Cardinality(Selected(from, to))
    BY DaysAddUp
  <2>2. BillsOn(DayRows(from, to), day) = Cardinality(OnDay(Selected(from, to), day))
    BY DaysAddUp
  <2> QED  BY <1>2, <1>4, <2>1, <2>2 DEF BillsOn, OnDay
<1>7. /\ Column(top, LAMBDA row : row.amount) \in Nat
      /\ Column(top, LAMBDA row : row.amount) <= SumFunctionOnSet(Grands, T)
  BY <1>2, TopAddsUp DEF Column
<1>8. SumFunctionOnSet(Grands, T) <= SumFunctionOnSet(Grands, S)
      /\ SumFunctionOnSet(Grands, T) \in Nat /\ SumFunctionOnSet(Grands, S) \in Nat
  BY <1>4, DueSum
<1> QED  BY <1>5, <1>6, <1>7, <1>8

\* Taxable value, tax and total of some lines, to a paisa each.
LEMMA LinesWithin ==
  ASSUME NEW X, X \subseteq AllLines
  PROVE  Within(SumFunctionOnSet(LineTaxables, X) + SumFunctionOnSet(LineGsts, X)
                  - SumFunctionOnSet(LineTotals, X), Cardinality(X))
<1>1. IsFiniteSet(X)
  BY BillsAreTheirLines, FS_Subset DEF AllLines
<1>2. PICK none : none = [x \in X |-> 0]
  OBVIOUS
<1>3. PICK n : n = Cardinality(X)
  OBVIOUS
<1>4. ASSUME NEW x \in X
      PROVE  /\ {LineTaxables[x], LineGsts[x], none[x], LineTotals[x]} \subseteq Int
             /\ Within(LineTaxables[x] + LineGsts[x] + none[x] + none[x] - LineTotals[x], 1)
  <2>1. x \in AllLines /\ none[x] = 0
    BY <1>2
  <2>2. /\ LineTaxables[x] \in Int /\ LineGsts[x] \in Int /\ LineTotals[x] \in Int
        /\ Within(LineTaxables[x] + LineGsts[x] - LineTotals[x], 1)
    BY <2>1, LineColumns
  <2> QED  BY <2>1, <2>2 DEF Within
<1>5. /\ SumFunctionOnSet(LineTaxables, X) \in Int /\ SumFunctionOnSet(LineGsts, X) \in Int
      /\ SumFunctionOnSet(LineTotals, X) \in Int
      /\ Within(SumFunctionOnSet(LineTaxables, X) + SumFunctionOnSet(LineGsts, X)
                  + SumFunctionOnSet(none, X) + SumFunctionOnSet(none, X)
                  - SumFunctionOnSet(LineTotals, X), n)
  BY <1>1, <1>3, <1>4, LinesAddUp
<1>6. SumFunctionOnSet(none, X) = 0 * n
  BY <1>1, <1>2, <1>3, SumConstant
<1>7. n \in Nat /\ 0 * n = 0
  BY <1>1, <1>3, FS_CardinalityType
<1> QED  BY <1>3, <1>5, <1>6, <1>7 DEF Within

LEMMA SheetsAgree ==
  ASSUME SalesOK, NEW from, NEW to
  PROVE  LET summary == GstBillingSummary(from, to)
             gst == GstSalesRegister(from, to).totals
             hsn == HsnSummary(from, to)
             rates == GstSummary(from, to)
             lines == Cardinality(LinesOf(Range(GstSalesRegister(from, to).rows)))
         IN /\ gst.total = summary.total_gst_sales
            /\ NonGstSalesRegister(from, to).total = summary.total_non_gst_sales
            /\ GstCustomerRegister(from, to).customers = summary.total_gst_customers
            /\ gst.taxable = Column(rates, LAMBDA row : row.taxable)
            /\ gst.gst = Column(rates, LAMBDA row : row.total_gst)
            /\ gst.taxable = Column(hsn, LAMBDA row : row.taxable)
            /\ gst.gst = Column(hsn, LAMBDA row : row.gst)
            /\ Within(gst.taxable + gst.gst - gst.total, lines)
<1>1. PICK S : S = Selected(from, to)
  OBVIOUS
<1>2. PICK G, N, C : /\ G = {s \in S : IsGst(s)} /\ N = {s \in S : ~IsGst(s)}
                     /\ C = {s \in S : IsGstCustomer(s)}
  OBVIOUS
<1>3. PICK X : X = LinesOf(G)
  OBVIOUS
<1>4. S \subseteq Saved /\ Saved \subseteq Sales
  BY <1>1 DEF Selected, Saved
<1>5. /\ S \cap GstBills = G /\ S \cap (Saved \ GstBills) = N
      /\ S \cap {s \in Saved : IsGstCustomer(s)} = C
  BY <1>2, <1>4 DEF GstBills
<1>6. Range(RegisterRows(from, to, GstBills)) = Selected(from, to) \cap GstBills
  BY RowsOfRegister, Zenon
<1>7. Len(RegisterRows(from, to, {s \in Saved : IsGstCustomer(s)}))
        = Cardinality(Selected(from, to) \cap {s \in Saved : IsGstCustomer(s)})
  BY LengthOfRegister, Zenon
<1>8. Range(RegisterRows(from, to, Saved \ GstBills)) = Selected(from, to) \cap (Saved \ GstBills)
  BY RowsOfRegister, Zenon
<1>9. PICK r1, r2, r3 : /\ r1 = RegisterRows(from, to, GstBills)
                        /\ r2 = RegisterRows(from, to, {s \in Saved : IsGstCustomer(s)})
                        /\ r3 = RegisterRows(from, to, Saved \ GstBills)
  BY Zenon
<1>10. Range(r1) = G /\ Len(r2) = Cardinality(C) /\ Range(r3) = N
  BY <1>1, <1>5, <1>6, <1>7, <1>8, <1>9
<1>11. /\ GstSalesRegister(from, to).rows = r1
       /\ GstSalesRegister(from, to).totals
            = [taxable |-> Total(Range(r1), TaxableOf), gst |-> Total(Range(r1), GstOf),
               total |-> Total(Range(r1), Grand)]
       /\ GstCustomerRegister(from, to).customers = Len(r2)
       /\ NonGstSalesRegister(from, to).total = Total(Range(r3), Grand)
  BY <1>9 DEF GstSalesRegister, GstCustomerRegister, NonGstSalesRegister
<1>12. /\ GstBillingSummary(from, to).total_gst_sales = Total(G, Grand)
       /\ GstBillingSummary(from, to).total_non_gst_sales = Total(N, Grand)
       /\ GstBillingSummary(from, to).total_gst_customers = Cardinality(C)
  BY <1>1, <1>2 DEF GstBillingSummary
<1>13. PICK gst : gst = GstSalesRegister(from, to).totals
  OBVIOUS
<1>14. gst.taxable = Total(G, TaxableOf) /\ gst.gst = Total(G, GstOf) /\ gst.total = Total(G, Grand)
  BY <1>10, <1>11, <1>13
<1>15. G \subseteq Sales
  BY <1>2, <1>4
<1>16. /\ gst.taxable = SumFunctionOnSet(LineTaxables, X)
       /\ gst.gst = SumFunctionOnSet(LineGsts, X)
       /\ gst.total = SumFunctionOnSet(LineTotals, X)
  BY <1>3, <1>14, <1>15, BillTotals, BillsAreTheirLines
<1>17. X = GstLines(from, to)
  BY <1>1, <1>2, <1>3 DEF GstLines
<1>18. /\ Column(GstSummary(from, to), LAMBDA row : row.taxable) = SumFunctionOnSet(LineTaxables, X)
       /\ Column(GstSummary(from, to), LAMBDA row : row.total_gst) = SumFunctionOnSet(LineGsts, X)
  BY <1>17, RatesAddUp
<1>19. /\ Column(HsnSummary(from, to), LAMBDA row : row.taxable) = SumFunctionOnSet(LineTaxables, X)
       /\ Column(HsnSummary(from, to), LAMBDA row : row.gst) = SumFunctionOnSet(LineGsts, X)
  BY <1>17, CodesAddUp
<1>20. Within(gst.taxable + gst.gst - gst.total, Cardinality(X))
  <2>1. X \subseteq AllLines
    BY <1>3, <1>15, LinesInAll
  <2> QED  BY <1>16, <2>1, LinesWithin
<1>21. LinesOf(Range(GstSalesRegister(from, to).rows)) = X
  BY <1>3, <1>10, <1>11
<1> QED  BY <1>10, <1>11, <1>12, <1>13, <1>14, <1>16, <1>18, <1>19, <1>20, <1>21

LEMMA TakingsAgree ==
  ASSUME SalesOK, NEW user, NEW day \in Nat, NEW own,
         own = {s \in Range(OwnRecent(user)) : s \in ActiveBills /\ sale[s].day = day}
  PROVE  /\ Cardinality(own) <= OwnCount(user, day)
         /\ Total(own, Grand) <= OwnCollection(user, day)
         /\ Len(OwnRecent(user)) < RecentLimit =>
              OwnCount(user, day) = Cardinality(own) /\ OwnCollection(user, day) = Total(own, Grand)
<1>1. PICK M : M = {s \in Saved : Content[s].created_by = user}
  OBVIOUS
<1>2. M \subseteq Saved /\ Saved \subseteq Sales
  BY <1>1 DEF Saved
<1>3. PICK rows : rows = NewestFirst(M)
  OBVIOUS
<1>4. Distinct(M)
  BY <1>2, SavedDistinct
<1>5. rows \in Seq(M) /\ Range(rows) = M
  BY <1>3, <1>4, RowsAreRanked
<1>6. PICK k \in Nat : k = IF Len(rows) < RecentLimit THEN Len(rows) ELSE RecentLimit
  BY <1>5, ReportsAssumption
<1>7. PICK recent : recent = SubSeq(rows, 1, k)
  OBVIOUS
<1>8. recent = OwnRecent(user)
  BY <1>1, <1>3, <1>6, <1>7 DEF OwnRecent
<1>9. \A i \in 1..k : rows[i] \in M
  BY <1>5, <1>6, ReportsAssumption
<1>10. /\ recent \in Seq(M) /\ Len(recent) = (IF 1 <= k THEN k - 1 + 1 ELSE 0)
       /\ \A i \in 1..(k - 1 + 1) : recent[i] = rows[1 + i - 1]
  BY <1>7, <1>9, SubSeqProperties
<1>11. Range(recent) \subseteq M
  BY <1>10 DEF Range
<1>12. ASSUME Len(recent) < RecentLimit
       PROVE  Range(recent) = M
  <2>1. k = Len(rows) /\ Len(recent) = k
    BY <1>5, <1>6, <1>10, <1>12, ReportsAssumption
  <2>2. \A i \in 1..k : recent[i] = rows[i] /\ i \in DOMAIN recent
    BY <1>10, <2>1
  <2>3. \A s \in M : \E i \in 1..k : rows[i] = s
    BY <1>5, <2>1 DEF Range
  <2> QED  BY <1>11, <2>2, <2>3 DEF Range
<1>13. PICK all : all = Own(user, day)
  OBVIOUS
<1>14. all = {s \in M : s \in ActiveBills /\ sale[s].day = day}
  <2>1. Selected(day, day) = {s \in ActiveBills : sale[s].day \in day..day}
    BY SelectedAreActive
  <2>2. \A s \in ActiveBills : s \in Saved /\ sale[s].day \in Nat
    BY DEF SalesOK, SaleRecord, ActiveBills
  <2>3. \A n \in Nat : n \in day..day <=> n = day
    OBVIOUS
  <2>4. \A s : s \in Selected(day, day) <=> s \in ActiveBills /\ sale[s].day = day
    BY <2>1, <2>2, <2>3
  <2> QED  BY <1>1, <1>13, <2>2, <2>4 DEF Own
<1>15. own \subseteq all /\ all \subseteq Sales
  BY <1>2, <1>8, <1>11, <1>14
<1>16. Len(recent) < RecentLimit => own = all
  BY <1>8, <1>12, <1>14
<1>17. Cardinality(own) <= Cardinality(all)
  BY <1>15, SalesFinite, FS_Subset
<1>18. Total(own, Grand) <= Total(all, Grand)
  <2>1. own \subseteq Sales
    BY <1>15
  <2>2. Total(own, Grand) = SumFunctionOnSet(Grands, own) /\ Total(all, Grand) = SumFunctionOnSet(Grands, all)
    BY <1>15, <2>1, BillTotals
  <2> QED  BY <1>15, <2>2, DueSum
<1> QED  BY <1>8, <1>13, <1>16, <1>17, <1>18 DEF OwnCount, OwnCollection

-----------------------------------------------------------------------------
(* The properties *)

\* A report that is finished and noticed nothing has answers its statements
\* would still give.
LEMMA UndisturbedAnswers ==
  ASSUME IInv, NEW r \in Readers, NEW kind, Undisturbed(r, kind), kind # "pages",
         NEW rep, rep = report[r]
  PROVE  /\ ReportOK(rep) /\ rep.asked.kind = kind /\ rep.day \in Nat
         /\ Len(rep.answer) = Len(Statements[kind])
         /\ \A i \in 1..Len(Statements[kind]) : rep.answer[i] \in Answers(rep, Statements[kind][i])
         /\ rep.always = ActiveBills
<1>1. rep # None /\ rep.asked.kind = kind /\ Finished(rep) /\ ~rep.changed
  BY DEF Undisturbed, Has
<1>2. ReportOK(rep)
  BY <1>1 DEF IInv, ReportsOK
<1>3. Len(rep.answer) = Len(Statements[kind])
  BY <1>1 DEF Finished
<1>4. \A i \in 1..Len(Statements[kind]) : rep.answer[i] \in Answers(rep, Statements[kind][i])
  BY <1>1, <1>2, <1>3 DEF ReportOK, Fresh
<1>5. rep.day \in Nat /\ kind \in {"dashboard", "cashier", "auditor"}
  BY <1>1, <1>2 DEF ReportOK, Shape
<1>6. rep.answer # <<>>
  <2>1. Len(rep.answer) \in {3, 4, 6}
    BY <1>3, <1>5, StatementsAre
  <2> QED  BY <2>1
<1>7. rep.always = ActiveBills
  BY <1>1, <1>2, <1>6 DEF ReportOK, Noted, Concerned, ActiveBills
<1> QED  BY <1>1, <1>2, <1>3, <1>4, <1>5, <1>7

LEMMA MonthAddsUpHolds == IInv => MonthAddsUp
<1> SUFFICES ASSUME IInv, NEW r \in Readers, Undisturbed(r, "dashboard"), NEW rep, rep = report[r]
             PROVE  /\ rep.answer[1].gross = Column(rep.answer[2], LAMBDA row : row.total)
                    /\ rep.answer[1].bills = Column(rep.answer[2], LAMBDA row : row.bills)
                    /\ rep.answer[3].bills = (IF rep.day \in DOMAIN rep.answer[2]
                                              THEN rep.answer[2][rep.day].bills ELSE 0)
                    /\ Column(rep.answer[4], LAMBDA row : row.amount) <= rep.answer[1].gross
  BY DEF MonthAddsUp
<1>1. /\ rep.day \in Nat
      /\ \A i \in 1..4 : rep.answer[i] \in Answers(rep, Statements["dashboard"][i])
  BY UndisturbedAnswers, StatementsAre
<1>2. PICK day, from, to : day = rep.day /\ from = FirstOfMonth(day) /\ to = LastOfMonth(day)
  OBVIOUS
<1>3. /\ rep.answer[1] = SalesSummary(from, to)
      /\ rep.answer[2] = DayRows(from, to)
      /\ rep.answer[3] = SalesSummary(day, day)
      /\ rep.answer[4] \in TopProducts(from, day, 5)
  <2>1. rep.answer[1] \in Answers(rep, "month") /\ rep.answer[2] \in Answers(rep, "days")
        /\ rep.answer[3] \in Answers(rep, "day") /\ rep.answer[4] \in Answers(rep, "top_products")
    BY <1>1 DEF Statements
  <2> QED  BY <1>2, <2>1 DEF Answers
<1>4. PICK top : top = rep.answer[4]
  OBVIOUS
<1>5. /\ SalesSummary(from, to).gross = Column(DayRows(from, to), LAMBDA row : row.total)
      /\ SalesSummary(from, to).bills = Column(DayRows(from, to), LAMBDA row : row.bills)
      /\ SalesSummary(day, day).bills
           = (IF day \in DOMAIN DayRows(from, to) THEN DayRows(from, to)[day].bills ELSE 0)
      /\ Column(top, LAMBDA row : row.amount) <= SalesSummary(from, to).gross
  BY <1>1, <1>2, <1>3, <1>4, DashboardAgrees DEF IInv
<1> QED  BY <1>2, <1>3, <1>4, <1>5

\* The dashboard's month is the sum of its days and today's figures are the row
\* of the day (dashboard_service.kpis), for any bills and any month.
THEOREM DashboardMonth == Spec => []MonthAddsUp
BY SpecInvariant, MonthAddsUpHolds, PTL

LEMMA AuditorAgreesHolds == IInv => AuditorAgrees
<1> SUFFICES ASSUME IInv, NEW r \in Readers, Undisturbed(r, "auditor"), NEW rep, rep = report[r]
             PROVE  LET summary == rep.answer[1]
                        gst == rep.answer[2].totals
                        hsn == rep.answer[3]
                        rates == rep.answer[5]
                        lines == Cardinality(LinesOf(Range(rep.answer[2].rows)))
                    IN /\ gst.total = summary.total_gst_sales
                       /\ rep.answer[6].total = summary.total_non_gst_sales
                       /\ rep.answer[4].customers = summary.total_gst_customers
                       /\ gst.taxable = Column(rates, LAMBDA row : row.taxable)
                       /\ gst.gst = Column(rates, LAMBDA row : row.total_gst)
                       /\ gst.taxable = Column(hsn, LAMBDA row : row.taxable)
                       /\ gst.gst = Column(hsn, LAMBDA row : row.gst)
                       /\ Within(gst.taxable + gst.gst - gst.total, lines)
  BY DEF AuditorAgrees
<1>1. \A i \in 1..6 : rep.answer[i] \in Answers(rep, Statements["auditor"][i])
  BY UndisturbedAnswers, StatementsAre
<1>2. PICK from, to : from = rep.asked.start /\ to = rep.asked.end
  OBVIOUS
<1>3. /\ rep.answer[1] = GstBillingSummary(from, to)
      /\ rep.answer[2] = GstSalesRegister(from, to)
      /\ rep.answer[3] = HsnSummary(from, to)
      /\ rep.answer[4] = GstCustomerRegister(from, to)
      /\ rep.answer[5] = GstSummary(from, to)
      /\ rep.answer[6] = NonGstSalesRegister(from, to)
  <2>1. /\ rep.answer[1] \in Answers(rep, "summary")
        /\ rep.answer[2] \in Answers(rep, "gst-sales-register")
        /\ rep.answer[3] \in Answers(rep, "hsn-summary")
        /\ rep.answer[4] \in Answers(rep, "gst-customer-register")
        /\ rep.answer[5] \in Answers(rep, "gst-summary")
        /\ rep.answer[6] \in Answers(rep, "non-gst-sales-register")
    BY <1>1 DEF Statements
  <2> QED  BY <1>2, <2>1 DEF Answers
<1>4. SalesOK
  BY DEF IInv
<1> QED  BY <1>3, <1>4, SheetsAgree

\* The sheets of the auditor's package agree (api/reports.auditor_export), for
\* any bills: bills are the sums of their lines, and the summaries by rate and
\* by HSN code group the lines of the bills in the register.
THEOREM AuditorSheets == Spec => []AuditorAgrees
BY SpecInvariant, AuditorAgreesHolds, PTL

LEMMA TakingsHold == IInv => TakingsMatchBills
<1> SUFFICES ASSUME IInv, NEW r \in Readers, Undisturbed(r, "cashier"), NEW rep, rep = report[r],
                    NEW own, own = {s \in Range(rep.answer[3]) : s \in rep.always /\ sale[s].day = rep.day}
             PROVE  /\ Cardinality(own) <= rep.answer[1] /\ Total(own, Grand) <= rep.answer[2]
                    /\ Len(rep.answer[3]) < RecentLimit =>
                         rep.answer[1] = Cardinality(own) /\ rep.answer[2] = Total(own, Grand)
  BY DEF TakingsMatchBills
<1>1. /\ rep.day \in Nat /\ rep.always = ActiveBills
      /\ \A i \in 1..3 : rep.answer[i] \in Answers(rep, Statements["cashier"][i])
  BY UndisturbedAnswers, StatementsAre
<1>2. PICK user, day : user = rep.asked.user /\ day = rep.day
  OBVIOUS
<1>3. /\ rep.answer[1] = OwnCount(user, day)
      /\ rep.answer[2] = OwnCollection(user, day)
      /\ rep.answer[3] = OwnRecent(user)
  <2>1. rep.answer[1] \in Answers(rep, "count") /\ rep.answer[2] \in Answers(rep, "collection")
        /\ rep.answer[3] \in Answers(rep, "recent")
    BY <1>1 DEF Statements
  <2> QED  BY <1>2, <2>1 DEF Answers
<1>4. own = {s \in Range(OwnRecent(user)) : s \in ActiveBills /\ sale[s].day = day}
  BY <1>1, <1>2, <1>3
<1>5. /\ Cardinality(own) <= OwnCount(user, day)
      /\ Total(own, Grand) <= OwnCollection(user, day)
      /\ Len(OwnRecent(user)) < RecentLimit =>
           OwnCount(user, day) = Cardinality(own) /\ OwnCollection(user, day) = Total(own, Grand)
  BY <1>1, <1>2, <1>4, TakingsAgree DEF IInv
<1> QED  BY <1>3, <1>5

\* A cashier's count and takings are of the bills shown
\* (dashboard_service.cashier_kpis), however many there are.
THEOREM CashierTakings == Spec => []TakingsMatchBills
BY SpecInvariant, TakingsHold, PTL

LEMMA RegistersCompleteHolds == IInv => RegistersComplete
<1> SUFFICES ASSUME IInv, NEW r \in Readers, Has(r, "auditor"), NEW rep, rep = report[r]
             PROVE  LET Always(sort(_)) == Due(rep.always, rep.asked, sort)
                        Ever(sort(_)) == Due(rep.ever, rep.asked, sort)
                        Holds(register, sort(_)) == /\ Always(sort) \subseteq Range(register.rows)
                                                    /\ Range(register.rows) \subseteq Ever(sort)
                    IN /\ Holds(rep.answer[2], IsGst)
                       /\ Holds(rep.answer[4], IsGstCustomer)
                       /\ Holds(rep.answer[6], LAMBDA s : ~IsGst(s))
                       /\ Total(Always(IsGst), Grand) <= rep.answer[1].total_gst_sales
                       /\ rep.answer[1].total_gst_sales <= Total(Ever(IsGst), Grand)
  BY DEF RegistersComplete
<1>1. rep # None /\ rep.asked.kind = "auditor" /\ Finished(rep)
  BY DEF Has
<1>2. ReportOK(rep)
  BY <1>1 DEF IInv, ReportsOK
<1>3. Len(rep.answer) = 6
  BY <1>1, StatementsAre DEF Finished
<1>4. rep.answer # <<>>
  BY <1>3
<1>5. rep.always \subseteq Sales /\ rep.ever \subseteq Sales
  BY <1>1, <1>2, <1>4 DEF ReportOK, Noted, Concerned, Saved
<1>6. /\ Due(rep.always, rep.asked, IsGst) = DueIn(rep.always, rep.asked, GstSort)
      /\ Due(rep.always, rep.asked, IsGstCustomer) = DueIn(rep.always, rep.asked, CustomerSort)
      /\ Due(rep.ever, rep.asked, IsGst) = DueIn(rep.ever, rep.asked, GstSort)
      /\ Due(rep.ever, rep.asked, IsGstCustomer) = DueIn(rep.ever, rep.asked, CustomerSort)
  BY <1>5 DEF Due, DueIn, GstSort, CustomerSort
<1>7. /\ SummaryBetween(rep) /\ RegisterBetween(rep, 2, GstSort)
      /\ RegisterBetween(rep, 4, CustomerSort) /\ RegisterBetween(rep, 6, NonGstSort)
  BY <1>1, <1>2 DEF ReportOK, Between
<1>8. PICK A, E : A = DueIn(rep.always, rep.asked, GstSort) /\ E = DueIn(rep.ever, rep.asked, GstSort)
  OBVIOUS
<1>9. A \subseteq Sales /\ E \subseteq Sales
  BY <1>5, <1>8 DEF DueIn
<1>10. Total(A, Grand) = SumFunctionOnSet(Grands, A) /\ Total(E, Grand) = SumFunctionOnSet(Grands, E)
  BY <1>9, BillTotals
<1>11. /\ Total(Due(rep.always, rep.asked, IsGst), Grand) <= rep.answer[1].total_gst_sales
       /\ rep.answer[1].total_gst_sales <= Total(Due(rep.ever, rep.asked, IsGst), Grand)
  BY <1>3, <1>6, <1>7, <1>8, <1>10 DEF SummaryBetween
<1>12. /\ Due(rep.always, rep.asked, IsGst) \subseteq Range(rep.answer[2].rows)
       /\ Range(rep.answer[2].rows) \subseteq Due(rep.ever, rep.asked, IsGst)
  BY <1>3, <1>6, <1>7 DEF RegisterBetween
<1>13. /\ Due(rep.always, rep.asked, IsGstCustomer) \subseteq Range(rep.answer[4].rows)
       /\ Range(rep.answer[4].rows) \subseteq Due(rep.ever, rep.asked, IsGstCustomer)
  BY <1>3, <1>6, <1>7 DEF RegisterBetween
<1>14. /\ Due(rep.always, rep.asked, LAMBDA s : ~IsGst(s)) \subseteq Range(rep.answer[6].rows)
       /\ Range(rep.answer[6].rows) \subseteq Due(rep.ever, rep.asked, LAMBDA s : ~IsGst(s))
  <2>1. /\ DueIn(rep.always, rep.asked, NonGstSort) \subseteq Range(rep.answer[6].rows)
        /\ Range(rep.answer[6].rows) \subseteq DueIn(rep.ever, rep.asked, NonGstSort)
    BY <1>3, <1>7 DEF RegisterBetween
  <2> QED  BY <1>5, <2>1 DEF Due, DueIn, NonGstSort
<1> QED  BY <1>11, <1>12, <1>13, <1>14

\* The registers of the auditor's package are complete (report_service's
\* registers and gst_billing_summary), whatever is saved and voided between the
\* statements and however often.
THEOREM AuditorRegisters == Spec => []RegistersComplete
BY SpecInvariant, RegistersCompleteHolds, PTL

LEMMA NothingSkippedHolds == IInv => NothingSkipped
<1> SUFFICES ASSUME IInv, NEW r \in Readers, Has(r, "pages"), Unfiltered(report[r].asked),
                    NEW rep, rep = report[r]
             PROVE  rep.always \subseteq SeenIn(rep)
  BY DEF NothingSkipped, SeenIn
<1>1. rep # None /\ rep.asked.kind = "pages" /\ Finished(rep)
  BY DEF Has
<1>2. ReportOK(rep)
  BY <1>1 DEF IInv, ReportsOK
<1>3. rep.answer # <<>>
  BY <1>1, <1>2 DEF Finished
<1> QED  BY <1>1, <1>2, <1>3 DEF ReportOK, PagesOK

\* Paging through the register by offset skips no bill that was there at the
\* first page (invoice_service.list_invoices), for any page size and any number
\* of bills saved meanwhile: new bills only push the others further down.
THEOREM PagesComplete == Spec => []NothingSkipped
BY SpecInvariant, NothingSkippedHolds, PTL
=============================================================================
