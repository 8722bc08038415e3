------------------------------ MODULE TillProofs ------------------------------
(***************************************************************************)
(* Theorems about the bills of Till and the prices and codes of Catalogue, *)
(* for every order, receipt, edit and number of sessions.                  *)
(***************************************************************************)
EXTENDS Till, GstProofs

-----------------------------------------------------------------------------
(* Printed invoices *)

\* The amounts, taxes and total of a printed bill, and its rates (PrintedAddsUp).
PrintedOK(s) ==
  LET printed == PrintedInvoice(s)
      quantity == [i \in DOMAIN printed.lines |-> s.bill.inputs[i].quantity]
      amounts == Sum([i \in DOMAIN printed.lines |-> printed.lines[i].amount])
  IN /\ Within(amounts + Sum(printed.taxes) - printed.total,
               IF printed.taxes = <<>> THEN 0 ELSE Len(printed.lines))
     /\ \A i \in DOMAIN printed.lines :
          Within(2 * (printed.lines[i].rate * quantity[i] - printed.lines[i].amount * Scale),
                 quantity[i])

LEMMA InvoicePrinted ==
  ASSUME NEW s, NEW mode, Reckoned(s.bill, mode)
  PROVE  PrintedOK(s)
<1>1. PICK b : b = s.bill
  OBVIOUS
<1>2. PICK shown : shown = s.show_gst
  OBVIOUS
<1>3. PICK n \in Nat : DOMAIN b.lines = 1..n /\ DOMAIN b.inputs = 1..n
  BY <1>1 DEF Reckoned
<1>4. \A i \in 1..n : LineOK(b.inputs[i], b.lines[i], mode)
  BY <1>1, <1>3 DEF Reckoned
<1> DEFINE a == [i \in 1..n |-> Amount(b.lines[i], shown)]
           q == [i \in 1..n |-> b.inputs[i].quantity]
           c == [i \in 1..n |-> b.lines[i].cgst]
           e == [i \in 1..n |-> b.lines[i].sgst]
           g == [i \in 1..n |-> b.lines[i].igst]
           l == [i \in 1..n |-> b.lines[i].line_total]
           Of(f) == SumFunctionOnSet(f, 1..n)
           p == PrintedInvoice(s)
<1>5. p.lines = [i \in 1..n |-> [amount |-> a[i], rate |-> PerUnit(a[i], q[i])]]
  BY <1>1, <1>2, <1>3 DEF PrintedInvoice
<1>6. /\ p.total = b.grand_total
      /\ p.taxes = (IF shown THEN <<b.total_cgst, b.total_sgst, b.total_igst>> ELSE <<>>)
  BY <1>1, <1>2 DEF PrintedInvoice
<1> HIDE DEF p
<1>7. /\ DOMAIN p.lines = 1..n /\ Len(p.lines) = n
      /\ [i \in DOMAIN p.lines |-> s.bill.inputs[i].quantity] = q
      /\ [i \in DOMAIN p.lines |-> p.lines[i].amount] = a
      /\ \A i \in 1..n : p.lines[i].amount = a[i] /\ p.lines[i].rate = PerUnit(a[i], q[i])
  BY <1>1, <1>5
<1>8. \A i \in 1..n : a[i] = IF shown THEN b.lines[i].taxable_value ELSE b.lines[i].line_total
  BY DEF Amount
<1>9. \A i \in 1..n : a[i] \in Nat /\ q[i] \in Nat /\ (q[i] = 0 => a[i] = 0)
  BY <1>4, <1>8 DEF LineOK
<1>10. \A i \in 1..n : {a[i], c[i], e[i], g[i], l[i]} \subseteq Int
  BY <1>4, <1>8 DEF LineOK
<1>11. Sum(a) = Of(a) /\ b.total_cgst = Of(c) /\ b.total_sgst = Of(e) /\ b.total_igst = Of(g)
       /\ b.grand_total = Of(l)
  BY <1>1, <1>3 DEF Reckoned, SumFunction, Sum
<1>12. IsFiniteSet(1..n) /\ Cardinality(1..n) = n
  BY FS_Interval
<1>13. \A i \in 1..n : Within(2 * (PerUnit(a[i], q[i]) * q[i] - a[i] * Scale), q[i])
  BY <1>9, RatePrinted
<1>14. ASSUME shown
       PROVE  Within(Sum(a) + Sum(p.taxes) - p.total, IF p.taxes = <<>> THEN 0 ELSE n)
  <2>1. ASSUME NEW i \in 1..n
        PROVE  Within(a[i] + c[i] + e[i] + g[i] - l[i], 1)
    <3>1. PICK x : x = b.lines[i]
      OBVIOUS
    <3>2. a[i] = x.taxable_value /\ c[i] = x.cgst /\ e[i] = x.sgst /\ g[i] = x.igst /\ l[i] = x.line_total
      BY <1>8, <1>14, <3>1
    <3>3. /\ Within(x.taxable_value + x.gst_amount - x.line_total, 1)
          /\ x.cgst + x.sgst + x.igst = x.gst_amount
          /\ {x.cgst, x.sgst, x.igst, x.taxable_value, x.line_total} \subseteq Int
      BY <1>4, <3>1 DEF LineOK
    <3> HIDE DEF a, c, e, g, l
    <3> QED  BY <3>2, <3>3 DEF Within
  <2> HIDE DEF a, q, c, e, g, l
  <2>2. PICK D : D = 1..n
    OBVIOUS
  <2>3. \A i \in D : /\ {a[i], c[i], e[i], g[i], l[i]} \subseteq Int
                     /\ Within(a[i] + c[i] + e[i] + g[i] - l[i], 1)
    BY <1>10, <2>1, <2>2
  <2>4. IsFiniteSet(D) /\ n = Cardinality(D)
    BY <1>12, <2>2
  <2>5. LET On(f) == SumFunctionOnSet(f, D)
        IN On(a) \in Int /\ On(c) \in Int /\ On(e) \in Int /\ On(g) \in Int /\ On(l) \in Int
           /\ Within(On(a) + On(c) + On(e) + On(g) - On(l), n)
    BY <2>3, <2>4, LinesAddUp
  <2>6. /\ Of(a) \in Int /\ Of(c) \in Int /\ Of(e) \in Int /\ Of(g) \in Int /\ Of(l) \in Int
        /\ Within(Of(a) + Of(c) + Of(e) + Of(g) - Of(l), n)
    BY <2>2, <2>5
  <2>7. p.taxes = <<Of(c), Of(e), Of(g)>>
    BY <1>6, <1>11, <1>14
  <2>8. Sum(p.taxes) = Of(c) + Of(e) + Of(g) /\ p.taxes # <<>>
    <3>1. Sum(<<Of(c), Of(e), Of(g)>>) = Of(c) + Of(e) + Of(g)
      BY <2>6, SumOfThree DEF Sum
    <3> HIDE DEF Of
    <3> QED  BY <2>7, <3>1
  <2> HIDE DEF Of
  <2>9. Within(Sum(a) + Sum(p.taxes) - p.total, n)
    BY <1>6, <1>11, <2>6, <2>8 DEF Within
  <2> QED  BY <2>8, <2>9
<1>15. ASSUME ~shown
       PROVE  Within(Sum(a) + Sum(p.taxes) - p.total, IF p.taxes = <<>> THEN 0 ELSE n)
  <2>1. a = l
    BY <1>8, <1>15
  <2>2. Of(l) \in Int
    <3>1. \A i \in 1..n : l[i] \in Int
      BY <1>10
    <3> HIDE DEF l
    <3> QED  BY <1>12, <3>1, SumType
  <2>3. p.taxes = <<>> /\ Sum(p.taxes) = 0
    BY <1>6, <1>15, SumOfNone DEF Sum
  <2> HIDE DEF a, q, c, e, g, l, Of
  <2>4. Within(Sum(a) + Sum(p.taxes) - p.total, 0)
    BY <1>6, <1>11, <2>1, <2>2, <2>3 DEF Within
  <2> QED  BY <2>3, <2>4
<1> DEFINE quantity == [i \in DOMAIN p.lines |-> s.bill.inputs[i].quantity]
           amounts == Sum([i \in DOMAIN p.lines |-> p.lines[i].amount])
<1>16. Within(amounts + Sum(p.taxes) - p.total, IF p.taxes = <<>> THEN 0 ELSE Len(p.lines))
  BY <1>7, <1>14, <1>15
<1>17. \A i \in DOMAIN p.lines :
         Within(2 * (p.lines[i].rate * quantity[i] - p.lines[i].amount * Scale), quantity[i])
  BY <1>7, <1>13
<1> QED  BY <1>16, <1>17 DEF PrintedOK, p

-----------------------------------------------------------------------------
(* The inductive invariant *)

SaleTask == [op : {"sale"}, order : Orders]
EditTask == [op : {"edit"}, product : Existing]
PurchaseTask == [op : {"purchase"}, receipt : Seq(ReceiptLine)]

Selling(r) == task[r].op = "sale"

TypeInv ==
  /\ CatalogueTypeOK
  /\ paid \in [Requests -> Seq(Nat)]
  /\ pc \in [Requests -> {"idle", "quoted", "checked", "line", "flushing", "ending", "done"}]
  /\ task \in [Requests -> {NoTask} \cup SaleTask \cup EditTask \cup PurchaseTask]
  /\ DOMAIN quote = Requests /\ DOMAIN bill = Requests /\ DOMAIN sale = Requests
  /\ \A p \in Existing : product[p] # None

\* What is known of a request at each step of it.
KnowsTask(r) ==
  /\ pc[r] = "idle" <=> task[r] = NoTask
  /\ pc[r] \in {"quoted", "checked"} => task[r] \in SaleTask
  /\ pc[r] \in {"line", "flushing"} => task[r] \in PurchaseTask
  /\ task[r] \in PurchaseTask => Len(task[r].receipt) <= MaxLines
  /\ pc[r] = "flushing" => LinesLeft(r) /\ ThisLine(r).product = None /\ ThisLine(r).code \in Code

\* The objects of a session: each has the values it was loaded with, and the
\* new ones are of lines the session has passed.
KnowsProduct(r, p) ==
  /\ mine[r][p] = None <=> loaded[r][p] = None
  /\ newCode[r][p] # None => p \in NewProducts /\ p[1] = r /\ p[2] < turn[r] /\ mine[r][p] # None

SessionsOK == \A r \in Requests : KnowsTask(r) /\ \A p \in Products : KnowsProduct(r, p)

\* A code that a session has inserted is neither committed nor inserted by another.
CodesOK ==
  /\ CodesUnique
  /\ \A r \in Requests, p \in Products : newCode[r][p] # None =>
       /\ \A q \in Products : code[q] # newCode[r][p]
       /\ \A s \in Requests, q \in Products : newCode[s][q] = newCode[r][p] => s = r /\ q = p

\* The rows of a payment make a total to a paisa for every two of them.
RowsCover(payments, total) ==
  Sum(payments) \in Int /\ Within(Sum(payments) - total, Len(payments) \div 2)

\* The bill a sale was quoted and the one it computed are bills, its payments
\* are the quote's, and only a sale whose payments match is written.
Owes(r) == pc[r] = "checked" \/ (pc[r] = "ending" /\ Selling(r))

KnowsBill(r) ==
  /\ pc[r] = "quoted" \/ Owes(r) => Reckoned(quote[r], Mode(task[r].order))
  /\ Owes(r) => /\ Reckoned(bill[r], Mode(task[r].order))
                /\ Pays(paid[r], quote[r].grand_total)
  /\ pc[r] = "ending" /\ Selling(r) => PaymentsMatch(r)
  /\ bill[r] # None => Owes(r)
  /\ sale[r] # None =>
       /\ pc[r] = "done" /\ Selling(r)
       /\ Reckoned(sale[r].bill, Mode(task[r].order))
       /\ sale[r].quoted = sale[r].bill.grand_total
       /\ RowsCover(sale[r].payments, sale[r].quoted)

BillsOK == \A r \in Requests : KnowsBill(r)

\* What the columns keep of a row.
KeptRow(row) == [c \in Columns |-> Kept(c, row[c])]

\* The row a commit of r would leave of p.
Merged(r, p) == [c \in Columns |-> IF sent[r][p][c] = None THEN product[p][c] ELSE sent[r][p][c]]

NothingSent(r, p) == \A c \in Columns : sent[r][p][c] = None

\* Rows that are not stale are whole paise and derived, committed or not.
RowOK(p) == product[p] # None => KeptRow(product[p]) = product[p] /\ Derived(product[p])

ObjectOK(r, p) ==
  /\ mine[r][p] # None => Derived(KeptRow(mine[r][p]))
  /\ loaded[r][p] # None => Derived(KeptRow(loaded[r][p]))

\* A session that has updated a row has sent all that its object differs by.
SentOK(r, p) ==
  /\ p \notin locks[r] \/ loaded[r][p] = None => NothingSent(r, p)
  /\ p \in locks[r] /\ p \notin stale /\ loaded[r][p] # None => Merged(r, p) = KeptRow(loaded[r][p])

LocksOK ==
  /\ \A r, q \in Requests : r # q => locks[r] \cap locks[q] = {}
  /\ \A r \in Requests : pc[r] = "idle" => locks[r] = {}

PricesOK ==
  /\ \A p \in Products \ stale : RowOK(p) /\ \A r \in Requests : ObjectOK(r, p)
  /\ \A r \in Requests, p \in Existing : SentOK(r, p)
  /\ LocksOK

IInv == TypeInv /\ SessionsOK /\ CodesOK /\ BillsOK

-----------------------------------------------------------------------------
(* Steps *)

\* The ways a session ends with nothing written: its quote and bill go with
\* it, or it was a purchase and has none.
Withdraws(r) ==
  /\ pc[r] \notin {"idle", "done"}
  /\ RollBack(r)
  /\ ForgetBill(r) \/ (pc[r] \in {"line", "flushing"} /\ UNCHANGED <<quote, bill, paid>>)
  /\ UNCHANGED sale

CodeOf(r) == IF ThisLine(r).code = None THEN NextCode(CodesSeen(r)) ELSE ThisLine(r).code

Picks(r) ==
  /\ pc[r] = "line"
  /\ LinesLeft(r)
  /\ ThisLine(r).product = None
  /\ CodeOf(r) \notin CodesSeen(r)
  /\ pc' = [pc EXCEPT ![r] = "flushing"]
  /\ task' = [task EXCEPT ![r].receipt[turn[r]].code = CodeOf(r)]
  /\ UNCHANGED <<product, code, stale, sessionVars>>

Inserts(r) ==
  /\ pc[r] = "flushing"
  /\ ~CodeHeld(r, ThisLine(r).code)
  /\ ThisLine(r).code \notin CodesSeen(r)
  /\ AddProduct(r)

Accepts(r) ==
  /\ pc[r] = "checked"
  /\ PaymentsMatch(r)
  /\ pc' = [pc EXCEPT ![r] = "ending"]
  /\ moved' = [moved EXCEPT ![r] =
       {task[r].order.items[i].product : i \in DOMAIN task[r].order.items}]
  /\ UNCHANGED <<product, code, task, turn, loaded, mine, sent, newCode, locks, stale, tillVars>>

CatalogueStep(r) ==
  \/ \E receipt \in Receipts : OpenPurchase(r, receipt)
  \/ \E p \in Existing, edit \in Edits : OpenEdit(r, p, edit)
  \/ RestockLine(r) \/ Picks(r) \/ FlushRow(r) \/ Inserts(r) \/ EndPurchase(r)
  \/ (~Selling(r) /\ Commit(r))

Step(r) ==
  \/ CatalogueStep(r) /\ UNCHANGED tillVars
  \/ \E order \in Orders : Preview(r, order)
  \/ Checkout(r)
  \/ Accepts(r)
  \/ CommitSale(r)
  \/ Withdraws(r)

LEMMA Steps ==
  ASSUME [Next]_vars
  PROVE  UNCHANGED vars \/ \E r \in Requests : Step(r)
<1>1. CASE Next
  <2>1. CASE Quiet
    BY <2>1 DEF Quiet
  <2>2. ASSUME NEW r \in Requests,
               StartTask(r) \/ Checkout(r) \/ GiveUp(r) \/ Progress(r) \/ Fail(r)
        PROVE  Step(r)
    <3>1. CASE StartTask(r)
      BY <3>1 DEF StartTask, Step, CatalogueStep
    <3>2. CASE Checkout(r)
      BY <3>2 DEF Step
    <3>3. CASE GiveUp(r)
      BY <3>3 DEF GiveUp, FailSale, Step, Withdraws
    <3>4. CASE Fail(r)
      BY <3>4 DEF Fail, Abort, Busy, Step, Withdraws
    <3>5. CASE Victim(r)
      <4>1. pc[r] \in {"flushing", "ending"}
        BY <3>5 DEF Victim, DeadlockVictim, InCircle, Blockers
      <4> QED  BY <3>5, <4>1 DEF Victim, DeadlockVictim, Step, Withdraws
    <3>6. CASE CheckPayments(r)
      BY <3>6 DEF CheckPayments, FailSale, Step, Withdraws, Accepts, tillVars
    <3>7. CASE CatalogueCommit(r) \/ CommitSale(r)
      BY <3>7 DEF CatalogueCommit, Step, CatalogueStep, Selling
    <3>8. CASE Lines(r)
      <4>1. UNCHANGED tillVars
        BY <3>8 DEF Lines
      <4>2. CASE PickCode(r)
        BY <4>1, <4>2 DEF PickCode, Picks, CodeOf, Withdraws, Step, CatalogueStep, tillVars
      <4>3. CASE InsertProduct(r)
        BY <4>1, <4>3 DEF InsertProduct, Inserts, Withdraws, Step, CatalogueStep, tillVars
      <4> QED  BY <3>8, <4>1, <4>2, <4>3 DEF Lines, Step, CatalogueStep
    <3> QED  BY <2>2, <3>1, <3>2, <3>3, <3>4, <3>5, <3>6, <3>7, <3>8 DEF Progress
  <2> QED  BY <1>1, <2>1, <2>2 DEF Next
<1> QED  BY <1>1

-----------------------------------------------------------------------------
(* Operators of the model *)

LEMMA ProductsFinite == IsFiniteSet(Products)
<1>0. Initial \in Int /\ MaxLines \in Int /\ IsFiniteSet(Requests)
  BY CatalogueAssumption
<1>1. IsFiniteSet(1..Initial) /\ IsFiniteSet(1..MaxLines) /\ IsFiniteSet({None})
  <2>1. IsFiniteSet(1..Initial) /\ IsFiniteSet(1..MaxLines)
    BY <1>0, FS_Interval
  <2>2. IsFiniteSet({None})
    BY FS_Singleton
  <2> QED  BY <2>1, <2>2
<1>2. IsFiniteSet(Existing) /\ IsFiniteSet(NewProducts)
  BY <1>0, <1>1, FS_Product DEF Existing, NewProducts
<1> QED  BY <1>2, FS_Union DEF Products

\* The next code is a code, and none of those it was taken from.
LEMMA NextCodeIsNew ==
  ASSUME NEW codes, codes \subseteq Code \cup {None}, IsFiniteSet(codes)
  PROVE  NextCode(codes) \in Code /\ NextCode(codes) \notin codes
<1> DEFINE N == Numbers(codes) \cup {0}
<1>1. N \subseteq Nat
  BY DEF Numbers, Taken, Code
<1>2. IsFiniteSet(N)
  <2> DEFINE C == {d \in Taken(codes) : d.form # "other"}
             f == [c \in C |-> c.number]
  <2>1. IsFiniteSet(C)
    BY FS_Subset DEF Taken
  <2>2. IsFiniteSet({f[c] : c \in C})
    BY <2>1, ImageFinite DEF Image
  <2>3. {f[c] : c \in C} = Numbers(codes)
    BY DEF Numbers
  <2> QED  BY <2>2, <2>3, FS_AddElement
<1>3. \E x \in N : \A y \in N : x >= y
  <2>1. N \subseteq Int /\ N # {}
    BY <1>1
  <2> HIDE DEF N
  <2> QED  BY <1>2, <2>1, Greatest
<1>4. Max(N) \in N /\ \A y \in N : Max(N) >= y
  BY <1>3 DEF Max
<1>5. PICK c : c = NextCode(codes)
  OBVIOUS
<1>6. c = [form |-> "padded", number |-> Max(N) + 1]
  BY <1>5 DEF NextCode, AutoCode
<1>7. Max(N) \in Nat
  BY <1>1, <1>4
<1>8. c \in Code
  BY <1>6, <1>7 DEF Code
<1>9. c # None
  BY <1>8, CatalogueAssumption
<1>10. ASSUME c \in codes PROVE FALSE
  <2>1. c.number \in Numbers(codes)
    BY <1>6, <1>9, <1>10 DEF Numbers, Taken
  <2>2. Max(N) >= c.number /\ c.number = Max(N) + 1
    BY <1>4, <1>6, <2>1
  <2> HIDE DEF N
  <2> QED  BY <1>7, <2>2
<1> QED  BY <1>5, <1>8, <1>10

LEMMA ColumnType ==
  ASSUME NEW n \in Nat
  PROVE  ToColumn(n) \in Nat
BY HalfUpRounds DEF ToColumn, Rounded

LEMMA KeptType ==
  ASSUME NEW n \in Nat, NEW c
  PROVE  Kept(c, n) \in Nat
BY ColumnType DEF Kept

LEMMA PricedType ==
  ASSUME NEW line \in ReceiptLine
  PROVE  Priced(line) \in Row
<1>1. line.purchase_price \in Nat /\ line.markup_amount \in Nat /\ line.gst_percentage \in Nat
  BY DEF ReceiptLine
<1>2. ComputeSellingPrice(line.purchase_price, line.markup_amount) \in Nat
  BY <1>1, HalfUpRounds, line.purchase_price + line.markup_amount \in Nat
     DEF ComputeSellingPrice, Rounded
<1> QED  BY <1>1, <1>2 DEF Priced, Row, Columns

LEMMA EditedType ==
  ASSUME NEW row \in Row, NEW edit \in Edit
  PROVE  Edited(row, edit) \in Row
<1> DEFINE m == IF edit.markup_amount = None THEN row["markup_amount"] ELSE edit.markup_amount
<1>1. row["purchase_price"] \in Nat /\ m \in Nat
  BY DEF Row, Columns, Edit
<1>2. ComputeSellingPrice(row["purchase_price"], m) \in Nat
  <2> HIDE DEF m
  <2> QED  BY <1>1, HalfUpRounds, row["purchase_price"] + m \in Nat DEF ComputeSellingPrice, Rounded
<1> QED  BY <1>1, <1>2 DEF Edited, Row, Columns, Edit

LEMMA FirstRowDirty ==
  ASSUME NEW r, DirtyRows(r) # {}
  PROVE  FirstRow(r) \in DirtyRows(r) /\ FirstRow(r) \in Existing
<1> DEFINE I == {p[2] : p \in DirtyRows(r)}
<1>1. \A p \in DirtyRows(r) : p \in Existing /\ p[2] \in 1..Initial
  BY DEF DirtyRows, Existing
<1>2. I \subseteq 1..Initial /\ I # {} /\ I \subseteq Int
  BY <1>1
<1>3. IsFiniteSet(I)
  <2>1. Initial \in Int
    BY CatalogueAssumption
  <2>2. IsFiniteSet(1..Initial)
    BY <2>1, FS_Interval
  <2> QED  BY <1>2, <2>2, FS_Subset
<1> HIDE DEF I
<1>4. \E x \in I : \A y \in I : x <= y
  BY <1>2, <1>3, Least
<1>5. \E p \in DirtyRows(r) : \A q \in DirtyRows(r) : p[2] <= q[2]
  BY <1>4 DEF I
<1> QED  BY <1>1, <1>5 DEF FirstRow

-----------------------------------------------------------------------------
(* Type correctness *)

SessionTypes ==
  /\ turn \in [Requests -> 1..(MaxLines + 1)]
  /\ loaded \in [Requests -> [Products -> Row \cup {None}]]
  /\ mine \in [Requests -> [Products -> Row \cup {None}]]
  /\ sent \in [Requests -> [Products -> [Columns -> Nat \cup {None}]]]
  /\ moved \in [Requests -> SUBSET Existing]
  /\ newCode \in [Requests -> [Products -> Code \cup {None}]]
  /\ locks \in [Requests -> SUBSET Existing]

TableTypes ==
  /\ product \in [Products -> Row \cup {None}]
  /\ code \in [Products -> Code \cup {None}]
  /\ stale \subseteq Existing
  /\ \A p \in Existing : product[p] # None

StepTypes ==
  /\ pc \in [Requests -> {"idle", "quoted", "checked", "line", "flushing", "ending", "done"}]
  /\ task \in [Requests -> {NoTask} \cup SaleTask \cup EditTask \cup PurchaseTask]

BillTypes ==
  /\ paid \in [Requests -> Seq(Nat)]
  /\ DOMAIN quote = Requests /\ DOMAIN bill = Requests /\ DOMAIN sale = Requests

LEMMA TypeParts == TypeInv <=> SessionTypes /\ TableTypes /\ StepTypes /\ BillTypes
BY DEF TypeInv, CatalogueTypeOK, SessionTypes, TableTypes, StepTypes, BillTypes

LEMMA TypePartsNext == TypeInv' <=> SessionTypes' /\ TableTypes' /\ StepTypes' /\ BillTypes'
BY DEF TypeInv, CatalogueTypeOK, SessionTypes, TableTypes, StepTypes, BillTypes

LEMMA CloseType ==
  ASSUME SessionTypes, NEW r \in Requests, CloseSession(r)
  PROVE  SessionTypes'
<1>1. 1 \in 1..(MaxLines + 1)
  BY CatalogueAssumption
<1>2. /\ NoneOf(Products) \in [Products -> Row \cup {None}]
      /\ NoneOf(Products) \in [Products -> Code \cup {None}]
      /\ [p \in Products |-> NoneOf(Columns)] \in [Products -> [Columns -> Nat \cup {None}]]
  BY DEF NoneOf
<1>3. {} \in SUBSET Existing
  OBVIOUS
<1> QED  BY <1>1, <1>2, <1>3 DEF SessionTypes, CloseSession

LEMMA WriteType ==
  ASSUME TypeInv, SessionsOK, NEW r \in Requests, Commit(r)
  PROVE  TableTypes'
<1> DEFINE new(p) == [c \in Columns |-> Kept(c, mine[r][p][c])]
           merged(p) == [c \in Columns |-> IF sent[r][p][c] = None THEN product[p][c] ELSE sent[r][p][c]]
<1>1. ASSUME NEW p \in Products, newCode[r][p] # None
      PROVE  new(p) \in Row
  <2>1. mine[r][p] \in Row
    BY <1>1 DEF SessionsOK, KnowsProduct, TypeInv, CatalogueTypeOK
  <2>2. \A c \in Columns : Kept(c, mine[r][p][c]) \in Nat
    BY <2>1, KeptType DEF Row
  <2> QED  BY <2>2 DEF Row
<1>2. ASSUME NEW p \in Products, p \in locks[r]
      PROVE  merged(p) \in Row
  <2>1. p \in Existing /\ product[p] \in Row /\ sent[r][p] \in [Columns -> Nat \cup {None}]
    BY <1>2 DEF TypeInv, CatalogueTypeOK
  <2>2. \A c \in Columns : product[p][c] \in Nat /\ sent[r][p][c] \in Nat \cup {None}
    BY <2>1 DEF Row
  <2> QED  BY <2>2 DEF Row
<1>3. product' = [p \in Products |-> IF newCode[r][p] # None THEN new(p)
                                     ELSE IF p \in locks[r] THEN merged(p) ELSE product[p]]
  BY DEF Commit, WriteRows
<1>4. \A p \in Products : product[p] \in Row \cup {None}
  BY DEF TypeInv, CatalogueTypeOK
<1> HIDE DEF new, merged
<1>5. product' \in [Products -> Row \cup {None}]
  BY <1>1, <1>2, <1>3, <1>4
<1>6. \A p \in Existing : product'[p] # None
  <2>1. None \notin Row
    BY CatalogueAssumption
  <2>2. \A p \in Existing : p \in Products /\ product[p] # None
    BY DEF TypeInv, Products
  <2> QED  BY <1>1, <1>2, <1>3, <2>1, <2>2
<1>7. code' \in [Products -> Code \cup {None}] /\ stale' \subseteq Existing
  BY DEF Commit, TypeInv, CatalogueTypeOK
<1> QED  BY <1>5, <1>6, <1>7 DEF TableTypes

LEMMA CodeOfType ==
  ASSUME TypeInv, NEW r \in Requests, ThisLine(r).code \in Code \cup {None}
  PROVE  CodeOf(r) \in Code
<1>1. CodesSeen(r) \subseteq Code \cup {None}
  BY DEF CodesSeen, TypeInv, CatalogueTypeOK
<1>2. IsFiniteSet(CodesSeen(r))
  <2>1. IsFiniteSet({code[p] : p \in Products}) /\ IsFiniteSet({newCode[r][p] : p \in Products})
    BY ProductsFinite, ImageFinite DEF Image
  <2> QED  BY <2>1, FS_Union DEF CodesSeen
<1>3. NextCode(CodesSeen(r)) \in Code
  BY <1>1, <1>2, NextCodeIsNew
<1> QED  BY <1>3 DEF CodeOf

LEMMA LineType ==
  ASSUME TypeInv, SessionsOK, NEW r \in Requests, pc[r] \in {"line", "flushing"}, LinesLeft(r)
  PROVE  /\ task[r].receipt \in Seq(ReceiptLine)
         /\ turn[r] \in 1..Len(task[r].receipt)
         /\ turn[r] + 1 \in 1..(MaxLines + 1)
         /\ ThisLine(r) \in ReceiptLine
         /\ <<r, turn[r]>> \in NewProducts
<1>1. task[r].receipt \in Seq(ReceiptLine) /\ Len(task[r].receipt) <= MaxLines
  BY DEF SessionsOK, KnowsTask, PurchaseTask
<1>2. Len(task[r].receipt) \in Nat /\ MaxLines \in Nat /\ turn[r] \in 1..(MaxLines + 1)
  BY <1>1, CatalogueAssumption DEF TypeInv, CatalogueTypeOK
<1>3. turn[r] \in 1..Len(task[r].receipt) /\ turn[r] + 1 \in 1..(MaxLines + 1) /\ turn[r] \in 1..MaxLines
  BY <1>1, <1>2 DEF LinesLeft
<1> QED  BY <1>1, <1>3 DEF ThisLine, NewProducts

\* A line with its code filled in.
LEMMA CodedType ==
  ASSUME NEW t \in PurchaseTask, NEW i \in 1..Len(t.receipt), NEW c \in Code
  PROVE  LET u == [t EXCEPT !.receipt[i].code = c]
         IN /\ u \in PurchaseTask
            /\ Len(u.receipt) = Len(t.receipt)
            /\ u.receipt[i].product = t.receipt[i].product
            /\ u.receipt[i].code = c
<1> DEFINE line == [t.receipt[i] EXCEPT !.code = c]
           receipt == [t.receipt EXCEPT ![i] = line]
           u == [t EXCEPT !.receipt = receipt]
<1>1. t.receipt \in Seq(ReceiptLine) /\ t.receipt[i] \in ReceiptLine
  BY DEF PurchaseTask
<1>2. line \in ReceiptLine /\ line.product = t.receipt[i].product /\ line.code = c
  BY <1>1 DEF ReceiptLine
<1> HIDE DEF line
<1>3. receipt \in Seq(ReceiptLine) /\ Len(receipt) = Len(t.receipt) /\ receipt[i] = line
  BY <1>1, <1>2
<1> HIDE DEF receipt
<1>4. u \in PurchaseTask /\ u.receipt = receipt
  BY <1>3 DEF PurchaseTask
<1>5. [t EXCEPT !.receipt[i].code = c] = u
  BY DEF receipt, line
<1> HIDE DEF u
<1> QED  BY <1>2, <1>3, <1>4, <1>5

\* What the flush of a row does to it.
LEMMA FlushDoes ==
  ASSUME TypeInv, SessionsOK, NEW r \in Requests, FlushRow(r)
  PROVE  \E p \in Existing, row \in [Columns -> Nat \cup {None}] :
           /\ ~LockedByOther(r, p)
           /\ moved' = [moved EXCEPT ![r] = @ \ {p}]
           /\ locks' = [locks EXCEPT ![r] = @ \cup {p}]
           /\ stale' = IF p \in locks[r] \/ loaded[r][p] \in {None, product[p]} THEN stale ELSE stale \cup {p}
           /\ row = [c \in Columns |-> IF c \in Changed(r, p) THEN Kept(c, mine[r][p][c]) ELSE sent[r][p][c]]
           /\ sent' = [sent EXCEPT ![r][p] = row]
           /\ loaded' = [loaded EXCEPT ![r][p] = mine[r][p]]
<1>1. PICK p : p = FirstRow(r)
  OBVIOUS
<1>2. p \in Existing /\ p \in Products
  BY <1>1, FirstRowDirty DEF FlushRow, Products
<1> DEFINE row == [c \in Columns |-> IF c \in Changed(r, p) THEN Kept(c, mine[r][p][c]) ELSE sent[r][p][c]]
<1>3. /\ ~LockedByOther(r, p)
      /\ moved' = [moved EXCEPT ![r] = @ \ {p}]
      /\ locks' = [locks EXCEPT ![r] = @ \cup {p}]
      /\ stale' = IF p \in locks[r] \/ loaded[r][p] \in {None, product[p]} THEN stale ELSE stale \cup {p}
      /\ loaded' = [loaded EXCEPT ![r][p] = mine[r][p]]
  BY <1>1 DEF FlushRow
<1>4. sent' = [sent EXCEPT ![r][p] = row]
  BY <1>1 DEF FlushRow
<1>5. row \in [Columns -> Nat \cup {None}]
  <2>1. ASSUME NEW c \in Columns, c \in Changed(r, p)
        PROVE  Kept(c, mine[r][p][c]) \in Nat
    <3>1. mine[r][p] \in Row
      BY <1>2, <2>1 DEF Changed, TypeInv, CatalogueTypeOK
    <3> QED  BY <3>1, KeptType DEF Row
  <2>2. \A c \in Columns : sent[r][p][c] \in Nat \cup {None}
    BY <1>2 DEF TypeInv, CatalogueTypeOK
  <2> QED  BY <2>1, <2>2
<1> QED  BY <1>2, <1>3, <1>4, <1>5

LEMMA CatalogueStepType ==
  ASSUME TypeInv, SessionsOK, NEW r \in Requests, CatalogueStep(r)
  PROVE  SessionTypes' /\ TableTypes' /\ StepTypes'
<1>0. SessionTypes /\ TableTypes /\ StepTypes
  BY TypeParts
<1>1. ASSUME NEW receipt \in Receipts, OpenPurchase(r, receipt)
      PROVE  SessionTypes' /\ TableTypes' /\ StepTypes'
  <2>1. [op |-> "purchase", receipt |-> receipt] \in PurchaseTask
    BY CatalogueAssumption DEF PurchaseTask
  <2> QED  BY <1>0, <1>1, <2>1
           DEF OpenPurchase, Start, SessionTypes, TableTypes, StepTypes, sessionVars
<1>2. ASSUME NEW p \in Existing, NEW edit \in Edits, OpenEdit(r, p, edit)
      PROVE  SessionTypes' /\ TableTypes' /\ StepTypes'
  <2>1. [op |-> "edit", product |-> p] \in EditTask
    BY DEF EditTask
  <2>2. p \in Products /\ product[p] \in Row
    BY <1>0, <1>2 DEF OpenEdit, TableTypes, Products
  <2>3. Edited(product[p], edit) \in Row
    BY <2>2, EditedType, CatalogueAssumption
  <2>4. /\ loaded' = [loaded EXCEPT ![r][p] = product[p]]
        /\ mine' = [mine EXCEPT ![r][p] = Edited(product[p], edit)]
        /\ UNCHANGED <<product, code, turn, sent, moved, newCode, locks, stale>>
    BY <1>2 DEF OpenEdit
  <2>5. SessionTypes'
    BY <1>0, <2>2, <2>3, <2>4 DEF SessionTypes
  <2>6. StepTypes'
    BY <1>0, <1>2, <2>1 DEF OpenEdit, Start, StepTypes
  <2> QED  BY <1>0, <2>4, <2>5, <2>6 DEF TableTypes
<1>3. ASSUME RestockLine(r)
      PROVE  SessionTypes' /\ TableTypes' /\ StepTypes'
  <2>1. ThisLine(r) \in ReceiptLine /\ turn[r] + 1 \in 1..(MaxLines + 1)
    BY <1>3, LineType DEF RestockLine
  <2>2. PICK p : p = ThisLine(r).product
    OBVIOUS
  <2>3. p \in Existing /\ p \in Products /\ Priced(ThisLine(r)) \in Row
    BY <1>3, <2>1, <2>2, PricedType DEF RestockLine, ReceiptLine, Products
  <2>4. PICK row : row = IF loaded[r][p] = None THEN product[p] ELSE loaded[r][p]
    OBVIOUS
  <2>5. row \in Row \cup {None}
    BY <1>0, <2>3, <2>4 DEF SessionTypes, TableTypes
  <2>6. /\ loaded' = [loaded EXCEPT ![r][p] = row]
        /\ mine' = [mine EXCEPT ![r][p] = Priced(ThisLine(r))]
        /\ moved' = [moved EXCEPT ![r] = @ \cup {p}]
        /\ turn' = [turn EXCEPT ![r] = @ + 1]
        /\ UNCHANGED <<product, code, pc, task, sent, newCode, locks, stale>>
    BY <1>0, <1>3, <2>2, <2>3, <2>4 DEF RestockLine, SessionTypes
  <2>7. SessionTypes'
    BY <1>0, <2>1, <2>3, <2>5, <2>6 DEF SessionTypes
  <2> QED  BY <1>0, <2>6, <2>7 DEF TableTypes, StepTypes
<1>4. ASSUME Picks(r)
      PROVE  SessionTypes' /\ TableTypes' /\ StepTypes'
  <2>1. turn[r] \in 1..Len(task[r].receipt) /\ task[r] \in PurchaseTask /\ ThisLine(r) \in ReceiptLine
    BY <1>4, LineType DEF Picks, SessionsOK, KnowsTask
  <2>2. CodeOf(r) \in Code
    BY <2>1, CodeOfType DEF ReceiptLine
  <2>3. PICK t : t = [task[r] EXCEPT !.receipt[turn[r]].code = CodeOf(r)]
    OBVIOUS
  <2>4. t \in PurchaseTask
    BY <2>1, <2>2, <2>3, CodedType
  <2>5. task' = [task EXCEPT ![r] = t] /\ pc' = [pc EXCEPT ![r] = "flushing"]
    BY <1>4, <2>3 DEF Picks
  <2>6. StepTypes'
    BY <1>0, <2>4, <2>5 DEF StepTypes
  <2> QED  BY <1>0, <1>4, <2>6 DEF Picks, SessionTypes, TableTypes, sessionVars
<1>5. ASSUME FlushRow(r)
      PROVE  SessionTypes' /\ TableTypes' /\ StepTypes'
  <2>1. PICK p \in Existing, row \in [Columns -> Nat \cup {None}] :
          /\ moved' = [moved EXCEPT ![r] = @ \ {p}]
          /\ locks' = [locks EXCEPT ![r] = @ \cup {p}]
          /\ stale' = IF p \in locks[r] \/ loaded[r][p] \in {None, product[p]} THEN stale ELSE stale \cup {p}
          /\ sent' = [sent EXCEPT ![r][p] = row]
          /\ loaded' = [loaded EXCEPT ![r][p] = mine[r][p]]
    BY <1>5, FlushDoes
  <2>2. UNCHANGED <<product, code, pc, task, turn, mine, newCode>>
    BY <1>5 DEF FlushRow
  <2>3. p \in Products /\ mine[r][p] \in Row \cup {None}
    BY <1>0 DEF SessionTypes, Products
  <2>4. SessionTypes'
    BY <1>0, <2>1, <2>2, <2>3 DEF SessionTypes
  <2>5. TableTypes'
    BY <1>0, <2>1, <2>2 DEF TableTypes
  <2> QED  BY <1>0, <2>2, <2>4, <2>5 DEF StepTypes
<1>6. ASSUME Inserts(r)
      PROVE  SessionTypes' /\ TableTypes' /\ StepTypes'
  <2>1. pc[r] = "flushing" /\ LinesLeft(r) /\ ThisLine(r).code \in Code
    BY <1>6 DEF Inserts, SessionsOK, KnowsTask
  <2>2. ThisLine(r) \in ReceiptLine /\ turn[r] + 1 \in 1..(MaxLines + 1) /\ <<r, turn[r]>> \in NewProducts
    BY <2>1, LineType
  <2>3. PICK p : p = <<r, turn[r]>>
    OBVIOUS
  <2>4. PICK row : row = Priced(ThisLine(r))
    OBVIOUS
  <2>5. PICK c : c = ThisLine(r).code
    OBVIOUS
  <2>6. p \in Products /\ row \in Row /\ c \in Code
    BY <2>1, <2>2, <2>3, <2>4, <2>5, PricedType DEF Products
  <2>7. /\ newCode' = [newCode EXCEPT ![r][p] = c]
        /\ mine' = [mine EXCEPT ![r][p] = row]
        /\ loaded' = [loaded EXCEPT ![r][p] = row]
        /\ pc' = [pc EXCEPT ![r] = "line"]
        /\ turn' = [turn EXCEPT ![r] = @ + 1]
        /\ UNCHANGED <<product, code, task, sent, moved, locks, stale>>
    BY <1>6, <2>3, <2>4, <2>5 DEF Inserts, AddProduct
  <2>8. SessionTypes'
    BY <1>0, <2>2, <2>6, <2>7 DEF SessionTypes
  <2> QED  BY <1>0, <2>7, <2>8 DEF TableTypes, StepTypes
<1>7. ASSUME EndPurchase(r)
      PROVE  SessionTypes' /\ TableTypes' /\ StepTypes'
  BY <1>0, <1>7 DEF EndPurchase, SessionTypes, TableTypes, StepTypes, sessionVars
<1>8. ASSUME Commit(r)
      PROVE  SessionTypes' /\ TableTypes' /\ StepTypes'
  BY <1>0, <1>8, CloseType, WriteType DEF Commit, StepTypes
<1> QED  BY <1>1, <1>2, <1>3, <1>4, <1>5, <1>6, <1>7, <1>8 DEF CatalogueStep

LEMMA BillOfReckoned ==
  ASSUME TypeInv, NEW order \in Orders
  PROVE  Reckoned(BillOf(order), Mode(order))
<1>1. /\ order.items \in Seq(OrderLine) /\ order.bill_discount \in Nat /\ Mode(order) \in GSTModes
      /\ Supply(order) \in Supplies
  BY TillAssumption DEF Order, Mode, Supply, GSTModes
<1>2. PICK n \in Nat : DOMAIN order.items = 1..n
  BY <1>1
<1>3. ASSUME NEW i \in 1..n
      PROVE  LineInputs(order)[i] \in LineInput
  <2>1. order.items[i] \in OrderLine
    BY <1>1, <1>2
  <2>2. PICK item : item = order.items[i]
    OBVIOUS
  <2>3. item.product \in Existing /\ item.quantity \in Nat /\ item.discount \in Nat
    BY <2>1, <2>2 DEF OrderLine
  <2>4. product[item.product] \in Row
    BY <2>3 DEF TypeInv, CatalogueTypeOK, Products
  <2>5. PICK row : row = product[item.product]
    OBVIOUS
  <2>6. row.selling_price \in Nat /\ row.gst_percentage \in Nat
    BY <2>4, <2>5 DEF Row, Columns
  <2>7. row.selling_price \div 10 \in Nat
    BY <2>6, DivBounds
  <2>8. LineInputs(order)[i] =
          [unit_price |-> row.selling_price \div 10, quantity |-> item.quantity,
           gst_percentage |-> row.gst_percentage, discount |-> item.discount]
    BY <1>2, <2>2, <2>5 DEF LineInputs
  <2> QED  BY <2>3, <2>6, <2>7, <2>8 DEF LineInput
<1>4. LineInputs(order) \in Seq(LineInput)
  <2>1. DOMAIN LineInputs(order) = 1..n /\ LineInputs(order) = [i \in 1..n |-> LineInputs(order)[i]]
    BY <1>2 DEF LineInputs
  <2>2. LineInputs(order) \in [1..n -> LineInput]
    BY <1>3, <2>1
  <2> QED  BY <2>2
<1>5. ChargeGst(order) \in BOOLEAN
  BY DEF ChargeGst
<1> QED  BY <1>1, <1>4, <1>5, BillReckoned DEF BillOf

LEMMA TotalType ==
  ASSUME NEW b, NEW mode, Reckoned(b, mode)
  PROVE  b.grand_total \in Nat
<1>1. PICK n \in Nat : DOMAIN b.lines = 1..n
  BY DEF Reckoned
<1> DEFINE f == [i \in DOMAIN b.lines |-> b.lines[i].line_total]
<1>2. \A i \in 1..n : f[i] \in Nat
  BY <1>1 DEF Reckoned, LineOK
<1>3. DOMAIN f = 1..n
  BY <1>1
<1>4. b.grand_total = SumFunction(f)
  BY DEF Reckoned
<1> HIDE DEF f
<1> QED  BY <1>2, <1>3, <1>4, SumOfIntegers

\* A row keeps an amount to half a paisa.
LEMMA RowRounds ==
  ASSUME NEW x \in Int, NEW y, x >= 0, y = ToColumn(x)
  PROVE  y \in Nat /\ -4 <= 10 * y - x /\ 10 * y - x <= 5
<1>1. y = (2 * x + 10) \div 20
  BY DEF ToColumn, HalfUp
<1> QED  BY <1>1

\* What was left over of the amounts cancels out, but for half a paisa a row and
\* half a paisa of their sum.
LEMMA PaymentRows ==
  ASSUME NEW total \in Nat, NEW amounts, Pays(amounts, total)
  PROVE  RowsCover([i \in DOMAIN amounts |-> ToColumn(amounts[i])], total)
<1> DEFINE S == DOMAIN amounts
           rows == [i \in DOMAIN amounts |-> ToColumn(amounts[i])]
           two == [i \in S |-> rows[i] + rows[i]]
           four == [i \in S |-> two[i] + two[i]]
           five == [i \in S |-> four[i] + rows[i]]
           ten == [i \in S |-> five[i] + five[i]]
           over == [i \in S |-> ten[i] - amounts[i]]
           low == [i \in S |-> -4]
           high == [i \in S |-> 5]
           Of(f) == SumFunctionOnSet(f, S)
<1>1. PICK n \in Nat : S = 1..n /\ Len(amounts) = n
  BY DEF Pays
<1>2. IsFiniteSet(S) /\ Cardinality(S) = n
  BY <1>1, FS_Interval
<1>3. \A i \in S : amounts[i] \in Nat
  BY <1>1 DEF Pays
<1>4. \A i \in S : /\ rows[i] \in Int /\ two[i] = rows[i] + rows[i] /\ four[i] = two[i] + two[i]
                   /\ five[i] = four[i] + rows[i] /\ ten[i] = five[i] + five[i]
                   /\ over[i] = ten[i] - amounts[i] /\ low[i] = -4 /\ high[i] = 5
                   /\ -4 <= 10 * rows[i] - amounts[i] /\ 10 * rows[i] - amounts[i] <= 5
  <2> TAKE i \in S
  <2>1. PICK x \in Nat : x = amounts[i]
    BY <1>3
  <2>2. rows[i] = ToColumn(x)
    BY <2>1
  <2> QED  BY <2>1, <2>2, RowRounds
<1> HIDE DEF rows, two, four, five, ten, over, low, high
<1>5. \A i \in S : /\ two[i] \in Int /\ four[i] \in Int /\ five[i] \in Int /\ ten[i] \in Int
                   /\ ten[i] = amounts[i] + over[i] /\ over[i] \in Int
                   /\ low[i] <= over[i] /\ over[i] <= high[i]
  <2> TAKE i \in S
  <2>1. amounts[i] \in Nat /\ rows[i] \in Int
    BY <1>3, <1>4
  <2>2. two[i] = 2 * rows[i] /\ four[i] = 4 * rows[i] /\ five[i] = 5 * rows[i] /\ ten[i] = 10 * rows[i]
    BY <1>4, <2>1
  <2> QED  BY <1>4, <2>1, <2>2
<1>6. Of(two) = Of(rows) + Of(rows)
  BY <1>2, <1>4, SumPlus
<1>7. Of(four) = Of(two) + Of(two)
  BY <1>2, <1>4, <1>5, SumPlus
<1>8. Of(five) = Of(four) + Of(rows)
  BY <1>2, <1>4, <1>5, SumPlus
<1>9. Of(ten) = Of(five) + Of(five)
  BY <1>2, <1>4, <1>5, SumPlus
<1>10. Of(ten) = Of(amounts) + Of(over)
  BY <1>2, <1>3, <1>5, SumPlus
<1>11. Of(low) = (-4) * n /\ Of(high) = 5 * n
  BY <1>2, <1>4, SumConstant
<1>12. Of(low) <= Of(over)
  BY <1>2, <1>4, <1>5, SumMonotone
<1>13. Of(over) <= Of(high)
  BY <1>2, <1>4, <1>5, SumMonotone
<1>14. Of(rows) \in Int /\ Of(over) \in Int
  BY <1>2, <1>4, <1>5, SumType
<1>15. Of(amounts) \in Nat
  BY <1>2, <1>3, SumNat
<1>16. Of(amounts) = Sum(amounts) /\ ToColumn(Sum(amounts)) = total
  BY DEF Pays, Sum, SumFunction
<1> HIDE DEF Of
<1>17. -4 <= 10 * total - Of(amounts) /\ 10 * total - Of(amounts) <= 5
  BY <1>15, <1>16, RowRounds
<1>18. 10 * Of(rows) = Of(amounts) + Of(over)
  BY <1>6, <1>7, <1>8, <1>9, <1>10, <1>14
<1>19. Within(Of(rows) - total, n \div 2)
  <2>1. PICK x \in Int, a \in Nat, o \in Int : x = Of(rows) /\ a = Of(amounts) /\ o = Of(over)
    BY <1>14, <1>15
  <2>2. -(4 * n) <= o /\ o <= 5 * n
    BY <1>11, <1>12, <1>13, <2>1
  <2>3. 10 * (x - total) <= 5 * n + 4 /\ -(4 * n + 5) <= 10 * (x - total)
    BY <1>17, <1>18, <2>1, <2>2
  <2>4. n >= 1
    BY <1>1 DEF Pays
  <2>5. x - total <= n \div 2 /\ -(n \div 2) <= x - total
    BY <2>3, <2>4
  <2> QED  BY <2>1, <2>5 DEF Within
<1>20. Sum(rows) = Of(rows) /\ Len(rows) = n
  <2>1. DOMAIN rows = S
    BY DEF rows
  <2>2. rows \in Seq(Int)
    <3>1. rows = [i \in 1..n |-> rows[i]]
      BY <1>1 DEF rows
    <3> QED  BY <1>1, <1>4, <3>1
  <2> QED  BY <1>1, <2>1, <2>2 DEF Of, Sum, SumFunction
<1>21. RowsCover(rows, total)
  BY <1>14, <1>19, <1>20 DEF RowsCover
<1> QED  BY <1>21 DEF rows

LEMMA InvType ==
  ASSUME TypeInv, SessionsOK, BillsOK, NEW r \in Requests, Step(r)
  PROVE  TypeInv'
<1>0. SessionTypes /\ TableTypes /\ StepTypes /\ BillTypes
  BY TypeParts
<1>1. ASSUME CatalogueStep(r), UNCHANGED tillVars
      PROVE  TypeInv'
  <2>1. BillTypes'
    BY <1>0, <1>1 DEF BillTypes, tillVars
  <2> QED  BY <1>1, <2>1, CatalogueStepType, TypePartsNext
<1>2. ASSUME NEW order \in Orders, Preview(r, order)
      PROVE  TypeInv'
  <2>1. [op |-> "sale", order |-> order] \in SaleTask
    BY DEF SaleTask
  <2>2. StepTypes' /\ SessionTypes' /\ TableTypes' /\ BillTypes'
    BY <1>0, <1>2, <2>1 DEF Preview, Start, StepTypes, SessionTypes, TableTypes, BillTypes, sessionVars
  <2> QED  BY <2>2, TypePartsNext
<1>3. ASSUME Checkout(r)
      PROVE  TypeInv'
  <2>1. Reckoned(quote[r], Mode(task[r].order))
    BY <1>3 DEF Checkout, BillsOK, KnowsBill
  <2>2. quote[r].grand_total \in Nat
    BY <2>1, TotalType
  <2>3. PICK amounts : Pays(amounts, quote[r].grand_total) /\ paid' = [paid EXCEPT ![r] = amounts]
    BY <1>3 DEF Checkout
  <2>4. amounts \in Seq(Nat)
    BY <2>3 DEF Pays
  <2>5. BillTypes'
    BY <1>0, <1>3, <2>3, <2>4 DEF BillTypes, Checkout
  <2>6. StepTypes' /\ SessionTypes' /\ TableTypes'
    BY <1>0, <1>3 DEF Checkout, StepTypes, SessionTypes, TableTypes, sessionVars
  <2> QED  BY <2>5, <2>6, TypePartsNext
<1>4. ASSUME Accepts(r)
      PROVE  TypeInv'
  <2>1. {task[r].order.items[i].product : i \in DOMAIN task[r].order.items} \subseteq Existing
    <3>1. task[r].order \in Order
      BY <1>4, TillAssumption DEF Accepts, SessionsOK, KnowsTask, SaleTask
    <3>2. task[r].order.items \in Seq(OrderLine)
      BY <3>1 DEF Order
    <3>3. \A i \in DOMAIN task[r].order.items : task[r].order.items[i] \in OrderLine
      BY <3>2
    <3> QED  BY <3>3 DEF OrderLine
  <2>2. PICK S : S = {task[r].order.items[i].product : i \in DOMAIN task[r].order.items}
    OBVIOUS
  <2>3. moved' = [moved EXCEPT ![r] = S] /\ S \subseteq Existing
    BY <1>4, <2>1, <2>2 DEF Accepts
  <2>4. SessionTypes'
    BY <1>0, <1>4, <2>3 DEF Accepts, SessionTypes
  <2>5. StepTypes' /\ TableTypes' /\ BillTypes'
    BY <1>0, <1>4 DEF Accepts, StepTypes, TableTypes, BillTypes, tillVars
  <2> QED  BY <2>4, <2>5, TypePartsNext
<1>5. ASSUME CommitSale(r)
      PROVE  TypeInv'
  <2>1. Commit(r) /\ ForgetBill(r)
    BY <1>5 DEF CommitSale
  <2>2. <<>> \in Seq(Nat)
    OBVIOUS
  <2>3. BillTypes'
    BY <1>0, <1>5, <2>1, <2>2 DEF BillTypes, ForgetBill, CommitSale
  <2>4. SessionTypes'
    BY <1>0, <2>1, CloseType DEF Commit
  <2>5. StepTypes'
    BY <1>0, <2>1 DEF Commit, StepTypes
  <2> QED  BY <2>1, <2>3, <2>4, <2>5, WriteType, TypePartsNext
<1>6. ASSUME Withdraws(r)
      PROVE  TypeInv'
  <2>1. <<>> \in Seq(Nat)
    OBVIOUS
  <2>2. BillTypes'
    BY <1>0, <1>6, <2>1 DEF BillTypes, ForgetBill, Withdraws
  <2>3. SessionTypes' /\ StepTypes' /\ TableTypes'
    BY <1>0, <1>6, CloseType DEF Withdraws, RollBack, StepTypes, TableTypes
  <2> QED  BY <2>2, <2>3, TypePartsNext
<1> QED  BY <1>1, <1>2, <1>3, <1>4, <1>5, <1>6 DEF Step

\* A step of one request leaves the others' sessions alone.
Same(s) ==
  /\ pc'[s] = pc[s] /\ task'[s] = task[s] /\ turn'[s] = turn[s]
  /\ loaded'[s] = loaded[s] /\ mine'[s] = mine[s] /\ sent'[s] = sent[s]
  /\ newCode'[s] = newCode[s] /\ locks'[s] = locks[s]

SameBill(s) == quote'[s] = quote[s] /\ bill'[s] = bill[s] /\ paid'[s] = paid[s] /\ sale'[s] = sale[s]

LEMMA Elsewhere ==
  ASSUME TypeInv, SessionsOK, NEW r \in Requests, Step(r), NEW s \in Requests, s # r
  PROVE  Same(s) /\ SameBill(s)
<1>0. SessionTypes /\ StepTypes /\ BillTypes
  BY TypeParts
<1>2. ASSUME CloseSession(r)
      PROVE  /\ turn'[s] = turn[s] /\ loaded'[s] = loaded[s] /\ mine'[s] = mine[s] /\ sent'[s] = sent[s]
             /\ newCode'[s] = newCode[s] /\ locks'[s] = locks[s]
  BY <1>0, <1>2 DEF CloseSession, SessionTypes
<1>3. ASSUME CatalogueStep(r)
      PROVE  Same(s)
  <2>1. CASE FlushRow(r)
    BY <1>0, <2>1 DEF FlushRow, Same, SessionTypes
  <2>2. CASE Picks(r)
    BY <1>0, <2>2 DEF Picks, Same, StepTypes, sessionVars
  <2>3. CASE Inserts(r)
    BY <1>0, <2>3 DEF Inserts, AddProduct, Same, SessionTypes, StepTypes
  <2>4. CASE RestockLine(r)
    BY <1>0, <2>4 DEF RestockLine, Same, SessionTypes, StepTypes
  <2>5. CASE EndPurchase(r)
    BY <1>0, <2>5 DEF EndPurchase, Same, SessionTypes, StepTypes, sessionVars
  <2>6. CASE Commit(r)
    BY <1>0, <1>2, <2>6 DEF Commit, Same, StepTypes
  <2>7. CASE \E receipt \in Receipts : OpenPurchase(r, receipt)
    BY <1>0, <2>7 DEF OpenPurchase, Start, Same, StepTypes, sessionVars
  <2>8. CASE \E p \in Existing, edit \in Edits : OpenEdit(r, p, edit)
    BY <1>0, <2>8 DEF OpenEdit, Start, Same, SessionTypes, StepTypes
  <2> QED  BY <1>3, <2>1, <2>2, <2>3, <2>4, <2>5, <2>6, <2>7, <2>8 DEF CatalogueStep
<1>4. CASE CatalogueStep(r) /\ UNCHANGED tillVars
  BY <1>3, <1>4 DEF SameBill, tillVars
<1>5. CASE \E order \in Orders : Preview(r, order)
  BY <1>0, <1>5 DEF Preview, Start, Same, SameBill, StepTypes, BillTypes, sessionVars
<1>6. CASE Checkout(r)
  BY <1>0, <1>6 DEF Checkout, Same, SameBill, StepTypes, BillTypes, sessionVars
<1>7. CASE Accepts(r)
  BY <1>0, <1>7 DEF Accepts, Same, SameBill, StepTypes, tillVars
<1>8. CASE CommitSale(r)
  BY <1>0, <1>2, <1>8 DEF CommitSale, Commit, ForgetBill, Same, SameBill, StepTypes, BillTypes
<1>9. CASE Withdraws(r)
  BY <1>0, <1>2, <1>9 DEF Withdraws, RollBack, ForgetBill, Same, SameBill, StepTypes, BillTypes
<1> QED  BY <1>4, <1>5, <1>6, <1>7, <1>8, <1>9 DEF Step

LEMMA ClosedKnows ==
  ASSUME TypeInv, NEW r \in Requests, CloseSession(r), NEW p \in Products
  PROVE  KnowsProduct(r, p)'
BY DEF CloseSession, KnowsProduct, NoneOf, TypeInv, CatalogueTypeOK

LEMMA InvSessions ==
  ASSUME TypeInv, SessionsOK, NEW r \in Requests, Step(r)
  PROVE  SessionsOK'
<1>0. SessionTypes /\ TableTypes /\ StepTypes
  BY TypeParts
<1>1. ASSUME NEW s \in Requests, s # r
      PROVE  KnowsTask(s)' /\ \A p \in Products : KnowsProduct(s, p)'
  BY <1>1, Elsewhere DEF SessionsOK, KnowsTask, KnowsProduct, Same, LinesLeft, ThisLine
<1>2. /\ NoTask \notin SaleTask \cup EditTask \cup PurchaseTask
      /\ SaleTask \cap PurchaseTask = {} /\ EditTask \cap PurchaseTask = {}
  BY DEF NoTask, SaleTask, EditTask, PurchaseTask
<1>3. KnowsTask(r) /\ \A p \in Products : KnowsProduct(r, p)
  BY DEF SessionsOK
<1>4. ASSUME NEW order \in Orders, Preview(r, order)
      PROVE  KnowsTask(r)' /\ \A p \in Products : KnowsProduct(r, p)'
  <2>1. [op |-> "sale", order |-> order] \in SaleTask
    BY DEF SaleTask
  <2>2. pc'[r] = "quoted" /\ task'[r] = [op |-> "sale", order |-> order] /\ UNCHANGED sessionVars
    BY <1>0, <1>4 DEF Preview, Start, StepTypes
  <2> QED  BY <1>2, <1>3, <2>1, <2>2 DEF KnowsTask, KnowsProduct, sessionVars
<1>5. ASSUME NEW receipt \in Receipts, OpenPurchase(r, receipt)
      PROVE  KnowsTask(r)' /\ \A p \in Products : KnowsProduct(r, p)'
  <2>1. [op |-> "purchase", receipt |-> receipt] \in PurchaseTask /\ Len(receipt) <= MaxLines
    BY CatalogueAssumption DEF PurchaseTask
  <2>2. pc'[r] = "line" /\ task'[r] = [op |-> "purchase", receipt |-> receipt] /\ UNCHANGED sessionVars
    BY <1>0, <1>5 DEF OpenPurchase, Start, StepTypes
  <2> QED  BY <1>2, <1>3, <2>1, <2>2 DEF KnowsTask, KnowsProduct, sessionVars
<1>6. ASSUME NEW p \in Existing, NEW edit \in Edits, OpenEdit(r, p, edit)
      PROVE  KnowsTask(r)' /\ \A q \in Products : KnowsProduct(r, q)'
  <2>1. [op |-> "edit", product |-> p] \in EditTask
    BY DEF EditTask
  <2>2. pc'[r] = "ending" /\ task'[r] = [op |-> "edit", product |-> p]
    BY <1>0, <1>6 DEF OpenEdit, Start, StepTypes
  <2>3. KnowsTask(r)'
    BY <1>2, <2>1, <2>2 DEF KnowsTask
  <2>4. p \in Products /\ product[p] # None /\ product[p] \in Row
    BY <1>0, <1>6 DEF OpenEdit, TableTypes, Products
  <2>5. Edited(product[p], edit) \in Row /\ None \notin Row
    BY <2>4, EditedType, CatalogueAssumption
  <2>6. PICK row : row = Edited(product[p], edit)
    OBVIOUS
  <2>7. /\ loaded' = [loaded EXCEPT ![r][p] = product[p]]
        /\ mine' = [mine EXCEPT ![r][p] = row]
        /\ UNCHANGED <<turn, newCode>> /\ row # None
    BY <1>6, <2>5, <2>6 DEF OpenEdit
  <2>8. ASSUME NEW q \in Products
        PROVE  /\ q # p => loaded'[r][q] = loaded[r][q] /\ mine'[r][q] = mine[r][q]
               /\ loaded'[r][p] = product[p] /\ mine'[r][p] = row
    BY <1>0, <2>4, <2>7 DEF SessionTypes
  <2>9. ASSUME NEW q \in Products
        PROVE  KnowsProduct(r, q)'
    BY <1>3, <2>4, <2>7, <2>8 DEF KnowsProduct
  <2> QED  BY <2>3, <2>9
<1>7. ASSUME Checkout(r)
      PROVE  KnowsTask(r)' /\ \A p \in Products : KnowsProduct(r, p)'
  <2>1. pc[r] = "quoted" /\ pc'[r] = "checked" /\ UNCHANGED <<task, sessionVars>>
    BY <1>0, <1>7 DEF Checkout, StepTypes
  <2> QED  BY <1>2, <1>3, <2>1 DEF KnowsTask, KnowsProduct, sessionVars
<1>8. ASSUME Accepts(r)
      PROVE  KnowsTask(r)' /\ \A p \in Products : KnowsProduct(r, p)'
  <2>1. pc[r] = "checked" /\ pc'[r] = "ending" /\ UNCHANGED <<task, turn, loaded, mine, newCode>>
    BY <1>0, <1>8 DEF Accepts, StepTypes
  <2> QED  BY <1>2, <1>3, <2>1 DEF KnowsTask, KnowsProduct
<1>9. ASSUME RestockLine(r)
      PROVE  KnowsTask(r)' /\ \A q \in Products : KnowsProduct(r, q)'
  <2>0. pc[r] = "line" /\ LinesLeft(r)
    BY <1>9 DEF RestockLine
  <2>1. ThisLine(r) \in ReceiptLine /\ turn[r] \in Nat
    <3>1. ThisLine(r) \in ReceiptLine /\ turn[r] + 1 \in 1..(MaxLines + 1)
      BY <2>0, LineType
    <3>2. turn[r] \in 1..(MaxLines + 1) /\ MaxLines \in Nat
      BY <1>0, CatalogueAssumption DEF SessionTypes
    <3> QED  BY <3>1, <3>2
  <2>2. PICK p : p = ThisLine(r).product
    OBVIOUS
  <2>3. p \in Existing /\ p \in Products /\ Priced(ThisLine(r)) \in Row /\ None \notin Row
    BY <1>9, <2>1, <2>2, PricedType, CatalogueAssumption DEF RestockLine, ReceiptLine, Products
  <2>4. PICK row : row = IF loaded[r][p] = None THEN product[p] ELSE loaded[r][p]
    OBVIOUS
  <2>5. PICK new : new = Priced(ThisLine(r))
    OBVIOUS
  <2>6. row # None /\ new # None
    BY <1>0, <2>3, <2>4, <2>5 DEF TableTypes
  <2>7. /\ loaded' = [loaded EXCEPT ![r][p] = row]
        /\ mine' = [mine EXCEPT ![r][p] = new]
        /\ turn' = [turn EXCEPT ![r] = @ + 1]
        /\ UNCHANGED <<pc, task, newCode>>
        /\ pc[r] = "line"
    BY <1>0, <1>9, <2>2, <2>3, <2>4, <2>5 DEF RestockLine, SessionTypes
  <2>8. ASSUME NEW q \in Products
        PROVE  /\ q # p => loaded'[r][q] = loaded[r][q] /\ mine'[r][q] = mine[r][q]
               /\ loaded'[r][p] = row /\ mine'[r][p] = new /\ turn'[r] = turn[r] + 1
    BY <1>0, <2>3, <2>7 DEF SessionTypes
  <2>9. KnowsTask(r)'
    BY <1>3, <2>7 DEF KnowsTask
  <2>10. ASSUME NEW q \in Products
         PROVE  KnowsProduct(r, q)'
    <3>1. q \in NewProducts => q[2] \in Nat
      BY DEF NewProducts
    <3> QED  BY <1>3, <2>1, <2>6, <2>7, <2>8, <3>1 DEF KnowsProduct
  <2> QED  BY <2>9, <2>10
<1>10. ASSUME Picks(r)
       PROVE  KnowsTask(r)' /\ \A p \in Products : KnowsProduct(r, p)'
  <2>1. turn[r] \in 1..Len(task[r].receipt) /\ task[r] \in PurchaseTask /\ ThisLine(r) \in ReceiptLine
    BY <1>10, LineType DEF Picks, SessionsOK, KnowsTask
  <2>2. CodeOf(r) \in Code
    BY <2>1, CodeOfType DEF ReceiptLine
  <2>3. PICK t : t = [task[r] EXCEPT !.receipt[turn[r]].code = CodeOf(r)]
    OBVIOUS
  <2>4. /\ t \in PurchaseTask
        /\ Len(t.receipt) = Len(task[r].receipt)
        /\ t.receipt[turn[r]].product = task[r].receipt[turn[r]].product
        /\ t.receipt[turn[r]].code = CodeOf(r)
    BY <2>1, <2>2, <2>3, CodedType
  <2>5. /\ task'[r] = t /\ pc'[r] = "flushing" /\ UNCHANGED sessionVars
        /\ pc[r] = "line" /\ LinesLeft(r) /\ ThisLine(r).product = None
    BY <1>0, <1>10, <2>3 DEF Picks, StepTypes
  <2>6. LinesLeft(r)' /\ ThisLine(r)'.product = None /\ ThisLine(r)'.code \in Code
    BY <2>2, <2>4, <2>5 DEF LinesLeft, ThisLine, sessionVars
  <2>7. Len(task[r].receipt) <= MaxLines
    BY <1>3, <2>1 DEF KnowsTask
  <2>8. KnowsTask(r)'
    BY <1>2, <2>4, <2>5, <2>6, <2>7 DEF KnowsTask
  <2> QED  BY <1>3, <2>5, <2>8 DEF KnowsProduct, sessionVars
<1>11. ASSUME FlushRow(r)
       PROVE  KnowsTask(r)' /\ \A q \in Products : KnowsProduct(r, q)'
  <2>1. PICK p \in Existing : loaded' = [loaded EXCEPT ![r][p] = mine[r][p]]
    BY <1>11, FlushDoes
  <2>2. UNCHANGED <<pc, task, turn, mine, newCode>>
    BY <1>11 DEF FlushRow
  <2>3. ASSUME NEW q \in Products
        PROVE  (q # p => loaded'[r][q] = loaded[r][q]) /\ loaded'[r][p] = mine[r][p]
    BY <1>0, <2>1 DEF SessionTypes, Products
  <2> QED  BY <1>3, <2>2, <2>3 DEF KnowsTask, KnowsProduct, LinesLeft, ThisLine
<1>12. ASSUME Inserts(r)
       PROVE  KnowsTask(r)' /\ \A q \in Products : KnowsProduct(r, q)'
  <2>1. pc[r] = "flushing" /\ LinesLeft(r) /\ ThisLine(r).code \in Code /\ task[r] \in PurchaseTask
    BY <1>12 DEF Inserts, SessionsOK, KnowsTask
  <2>2. ThisLine(r) \in ReceiptLine /\ turn[r] \in Nat /\ <<r, turn[r]>> \in NewProducts
    BY <2>1, LineType
  <2>3. PICK p : p = <<r, turn[r]>>
    OBVIOUS
  <2>4. PICK row : row = Priced(ThisLine(r))
    OBVIOUS
  <2>5. p \in Products /\ p \in NewProducts /\ p[1] = r /\ p[2] = turn[r] /\ row # None
    BY <2>2, <2>3, <2>4, PricedType, CatalogueAssumption DEF Products
  <2>6. PICK c : c = ThisLine(r).code
    OBVIOUS
  <2>7. /\ newCode' = [newCode EXCEPT ![r][p] = c]
        /\ mine' = [mine EXCEPT ![r][p] = row]
        /\ loaded' = [loaded EXCEPT ![r][p] = row]
        /\ pc'[r] = "line" /\ UNCHANGED task
        /\ turn' = [turn EXCEPT ![r] = @ + 1]
    BY <1>0, <1>12, <2>3, <2>4, <2>6 DEF Inserts, AddProduct, StepTypes
  <2>8. ASSUME NEW q \in Products
        PROVE  /\ q # p => /\ loaded'[r][q] = loaded[r][q] /\ mine'[r][q] = mine[r][q]
                           /\ newCode'[r][q] = newCode[r][q]
               /\ loaded'[r][p] = row /\ mine'[r][p] = row /\ newCode'[r][p] = c /\ turn'[r] = turn[r] + 1
    BY <1>0, <2>5, <2>7 DEF SessionTypes
  <2>9. KnowsTask(r)'
    BY <1>2, <1>3, <2>1, <2>7 DEF KnowsTask
  <2>10. ASSUME NEW q \in Products
         PROVE  KnowsProduct(r, q)'
    <3>1. q \in NewProducts => q[2] \in Nat
      BY DEF NewProducts
    <3> QED  BY <1>3, <2>2, <2>5, <2>8, <3>1 DEF KnowsProduct
  <2> QED  BY <2>9, <2>10
<1>13. ASSUME EndPurchase(r)
       PROVE  KnowsTask(r)' /\ \A p \in Products : KnowsProduct(r, p)'
  <2>1. pc[r] = "line" /\ pc'[r] = "ending" /\ UNCHANGED <<task, sessionVars>>
    BY <1>0, <1>13 DEF EndPurchase, StepTypes
  <2> QED  BY <1>2, <1>3, <2>1 DEF KnowsTask, KnowsProduct, sessionVars
<1>14. ASSUME Commit(r)
       PROVE  KnowsTask(r)' /\ \A p \in Products : KnowsProduct(r, p)'
  <2>1. pc[r] = "ending" /\ pc'[r] = "done" /\ UNCHANGED task /\ CloseSession(r)
    BY <1>0, <1>14 DEF Commit, StepTypes
  <2> QED  BY <1>3, <2>1, ClosedKnows DEF KnowsTask
<1>15. ASSUME Withdraws(r)
       PROVE  KnowsTask(r)' /\ \A p \in Products : KnowsProduct(r, p)'
  <2>1. pc'[r] = "idle" /\ task'[r] = NoTask /\ CloseSession(r)
    BY <1>0, <1>15 DEF Withdraws, RollBack, StepTypes
  <2> QED  BY <1>2, <2>1, ClosedKnows DEF KnowsTask
<1>16. KnowsTask(r)' /\ \A p \in Products : KnowsProduct(r, p)'
  BY <1>4, <1>5, <1>6, <1>7, <1>8, <1>9, <1>10, <1>11, <1>12, <1>13, <1>14, <1>15
     DEF Step, CatalogueStep, CommitSale
<1> QED  BY <1>1, <1>16 DEF SessionsOK

-----------------------------------------------------------------------------
(* Codes *)

LEMMA InvCodes ==
  ASSUME TypeInv, SessionsOK, CodesOK, NEW r \in Requests, Step(r)
  PROVE  CodesOK'
<1>0. SessionTypes /\ TableTypes /\ StepTypes
  BY TypeParts
<1>1. CASE UNCHANGED <<code, newCode>>
  BY <1>1 DEF CodesOK, CodesUnique
<1>2. ASSUME \A p \in Products : newCode'[r][p] = None,
             \A s \in Requests \ {r} : newCode'[s] = newCode[s],
             UNCHANGED code
      PROVE  CodesOK'
  BY <1>2 DEF CodesOK, CodesUnique
<1>3. ASSUME CloseSession(r)
      PROVE  /\ \A p \in Products : newCode'[r][p] = None
             /\ \A s \in Requests \ {r} : newCode'[s] = newCode[s]
  BY <1>0, <1>3 DEF CloseSession, SessionTypes, NoneOf
<1>4. ASSUME Commit(r)
      PROVE  CodesOK'
  <2>1. \A p \in Products : code'[p] = IF newCode[r][p] # None THEN newCode[r][p] ELSE code[p]
    BY <1>4 DEF Commit
  <2>2. /\ \A p \in Products : newCode'[r][p] = None
        /\ \A s \in Requests \ {r} : newCode'[s] = newCode[s]
    BY <1>3, <1>4 DEF Commit
  <2>3. CodesUnique'
    <3> SUFFICES ASSUME NEW p \in Products, NEW q \in Products, code'[p] # None, code'[p] = code'[q]
                 PROVE  p = q
      BY DEF CodesUnique
    <3>1. CASE newCode[r][p] # None /\ newCode[r][q] # None
      BY <2>1, <3>1 DEF CodesOK
    <3>2. CASE newCode[r][p] # None /\ newCode[r][q] = None
      BY <2>1, <3>2 DEF CodesOK
    <3>3. CASE newCode[r][p] = None /\ newCode[r][q] # None
      BY <2>1, <3>3 DEF CodesOK
    <3>4. CASE newCode[r][p] = None /\ newCode[r][q] = None
      BY <2>1, <3>4 DEF CodesOK, CodesUnique
    <3> QED  BY <3>1, <3>2, <3>3, <3>4
  <2>4. ASSUME NEW s \in Requests, NEW p \in Products, newCode'[s][p] # None
        PROVE  /\ \A q \in Products : code'[q] # newCode'[s][p]
               /\ \A t \in Requests, q \in Products : newCode'[t][q] = newCode'[s][p] => t = s /\ q = p
    <3>1. s # r /\ newCode'[s] = newCode[s]
      BY <2>2, <2>4
    <3>2. /\ \A q \in Products : code[q] # newCode[s][p]
          /\ \A t \in Requests, q \in Products : newCode[t][q] = newCode[s][p] => t = s /\ q = p
      BY <2>4, <3>1 DEF CodesOK
    <3>3. ASSUME NEW q \in Products
          PROVE  code'[q] # newCode'[s][p]
      BY <2>1, <3>1, <3>2
    <3>4. ASSUME NEW t \in Requests, NEW q \in Products, newCode'[t][q] = newCode'[s][p]
          PROVE  t = s /\ q = p
      <4>1. t # r
        BY <2>2, <2>4, <3>4
      <4> QED  BY <2>2, <3>1, <3>2, <3>4, <4>1
    <3> QED  BY <3>3, <3>4
  <2> QED  BY <2>3, <2>4 DEF CodesOK
<1>5. ASSUME Inserts(r)
      PROVE  CodesOK'
  <2>1. PICK c : c = ThisLine(r).code
    OBVIOUS
  <2>2. PICK p : p = <<r, turn[r]>>
    OBVIOUS
  <2>3. p \in Products
    <3>1. pc[r] = "flushing" /\ LinesLeft(r)
      BY <1>5 DEF Inserts, SessionsOK, KnowsTask
    <3> QED  BY <2>2, <3>1, LineType DEF Products
  <2>4. UNCHANGED code /\ newCode' = [newCode EXCEPT ![r][p] = c]
    BY <1>5, <2>1, <2>2 DEF Inserts, AddProduct
  <2>5. /\ newCode'[r][p] = c
        /\ \A s \in Requests, q \in Products : s # r \/ q # p => newCode'[s][q] = newCode[s][q]
    BY <1>0, <2>3, <2>4 DEF SessionTypes
  <2>6. \A q \in Products : code[q] # c /\ newCode[r][q] # c
    BY <1>5, <2>1 DEF Inserts, CodesSeen
  <2>7. \A s \in Requests, q \in Products : newCode[s][q] # c
    BY <1>5, <2>1, <2>6 DEF Inserts, CodeHeld
  <2>8. CodesUnique'
    BY <2>4 DEF CodesOK, CodesUnique
  <2>9. ASSUME NEW s \in Requests, NEW q \in Products, newCode'[s][q] # None
        PROVE  /\ \A t \in Products : code'[t] # newCode'[s][q]
               /\ \A u \in Requests, t \in Products : newCode'[u][t] = newCode'[s][q] => u = s /\ t = q
    <3>1. CASE s = r /\ q = p
      BY <2>4, <2>5, <2>6, <2>7, <3>1
    <3>2. CASE s # r \/ q # p
      <4>1. newCode'[s][q] = newCode[s][q]
        BY <2>5, <3>2
      <4>2. /\ \A t \in Products : code[t] # newCode[s][q]
            /\ \A u \in Requests, t \in Products : newCode[u][t] = newCode[s][q] => u = s /\ t = q
        BY <2>9, <4>1 DEF CodesOK
      <4> QED  BY <2>4, <2>5, <2>7, <4>1, <4>2
    <3> QED  BY <3>1, <3>2
  <2> QED  BY <2>8, <2>9 DEF CodesOK
<1>6. ASSUME CatalogueStep(r)
      PROVE  CodesOK'
  BY <1>1, <1>4, <1>5, <1>6
     DEF CatalogueStep, OpenPurchase, OpenEdit, RestockLine, Picks, FlushRow, EndPurchase, sessionVars
<1>7. CASE Withdraws(r)
  BY <1>2, <1>3, <1>7 DEF Withdraws, RollBack
<1> QED  BY <1>1, <1>4, <1>6, <1>7 DEF Step, Preview, Checkout, Accepts, CommitSale, sessionVars

-----------------------------------------------------------------------------
(* Bills *)

LEMMA InvBills ==
  ASSUME TypeInv, SessionsOK, BillsOK, NEW r \in Requests, Step(r)
  PROVE  BillsOK'
<1>0. StepTypes /\ BillTypes /\ KnowsBill(r) /\ KnowsTask(r)
  BY TypeParts DEF SessionsOK, BillsOK
<1>1. ASSUME NEW s \in Requests, s # r
      PROVE  KnowsBill(s)'
  <2>1. KnowsBill(s)
    BY DEF BillsOK
  <2>2. Same(s) /\ SameBill(s)
    BY <1>1, Elsewhere
  <2> QED  BY <2>1, <2>2 DEF KnowsBill, Same, SameBill, Owes, Selling, PaymentsMatch
<1>2. /\ \A t \in SaleTask : t.op = "sale"
      /\ \A t \in PurchaseTask : t.op = "purchase"
      /\ NoTask.op = "none"
  BY DEF SaleTask, PurchaseTask, NoTask
<1>3. ASSUME CatalogueStep(r), UNCHANGED tillVars
      PROVE  KnowsBill(r)'
  <2>1. ~Owes(r) /\ pc[r] # "done" /\ pc[r] # "quoted" => bill[r] = None /\ sale[r] = None
    BY <1>0 DEF KnowsBill, Owes
  <2>2. CASE FlushRow(r)
    BY <1>0, <1>3, <2>2 DEF FlushRow, KnowsBill, Owes, Selling, PaymentsMatch, tillVars
  <2>3. ASSUME pc[r] \in {"idle", "line", "flushing"} \/ (pc[r] = "ending" /\ ~Selling(r)),
               pc'[r] \in {"line", "flushing", "done"} \/ (pc'[r] = "ending" /\ ~Selling(r)')
        PROVE  KnowsBill(r)'
    <3>1. bill[r] = None /\ sale[r] = None
      BY <2>1, <2>3 DEF Owes
    <3>2. pc'[r] # "quoted" /\ ~Owes(r)'
      BY <2>3 DEF Owes
    <3>3. ~(pc'[r] = "ending" /\ Selling(r)')
      BY <2>3
    <3>4. bill'[r] = None /\ sale'[r] = None
      BY <1>3, <3>1 DEF tillVars
    <3> QED  BY <3>2, <3>3, <3>4 DEF KnowsBill
  <2>4. CASE \E receipt \in Receipts : OpenPurchase(r, receipt)
    BY <1>0, <2>3, <2>4 DEF OpenPurchase, Start, StepTypes
  <2>5. CASE \E p \in Existing, edit \in Edits : OpenEdit(r, p, edit)
    BY <1>0, <2>3, <2>5 DEF OpenEdit, Start, StepTypes, Selling
  <2>6. CASE RestockLine(r)
    BY <2>3, <2>6 DEF RestockLine
  <2>7. CASE Picks(r)
    BY <1>0, <2>3, <2>7 DEF Picks, StepTypes
  <2>8. CASE Inserts(r)
    BY <1>0, <2>3, <2>8 DEF Inserts, AddProduct, StepTypes
  <2>9. CASE EndPurchase(r)
    <3>1. pc[r] = "line" /\ pc'[r] = "ending" /\ UNCHANGED task /\ ~Selling(r)
      BY <1>0, <1>2, <2>9 DEF EndPurchase, StepTypes, KnowsTask, Selling
    <3> QED  BY <2>3, <3>1 DEF Selling
  <2>10. CASE ~Selling(r) /\ Commit(r)
    BY <1>0, <2>3, <2>10 DEF Commit, StepTypes
  <2> QED  BY <1>3, <2>2, <2>4, <2>5, <2>6, <2>7, <2>8, <2>9, <2>10 DEF CatalogueStep
<1>4. ASSUME NEW order \in Orders, Preview(r, order)
      PROVE  KnowsBill(r)'
  <2>1. pc[r] = "idle" /\ pc'[r] = "quoted" /\ task'[r].order = order /\ quote'[r] = BillOf(order)
    BY <1>0, <1>4 DEF Preview, Start, StepTypes, BillTypes
  <2>2. bill'[r] = None /\ sale'[r] = None
    BY <1>0, <1>4, <2>1 DEF Preview, KnowsBill, Owes
  <2> QED  BY <2>1, <2>2, BillOfReckoned DEF KnowsBill, Owes
<1>5. ASSUME Checkout(r)
      PROVE  KnowsBill(r)'
  <2>1. PICK order \in Orders : order = task[r].order
    BY <1>0, <1>5 DEF Checkout, KnowsTask, SaleTask
  <2>2. /\ pc[r] = "quoted" /\ pc'[r] = "checked" /\ UNCHANGED <<task, quote, sale>>
        /\ bill'[r] = BillOf(order)
        /\ Pays(paid'[r], quote[r].grand_total)
    BY <1>0, <1>5, <2>1 DEF Checkout, StepTypes, BillTypes
  <2>3. Reckoned(bill'[r], Mode(order)) /\ Reckoned(quote[r], Mode(order)) /\ sale[r] = None
    BY <1>0, <2>1, <2>2, BillOfReckoned DEF KnowsBill
  <2> QED  BY <2>1, <2>2, <2>3 DEF KnowsBill, Owes
<1>6. ASSUME Accepts(r)
      PROVE  KnowsBill(r)'
  <2>1. /\ pc[r] = "checked" /\ pc'[r] = "ending" /\ UNCHANGED <<task, quote, bill, paid, sale>>
        /\ PaymentsMatch(r) /\ Selling(r)
    BY <1>0, <1>2, <1>6 DEF Accepts, StepTypes, tillVars, Selling, KnowsTask
  <2>2. Owes(r) /\ Owes(r)' /\ sale[r] = None
    BY <1>0, <2>1 DEF Owes, Selling, KnowsBill
  <2>3. PaymentsMatch(r)'
    BY <2>1 DEF PaymentsMatch
  <2> QED  BY <1>0, <2>1, <2>2, <2>3 DEF KnowsBill
<1>7. ASSUME CommitSale(r)
      PROVE  KnowsBill(r)'
  <2>1. pc[r] = "ending" /\ pc'[r] = "done" /\ UNCHANGED task /\ Selling(r) /\ Owes(r)
    BY <1>0, <1>7 DEF CommitSale, Commit, StepTypes, Selling, Owes
  <2>2. /\ Reckoned(quote[r], Mode(task[r].order)) /\ Reckoned(bill[r], Mode(task[r].order))
        /\ Pays(paid[r], quote[r].grand_total) /\ PaymentsMatch(r)
    BY <1>0, <2>1 DEF KnowsBill
  <2>3. /\ sale'[r] = [bill |-> bill[r], quoted |-> quote[r].grand_total,
                       payments |-> Payments(r), show_gst |-> ShowGst(task[r].order)]
        /\ bill'[r] = None
    BY <1>0, <1>7 DEF CommitSale, ForgetBill, BillTypes
  <2>4. quote[r].grand_total \in Nat
    BY <2>2, TotalType
  <2>5. PICK total \in Nat : total = quote[r].grand_total
    BY <2>4
  <2>6. ToColumn(Sum(paid[r])) = total /\ RowsCover(Payments(r), total)
    BY <2>2, <2>5, PaymentRows DEF Payments, Pays
  <2>7. total = bill[r].grand_total
    BY <2>2, <2>6 DEF PaymentsMatch
  <2> QED  BY <2>1, <2>2, <2>3, <2>5, <2>6, <2>7 DEF KnowsBill, Owes, Selling
<1>8. ASSUME Withdraws(r)
      PROVE  KnowsBill(r)'
  <2>1. pc'[r] = "idle" /\ pc[r] # "done" /\ UNCHANGED sale
    BY <1>0, <1>8 DEF Withdraws, RollBack, StepTypes
  <2>2. bill'[r] = None
    BY <1>0, <1>8 DEF Withdraws, ForgetBill, BillTypes, KnowsBill, Owes
  <2> QED  BY <1>0, <2>1, <2>2 DEF KnowsBill, Owes
<1>9. KnowsBill(r)'
  BY <1>3, <1>4, <1>5, <1>6, <1>7, <1>8 DEF Step
<1> QED  BY <1>1, <1>9 DEF BillsOK

-----------------------------------------------------------------------------
(* Prices *)

LEMMA KeptTwice ==
  ASSUME NEW c, NEW n \in Nat
  PROVE  Kept(c, Kept(c, n)) = Kept(c, n)
<1>1. PICK m \in Nat : m = ToColumn(n)
  BY ColumnType
<1>2. ToColumn(10 * m) = m
  BY DEF ToColumn, HalfUp
<1> QED  BY <1>1, <1>2 DEF Kept

LEMMA KeptRowType ==
  ASSUME NEW row \in Row
  PROVE  KeptRow(row) \in Row /\ KeptRow(KeptRow(row)) = KeptRow(row)
<1>1. \A c \in Columns : row[c] \in Nat
  BY DEF Row
<1>2. \A c \in Columns : Kept(c, row[c]) \in Nat /\ Kept(c, Kept(c, row[c])) = Kept(c, row[c])
  BY <1>1, KeptType, KeptTwice
<1> QED  BY <1>2 DEF KeptRow, Row

\* The three columns, rounded one by one, are a paisa apart at most.
LEMMA DerivedOf ==
  ASSUME NEW row \in Row,
         row["selling_price"] = ComputeSellingPrice(row["purchase_price"], row["markup_amount"])
  PROVE  Derived(KeptRow(row))
<1>1. PICK p \in Nat : p = row["purchase_price"]
  BY DEF Row, Columns
<1>2. PICK m \in Nat : m = row["markup_amount"]
  BY DEF Row, Columns
<1>3. PICK k : k = KeptRow(row)
  OBVIOUS
<1>4. PICK a \in Nat : a = HalfUp(p, 10)
  BY HalfUpRounds DEF Rounded
<1>5. PICK b \in Nat : b = HalfUp(m, 10)
  BY HalfUpRounds DEF Rounded
<1>6. PICK s \in Nat : s = HalfUp(p + m, 10)
  BY HalfUpRounds, p + m \in Nat DEF Rounded
<1>7. k["purchase_price"] = 10 * a /\ k["markup_amount"] = 10 * b
  BY <1>1, <1>2, <1>3, <1>4, <1>5 DEF KeptRow, Kept, ToColumn, Columns
<1>8. k["selling_price"] = 10 * s
  <2>1. row["selling_price"] = 10 * s
    BY <1>1, <1>2, <1>6 DEF ComputeSellingPrice
  <2>2. ToColumn(10 * s) = s
    BY DEF ToColumn, HalfUp
  <2> QED  BY <1>3, <2>1, <2>2 DEF KeptRow, Kept, Columns
<1>9. a = (2 * p + 10) \div 20 /\ b = (2 * m + 10) \div 20 /\ s = (2 * (p + m) + 10) \div 20
  BY <1>4, <1>5, <1>6 DEF HalfUp
<1>10. -10 <= 10 * s - 10 * a - 10 * b /\ 10 * s - 10 * a - 10 * b <= 10
  BY <1>9
<1>11. Derived(k)
  BY <1>7, <1>8, <1>10 DEF Derived, Within
<1> QED  BY <1>3, <1>11

LEMMA PricedDerived ==
  ASSUME NEW line \in ReceiptLine
  PROVE  Derived(KeptRow(Priced(line)))
<1>1. Priced(line)["selling_price"] =
        ComputeSellingPrice(Priced(line)["purchase_price"], Priced(line)["markup_amount"])
  BY DEF Priced
<1> QED  BY <1>1, PricedType, DerivedOf

LEMMA EditedDerived ==
  ASSUME NEW row \in Row, NEW edit \in Edit, KeptRow(row) = row, Derived(row)
  PROVE  Derived(KeptRow(Edited(row, edit)))
<1>1. PICK new : new = Edited(row, edit)
  OBVIOUS
<1>2. new \in Row
  BY <1>1, EditedType
<1>3. CASE edit.markup_amount = None
  <2>1. /\ new["selling_price"] = row["selling_price"] /\ new["purchase_price"] = row["purchase_price"]
        /\ new["markup_amount"] = row["markup_amount"]
    BY <1>1, <1>3 DEF Edited, Row, Columns
  <2>2. /\ KeptRow(new)["selling_price"] = KeptRow(row)["selling_price"]
        /\ KeptRow(new)["purchase_price"] = KeptRow(row)["purchase_price"]
        /\ KeptRow(new)["markup_amount"] = KeptRow(row)["markup_amount"]
    BY <2>1 DEF KeptRow, Columns
  <2>3. PICK k : k = KeptRow(new)
    OBVIOUS
  <2>4. Derived(k)
    BY <2>2, <2>3 DEF Derived
  <2> QED  BY <1>1, <2>3, <2>4
<1>4. CASE edit.markup_amount # None
  <2>1. /\ new["purchase_price"] = row["purchase_price"]
        /\ new["markup_amount"] = edit.markup_amount
        /\ new["selling_price"] = ComputeSellingPrice(row["purchase_price"], edit.markup_amount)
    BY <1>1, <1>4 DEF Edited, Row, Columns
  <2> QED  BY <1>1, <1>2, <2>1, DerivedOf
<1> QED  BY <1>3, <1>4

\* Nothing but a commit writes rows, and only those its session has updated or
\* created.
LEMMA RowsWritten ==
  ASSUME TypeInv, SessionsOK, NEW r \in Requests, Step(r)
  PROVE  /\ stale \subseteq stale'
         /\ product' = product \/ Commit(r)
         /\ \A p \in Existing : product'[p] = product[p] \/ p \in locks[r]
<1>1. stale \subseteq stale' /\ (product' = product \/ Commit(r))
  <2>1. CASE FlushRow(r)
    <3>1. PICK p : stale' = IF p \in locks[r] \/ loaded[r][p] \in {None, product[p]} THEN stale ELSE stale \cup {p}
      BY <2>1 DEF FlushRow
    <3> QED  BY <2>1, <3>1 DEF FlushRow
  <2>2. CASE ~FlushRow(r)
    BY <2>2 DEF Step, CatalogueStep, OpenPurchase, OpenEdit, RestockLine, Picks, Inserts, AddProduct,
                EndPurchase, Commit, Preview, Checkout, Accepts, CommitSale, Withdraws, RollBack
  <2> QED  BY <2>1, <2>2
<1>2. ASSUME Commit(r), NEW p \in Existing
      PROVE  product'[p] = product[p] \/ p \in locks[r]
  <2>1. p \in Products /\ newCode[r][p] = None
    <3>1. p[1] = None
      BY DEF Existing
    <3>2. None \notin Requests
      BY CatalogueAssumption
    <3> QED  BY <3>1, <3>2 DEF SessionsOK, KnowsProduct, Products
  <2> QED  BY <1>2, <2>1 DEF Commit, WriteRows
<1> QED  BY <1>1, <1>2

LEMMA PricesElsewhere ==
  ASSUME TypeInv, SessionsOK, PricesOK, NEW r \in Requests, Step(r), NEW s \in Requests, s # r
  PROVE  /\ \A p \in Products \ stale' : ObjectOK(s, p)'
         /\ \A p \in Existing : SentOK(s, p)'
<1>1. Same(s) /\ stale \subseteq stale'
  BY Elsewhere, RowsWritten
<1>2. ASSUME NEW p \in Products \ stale'
      PROVE  ObjectOK(s, p)'
  BY <1>1 DEF Same, PricesOK, ObjectOK
<1>3. ASSUME NEW p \in Existing
      PROVE  SentOK(s, p)'
  <2>1. SentOK(s, p)
    BY DEF PricesOK
  <2>2. p \in locks[s] => product'[p] = product[p]
    BY RowsWritten DEF PricesOK, LocksOK
  <2>3. p \in locks[s] => Merged(s, p)' = Merged(s, p)
    BY <1>1, <2>2 DEF Merged, Same
  <2>4. NothingSent(s, p)' <=> NothingSent(s, p)
    BY <1>1 DEF NothingSent, Same
  <2> QED  BY <1>1, <2>1, <2>3, <2>4 DEF SentOK, Same
<1> QED  BY <1>2, <1>3

\* A session that ends leaves nothing behind.
LEMMA ClosedPrices ==
  ASSUME TypeInv, NEW r \in Requests, CloseSession(r)
  PROVE  /\ \A p \in Products : mine'[r][p] = None /\ loaded'[r][p] = None
         /\ \A p \in Products : NothingSent(r, p)'
         /\ locks' = [locks EXCEPT ![r] = {}] /\ locks'[r] = {}
BY DEF CloseSession, NoneOf, NothingSent, TypeInv, CatalogueTypeOK

\* Whatever a row was before, a commit leaves it as its session has it.
LEMMA CommitPrices ==
  ASSUME TypeInv, SessionsOK, PricesOK, NEW r \in Requests, Commit(r), NEW p \in Products \ stale
  PROVE  RowOK(p)'
<1>1. product'[p] = IF newCode[r][p] # None THEN KeptRow(mine[r][p])
                    ELSE IF p \in locks[r] THEN Merged(r, p) ELSE product[p]
  BY DEF Commit, WriteRows, KeptRow, Merged
<1>2. RowOK(p) /\ ObjectOK(r, p)
  BY DEF PricesOK
<1>3. CASE newCode[r][p] # None
  <2>1. mine[r][p] # None /\ mine[r][p] \in Row
    BY <1>3 DEF SessionsOK, KnowsProduct, TypeInv, CatalogueTypeOK
  <2>2. PICK row : row = mine[r][p]
    OBVIOUS
  <2>3. Derived(KeptRow(row)) /\ KeptRow(KeptRow(row)) = KeptRow(row)
    BY <1>2, <2>1, <2>2, KeptRowType DEF ObjectOK
  <2>4. product'[p] = KeptRow(row)
    BY <1>1, <1>3, <2>2
  <2>5. KeptRow(product'[p]) = product'[p] /\ Derived(product'[p])
    BY <2>3, <2>4
  <2> QED  BY <2>5 DEF RowOK
<1>4. CASE newCode[r][p] = None /\ p \in locks[r]
  <2>1. p \in Existing /\ product[p] \in Row
    BY <1>4 DEF TypeInv, CatalogueTypeOK
  <2>2. SentOK(r, p)
    BY <2>1 DEF PricesOK
  <2>3. CASE loaded[r][p] = None
    <3>1. NothingSent(r, p)
      BY <2>2, <2>3 DEF SentOK
    <3>2. Merged(r, p) = product[p]
      BY <2>1, <3>1 DEF Merged, NothingSent, Row
    <3>3. product'[p] = product[p]
      BY <1>1, <1>4, <3>2
    <3> QED  BY <1>2, <3>3 DEF RowOK
  <2>4. CASE loaded[r][p] # None
    <3>1. Merged(r, p) = KeptRow(loaded[r][p])
      BY <1>4, <2>2, <2>4 DEF SentOK
    <3>2. PICK row : row = loaded[r][p]
      OBVIOUS
    <3>3. row \in Row /\ Derived(KeptRow(row))
      BY <1>2, <2>4, <3>2 DEF ObjectOK, TypeInv, CatalogueTypeOK
    <3>4. product'[p] = KeptRow(row)
      BY <1>1, <1>4, <3>1, <3>2
    <3>5. KeptRow(product'[p]) = product'[p] /\ Derived(product'[p])
      BY <3>3, <3>4, KeptRowType
    <3> QED  BY <3>5 DEF RowOK
  <2> QED  BY <2>3, <2>4
<1>5. CASE newCode[r][p] = None /\ p \notin locks[r]
  <2>1. product'[p] = product[p]
    BY <1>1, <1>5
  <2> QED  BY <1>2, <2>1 DEF RowOK
<1> QED  BY <1>3, <1>4, <1>5

OwnPrices(r) ==
  /\ \A p \in Products \ stale : ObjectOK(r, p)
  /\ \A p \in Existing : SentOK(r, p)

LEMMA FlushPrices ==
  ASSUME TypeInv, SessionsOK, PricesOK, NEW r \in Requests, FlushRow(r)
  PROVE  OwnPrices(r)' /\ LocksOK'
<1>0. SessionTypes /\ TableTypes /\ StepTypes
  BY TypeParts
<1>1. PICK p \in Existing, row \in [Columns -> Nat \cup {None}] :
        /\ ~LockedByOther(r, p)
        /\ locks' = [locks EXCEPT ![r] = @ \cup {p}]
        /\ stale' = IF p \in locks[r] \/ loaded[r][p] \in {None, product[p]} THEN stale ELSE stale \cup {p}
        /\ row = [c \in Columns |-> IF c \in Changed(r, p) THEN Kept(c, mine[r][p][c]) ELSE sent[r][p][c]]
        /\ sent' = [sent EXCEPT ![r][p] = row]
        /\ loaded' = [loaded EXCEPT ![r][p] = mine[r][p]]
  BY FlushDoes
<1>2. UNCHANGED <<product, pc, mine>>
  BY DEF FlushRow
<1>3. stale \subseteq stale' /\ p \in Products
  BY <1>1 DEF Products
<1>4. /\ loaded'[r][p] = mine[r][p] /\ sent'[r][p] = row /\ p \in locks'[r]
      /\ \A q \in Products : q # p => /\ loaded'[r][q] = loaded[r][q] /\ sent'[r][q] = sent[r][q]
                                      /\ (q \in locks'[r] <=> q \in locks[r])
      /\ \A s \in Requests : s # r => locks'[s] = locks[s]
  BY <1>0, <1>1, <1>3 DEF SessionTypes
<1>5. ASSUME NEW q \in Products \ stale'
      PROVE  ObjectOK(r, q)'
  <2>1. ObjectOK(r, q)
    BY <1>3, <1>5 DEF PricesOK
  <2>2. CASE q = p
    BY <1>2, <1>4, <2>1, <2>2 DEF ObjectOK
  <2>3. CASE q # p
    BY <1>2, <1>4, <2>1, <2>3 DEF ObjectOK
  <2> QED  BY <2>2, <2>3
<1>6. LocksOK'
  <2>1. ASSUME NEW s \in Requests, NEW t \in Requests, s # t
        PROVE  locks'[s] \cap locks'[t] = {}
    <3>1. locks[s] \cap locks[t] = {}
      BY <2>1 DEF PricesOK, LocksOK
    <3>2. \A u \in Requests : u # r => p \notin locks[u]
      BY <1>1 DEF LockedByOther
    <3>3. \A u \in Requests : locks'[u] = IF u = r THEN locks[u] \cup {p} ELSE locks[u]
      BY <1>0, <1>1 DEF SessionTypes
    <3> QED  BY <2>1, <3>1, <3>2, <3>3
  <2>2. pc[r] # "idle" /\ pc' = pc
    BY <1>2 DEF FlushRow
  <2>3. \A s \in Requests : pc'[s] = "idle" => locks'[s] = {}
    BY <1>4, <2>2 DEF PricesOK, LocksOK
  <2> QED  BY <2>1, <2>3 DEF LocksOK
<1>7. ASSUME NEW q \in Existing, q # p
      PROVE  SentOK(r, q)'
  <2>1. q \in Products /\ SentOK(r, q)
    BY DEF PricesOK, Products
  <2>2. loaded'[r][q] = loaded[r][q] /\ sent'[r][q] = sent[r][q] /\ (q \in locks'[r] <=> q \in locks[r])
    BY <1>4, <1>7, <2>1
  <2>3. (NothingSent(r, q)' <=> NothingSent(r, q)) /\ Merged(r, q)' = Merged(r, q)
    BY <1>2, <2>2 DEF NothingSent, Merged
  <2> QED  BY <1>3, <2>1, <2>2, <2>3 DEF SentOK
<1>8. SentOK(r, p)'
  <2>0. (mine[r][p] = None <=> loaded[r][p] = None) /\ SentOK(r, p) /\ product[p] \in Row
    BY <1>0, <1>3 DEF SessionsOK, KnowsProduct, PricesOK, TableTypes
  <2>1. CASE mine[r][p] = None
    <3>1. Changed(r, p) = {} /\ NothingSent(r, p)
      BY <2>0, <2>1 DEF Changed, SentOK
    <3>2. \A c \in Columns : row[c] = None
      BY <1>1, <3>1 DEF NothingSent
    <3>3. NothingSent(r, p)'
      BY <1>4, <3>2 DEF NothingSent
    <3> QED  BY <1>4, <2>1, <3>3 DEF SentOK
  <2>2. CASE mine[r][p] # None
    <3>1. mine[r][p] \in Row /\ loaded[r][p] \in Row
      BY <1>0, <1>3, <2>0, <2>2 DEF SessionTypes
    <3>2. PICK m : m = mine[r][p]
      OBVIOUS
    <3>3. PICK l : l = loaded[r][p]
      OBVIOUS
    <3>4. \A c \in Columns : c \in Changed(r, p) <=> m[c] # l[c]
      BY <2>2, <3>2, <3>3 DEF Changed
    <3>5. \A c \in Columns : row[c] = IF m[c] # l[c] THEN Kept(c, m[c]) ELSE sent[r][p][c]
      BY <1>1, <3>2, <3>4
    <3>6. \A c \in Columns : m[c] \in Nat /\ Kept(c, m[c]) \in Nat /\ Kept(c, m[c]) # None
      <4>1. \A c \in Columns : m[c] \in Nat
        BY <3>1, <3>2 DEF Row
      <4>2. None \notin Nat
        BY CatalogueAssumption
      <4> QED  BY <4>1, <4>2, KeptType
    <3>7. ASSUME p \notin stale', NEW c \in Columns
          PROVE  (IF row[c] = None THEN product[p][c] ELSE row[c]) = Kept(c, m[c])
      <4>1. CASE m[c] # l[c]
        BY <3>5, <3>6, <4>1
      <4>2. CASE m[c] = l[c] /\ p \in locks[r]
        <5>1. Merged(r, p) = KeptRow(loaded[r][p])
          BY <1>3, <2>0, <2>2, <3>7, <4>2 DEF SentOK
        <5>2. Merged(r, p)[c] = Kept(c, l[c])
          BY <3>3, <5>1 DEF KeptRow
        <5> QED  BY <3>5, <4>2, <5>2 DEF Merged
      <4>3. CASE m[c] = l[c] /\ p \notin locks[r]
        <5>1. NothingSent(r, p) /\ row[c] = None
          BY <2>0, <3>5, <4>3 DEF SentOK, NothingSent
        <5>2. l = product[p]
          BY <1>1, <2>0, <2>2, <3>3, <3>7, <4>3
        <5>3. KeptRow(product[p]) = product[p]
          <6>1. RowOK(p) /\ product[p] # None
            BY <1>0, <1>3, <3>7 DEF PricesOK, TableTypes
          <6> QED  BY <6>1 DEF RowOK
        <5>4. product[p][c] = Kept(c, product[p][c])
          BY <5>3 DEF KeptRow
        <5> QED  BY <4>3, <5>1, <5>2, <5>4
      <4> QED  BY <4>1, <4>2, <4>3
    <3>8. p \notin stale' => Merged(r, p)' = KeptRow(loaded[r][p])'
      <4>1. \A c \in Columns : sent'[r][p][c] = row[c]
        BY <1>4
      <4>2. KeptRow(loaded[r][p])' = [c \in Columns |-> Kept(c, m[c])]
        BY <1>4, <3>2 DEF KeptRow
      <4>3. Merged(r, p)' = [c \in Columns |-> IF row[c] = None THEN product[p][c] ELSE row[c]]
        BY <1>2, <4>1 DEF Merged
      <4> QED  BY <3>7, <4>2, <4>3
    <3> QED  BY <1>4, <2>2, <3>8 DEF SentOK
  <2> QED  BY <2>1, <2>2
<1> QED  BY <1>5, <1>6, <1>7, <1>8 DEF OwnPrices

LEMMA EditPrices ==
  ASSUME TypeInv, SessionsOK, PricesOK, NEW r \in Requests, NEW p \in Existing, NEW edit \in Edits,
         OpenEdit(r, p, edit)
  PROVE  OwnPrices(r)'
<1>0. SessionTypes /\ TableTypes
  BY TypeParts
<1>1. p \in Products /\ product[p] \in Row /\ edit \in Edit
  BY <1>0, CatalogueAssumption DEF OpenEdit, TableTypes, Products
<1>2. PICK row : row = Edited(product[p], edit)
  OBVIOUS
<1>3. /\ loaded' = [loaded EXCEPT ![r][p] = product[p]]
      /\ mine' = [mine EXCEPT ![r][p] = row]
      /\ UNCHANGED <<product, sent, locks, stale>>
      /\ pc[r] = "idle"
  BY <1>2 DEF OpenEdit, Start
<1>4. locks[r] = {} /\ \A q \in Existing : NothingSent(r, q)
  BY <1>3 DEF PricesOK, LocksOK, SentOK
<1>5. /\ loaded'[r][p] = product[p] /\ mine'[r][p] = row
      /\ \A q \in Products : q # p => loaded'[r][q] = loaded[r][q] /\ mine'[r][q] = mine[r][q]
  BY <1>0, <1>1, <1>3 DEF SessionTypes
<1>6. ASSUME NEW q \in Products \ stale'
      PROVE  ObjectOK(r, q)'
  <2>1. ObjectOK(r, q) /\ RowOK(q)
    BY <1>3 DEF PricesOK
  <2>2. CASE q = p
    <3>1. product[p] # None
      BY <1>1, CatalogueAssumption
    <3>2. KeptRow(product[p]) = product[p] /\ Derived(product[p])
      BY <2>1, <2>2, <3>1 DEF RowOK
    <3>3. Derived(KeptRow(row)) /\ Derived(KeptRow(product[p]))
      BY <1>1, <1>2, <3>2, EditedDerived
    <3>4. KeptRow(loaded[r][p])' = KeptRow(product[p]) /\ KeptRow(mine[r][p])' = KeptRow(row)
      BY <1>5 DEF KeptRow
    <3>5. Derived(KeptRow(loaded[r][p])') /\ Derived(KeptRow(mine[r][p])')
      BY <3>3, <3>4
    <3> QED  BY <2>2, <3>5 DEF ObjectOK
  <2>3. CASE q # p
    BY <1>5, <2>1, <2>3 DEF ObjectOK
  <2> QED  BY <2>2, <2>3
<1>7. ASSUME NEW q \in Existing
      PROVE  SentOK(r, q)'
  <2>1. NothingSent(r, q)' /\ q \notin locks'[r]
    BY <1>3, <1>4 DEF NothingSent
  <2> QED  BY <2>1 DEF SentOK
<1> QED  BY <1>6, <1>7 DEF OwnPrices

LEMMA RestockPrices ==
  ASSUME TypeInv, SessionsOK, PricesOK, NEW r \in Requests, RestockLine(r)
  PROVE  OwnPrices(r)'
<1>0. SessionTypes /\ TableTypes
  BY TypeParts
<1>1. ThisLine(r) \in ReceiptLine /\ ThisLine(r).product # None
  <2>1. pc[r] = "line" /\ LinesLeft(r) /\ ThisLine(r).product # None
    BY DEF RestockLine
  <2> QED  BY <2>1, LineType
<1>2. PICK p : p = ThisLine(r).product
  OBVIOUS
<1>3. p \in Existing /\ p \in Products /\ product[p] \in Row
  BY <1>0, <1>1, <1>2 DEF ReceiptLine, Products, TableTypes
<1>4. PICK row : row = IF loaded[r][p] = None THEN product[p] ELSE loaded[r][p]
  OBVIOUS
<1>5. PICK new : new = Priced(ThisLine(r))
  OBVIOUS
<1>6. /\ loaded' = [loaded EXCEPT ![r][p] = row]
      /\ mine' = [mine EXCEPT ![r][p] = new]
      /\ UNCHANGED <<product, sent, locks, stale>>
  BY <1>0, <1>2, <1>3, <1>4, <1>5 DEF RestockLine, SessionTypes
<1>7. /\ loaded'[r][p] = row /\ mine'[r][p] = new
      /\ \A q \in Products : q # p => loaded'[r][q] = loaded[r][q] /\ mine'[r][q] = mine[r][q]
  BY <1>0, <1>3, <1>6 DEF SessionTypes
<1>8. Derived(KeptRow(new))
  BY <1>1, <1>5, PricedDerived
<1>9. p \notin stale => KeptRow(product[p]) = product[p] /\ Derived(product[p])
  <2>1. product[p] # None
    BY <1>3, CatalogueAssumption
  <2> QED  BY <1>3, <2>1 DEF PricesOK, RowOK
<1>10. ASSUME NEW q \in Products \ stale'
       PROVE  ObjectOK(r, q)'
  <2>1. ObjectOK(r, q)
    BY <1>6 DEF PricesOK
  <2>2. CASE q = p
    <3>1. Derived(KeptRow(row))
      <4>1. CASE loaded[r][p] = None
        BY <1>4, <1>6, <1>9, <2>2, <4>1
      <4>2. CASE loaded[r][p] # None
        BY <1>4, <2>1, <2>2, <4>2 DEF ObjectOK
      <4> QED  BY <4>1, <4>2
    <3>2. KeptRow(loaded[r][p])' = KeptRow(row) /\ KeptRow(mine[r][p])' = KeptRow(new)
      BY <1>7 DEF KeptRow
    <3>3. Derived(KeptRow(loaded[r][p])') /\ Derived(KeptRow(mine[r][p])')
      BY <1>8, <3>1, <3>2
    <3> QED  BY <2>2, <3>3 DEF ObjectOK
  <2>3. CASE q # p
    BY <1>7, <2>1, <2>3 DEF ObjectOK
  <2> QED  BY <2>2, <2>3
<1>11. ASSUME NEW q \in Existing
       PROVE  SentOK(r, q)'
  <2>1. q \in Products /\ SentOK(r, q)
    BY DEF PricesOK, Products
  <2>2. (NothingSent(r, q)' <=> NothingSent(r, q)) /\ Merged(r, q)' = Merged(r, q)
    BY <1>6 DEF NothingSent, Merged
  <2>3. CASE q = p /\ loaded[r][p] = None
    <3>1. NothingSent(r, p)
      BY <2>1, <2>3 DEF SentOK
    <3>2. Merged(r, p) = product[p]
      BY <1>3, <3>1 DEF Merged, NothingSent, Row
    <3>3. loaded'[r][p] = product[p]
      BY <1>4, <1>7, <2>3
    <3>4. KeptRow(loaded[r][p])' = KeptRow(product[p])
      BY <3>3 DEF KeptRow
    <3> QED  BY <1>6, <1>9, <2>2, <2>3, <3>1, <3>2, <3>4 DEF SentOK
  <2>4. CASE q # p \/ loaded[r][p] # None
    <3>1. loaded'[r][q] = loaded[r][q]
      BY <1>4, <1>7, <2>1, <2>4
    <3>2. KeptRow(loaded[r][q])' = KeptRow(loaded[r][q])
      BY <3>1 DEF KeptRow
    <3> QED  BY <1>6, <2>1, <2>2, <3>1, <3>2 DEF SentOK
  <2> QED  BY <2>3, <2>4
<1> QED  BY <1>10, <1>11 DEF OwnPrices

LEMMA InsertPrices ==
  ASSUME TypeInv, SessionsOK, PricesOK, NEW r \in Requests, Inserts(r)
  PROVE  OwnPrices(r)'
<1>0. SessionTypes /\ TableTypes
  BY TypeParts
<1>1. pc[r] = "flushing" /\ LinesLeft(r)
  BY DEF Inserts, SessionsOK, KnowsTask
<1>2. ThisLine(r) \in ReceiptLine /\ <<r, turn[r]>> \in NewProducts
  BY <1>1, LineType
<1>3. PICK p : p = <<r, turn[r]>>
  OBVIOUS
<1>4. PICK row : row = Priced(ThisLine(r))
  OBVIOUS
<1>5. p \in Products /\ p \notin Existing
  <2>1. None \notin Requests /\ p[1] = r
    BY <1>3, CatalogueAssumption
  <2> QED  BY <1>2, <1>3, <2>1 DEF Products, Existing
<1>6. /\ mine' = [mine EXCEPT ![r][p] = row]
      /\ loaded' = [loaded EXCEPT ![r][p] = row]
      /\ UNCHANGED <<product, sent, locks, stale>>
  BY <1>3, <1>4 DEF Inserts, AddProduct
<1>7. /\ loaded'[r][p] = row /\ mine'[r][p] = row
      /\ \A q \in Products : q # p => loaded'[r][q] = loaded[r][q] /\ mine'[r][q] = mine[r][q]
  BY <1>0, <1>5, <1>6 DEF SessionTypes
<1>8. Derived(KeptRow(row))
  BY <1>2, <1>4, PricedDerived
<1>9. ASSUME NEW q \in Products \ stale'
      PROVE  ObjectOK(r, q)'
  <2>1. ObjectOK(r, q)
    BY <1>6 DEF PricesOK
  <2>2. CASE q = p
    <3>1. KeptRow(loaded[r][p])' = KeptRow(row) /\ KeptRow(mine[r][p])' = KeptRow(row)
      BY <1>7 DEF KeptRow
    <3>2. Derived(KeptRow(loaded[r][p])') /\ Derived(KeptRow(mine[r][p])')
      BY <1>8, <3>1
    <3> QED  BY <2>2, <3>2 DEF ObjectOK
  <2>3. CASE q # p
    BY <1>7, <2>1, <2>3 DEF ObjectOK
  <2> QED  BY <2>2, <2>3
<1>10. ASSUME NEW q \in Existing
       PROVE  SentOK(r, q)'
  <2>1. q \in Products /\ q # p /\ SentOK(r, q)
    BY <1>5 DEF PricesOK, Products
  <2>2. loaded'[r][q] = loaded[r][q]
    BY <1>7, <2>1
  <2>3. /\ NothingSent(r, q)' <=> NothingSent(r, q)
        /\ Merged(r, q)' = Merged(r, q)
        /\ KeptRow(loaded[r][q])' = KeptRow(loaded[r][q])
    BY <1>6, <2>2 DEF NothingSent, Merged, KeptRow
  <2> QED  BY <1>6, <2>1, <2>2, <2>3 DEF SentOK
<1> QED  BY <1>9, <1>10 DEF OwnPrices

LEMMA InvPrices ==
  ASSUME TypeInv, SessionsOK, PricesOK, NEW r \in Requests, Step(r)
  PROVE  PricesOK'
<1>0. SessionTypes /\ TableTypes /\ StepTypes
  BY TypeParts
<1>1. OwnPrices(r)
  BY DEF PricesOK, OwnPrices
<1>2. ASSUME UNCHANGED <<product, loaded, mine, sent, locks, stale>>
      PROVE  OwnPrices(r)'
  BY <1>1, <1>2 DEF OwnPrices, ObjectOK, SentOK, NothingSent, Merged
<1>3. ASSUME CloseSession(r)
      PROVE  OwnPrices(r)'
  <2>1. \A p \in Existing : p \in Products
    BY DEF Products
  <2> QED  BY <1>3, <2>1, ClosedPrices DEF OwnPrices, ObjectOK, SentOK
<1>4. OwnPrices(r)'
  <2>1. ASSUME CatalogueStep(r)
        PROVE  OwnPrices(r)'
    <3>1. CASE FlushRow(r)
      BY <3>1, FlushPrices
    <3>2. CASE \E p \in Existing, edit \in Edits : OpenEdit(r, p, edit)
      BY <3>2, EditPrices
    <3>3. CASE RestockLine(r)
      BY <3>3, RestockPrices
    <3>4. CASE Inserts(r)
      BY <3>4, InsertPrices
    <3>5. CASE Commit(r)
      BY <1>3, <3>5 DEF Commit
    <3>6. CASE (\E receipt \in Receipts : OpenPurchase(r, receipt)) \/ Picks(r) \/ EndPurchase(r)
      BY <1>2, <3>6 DEF OpenPurchase, Picks, EndPurchase, sessionVars
    <3> QED  BY <2>1, <3>1, <3>2, <3>3, <3>4, <3>5, <3>6 DEF CatalogueStep
  <2> QED  BY <1>2, <1>3, <2>1
           DEF Step, Preview, Checkout, Accepts, CommitSale, Commit, Withdraws, RollBack, sessionVars
<1>5. LocksOK'
  <2>1. CASE FlushRow(r)
    BY <2>1, FlushPrices
  <2>2. ASSUME UNCHANGED locks, pc'[r] # "idle"
        PROVE  LocksOK'
    <3>1. \A s \in Requests : pc'[s] = "idle" => pc[s] = "idle"
      BY <2>2, Elsewhere DEF Same
    <3> QED  BY <2>2, <3>1 DEF PricesOK, LocksOK
  <2>3. ASSUME CloseSession(r)
        PROVE  LocksOK'
    <3>1. locks'[r] = {} /\ \A s \in Requests : s # r => locks'[s] = locks[s] /\ pc'[s] = pc[s]
      BY <2>3, ClosedPrices, Elsewhere DEF Same
    <3> QED  BY <3>1 DEF PricesOK, LocksOK
  <2>4. CASE CatalogueStep(r) /\ ~FlushRow(r)
    <3>1. CASE Commit(r)
      BY <2>3, <3>1 DEF Commit
    <3>2. CASE ~Commit(r)
      <4>1. UNCHANGED locks /\ pc'[r] # "idle"
        BY <1>0, <2>4, <3>2 DEF CatalogueStep, OpenPurchase, OpenEdit, Start, RestockLine, Picks,
                              Inserts, AddProduct, EndPurchase, StepTypes, sessionVars
      <4> QED  BY <2>2, <4>1
    <3> QED  BY <3>1, <3>2
  <2>5. CASE (\E order \in Orders : Preview(r, order)) \/ Checkout(r) \/ Accepts(r)
    <3>1. UNCHANGED locks /\ pc'[r] # "idle"
      BY <1>0, <2>5 DEF Preview, Start, Checkout, Accepts, StepTypes, sessionVars
    <3> QED  BY <2>2, <3>1
  <2>6. CASE CommitSale(r) \/ Withdraws(r)
    BY <2>3, <2>6 DEF CommitSale, Commit, Withdraws, RollBack
  <2> QED  BY <2>1, <2>4, <2>5, <2>6 DEF Step
<1>6. ASSUME NEW p \in Products \ stale'
      PROVE  RowOK(p)' /\ \A s \in Requests : ObjectOK(s, p)'
  <2>1. p \in Products \ stale
    BY RowsWritten
  <2>2. RowOK(p)'
    BY <2>1, RowsWritten, CommitPrices DEF PricesOK, RowOK
  <2>3. \A s \in Requests : ObjectOK(s, p)'
    BY <1>4, PricesElsewhere DEF OwnPrices
  <2> QED  BY <2>2, <2>3
<1>7. \A s \in Requests, p \in Existing : SentOK(s, p)'
  BY <1>4, PricesElsewhere DEF OwnPrices
<1> QED  BY <1>5, <1>6, <1>7 DEF PricesOK

-----------------------------------------------------------------------------
(* The invariant holds in every behaviour *)

LEMMA TypesInit == Init => TypeInv
<1> SUFFICES ASSUME Init PROVE TypeInv
  OBVIOUS
<1>1. None \notin Row /\ OpeningRow \in Row
  BY CatalogueAssumption
<1>2. SessionTypes
  <2>1. 1 \in 1..(MaxLines + 1)
    BY CatalogueAssumption
  <2>2. /\ NoneOf(Products) \in [Products -> Row \cup {None}]
        /\ NoneOf(Products) \in [Products -> Code \cup {None}]
        /\ [p \in Products |-> NoneOf(Columns)] \in [Products -> [Columns -> Nat \cup {None}]]
    BY DEF NoneOf
  <2> QED  BY <2>1, <2>2 DEF Init, CatalogueInit, SessionTypes
<1>3. TableTypes
  <2>1. ASSUME NEW p \in Existing
        PROVE  AutoCode(p[2]) \in Code
    BY DEF Existing, AutoCode, Code
  <2>2. \A p \in Existing : p \in Products
    BY DEF Products
  <2> QED  BY <1>1, <2>1, <2>2 DEF Init, CatalogueInit, TableTypes
<1>4. StepTypes
  BY DEF Init, CatalogueInit, StepTypes
<1>5. BillTypes
  <2>1. <<>> \in Seq(Nat)
    OBVIOUS
  <2> QED  BY <2>1 DEF Init, BillTypes, NoneOf
<1> QED  BY <1>2, <1>3, <1>4, <1>5, TypeParts

LEMMA IInvInit == Init => IInv
<1> SUFFICES ASSUME Init PROVE IInv
  OBVIOUS
<1>1. TypeInv
  BY TypesInit
<1>2. SessionsOK
  <2>1. NoTask \notin SaleTask \cup EditTask \cup PurchaseTask
    BY DEF NoTask, SaleTask, EditTask, PurchaseTask
  <2> QED  BY <2>1 DEF Init, CatalogueInit, SessionsOK, KnowsTask, KnowsProduct, NoneOf
<1>3. CodesOK
  <2>1. \A p \in Products : code[p] = IF p \in Existing THEN AutoCode(p[2]) ELSE None
    BY DEF Init, CatalogueInit
  <2>2. ASSUME NEW p \in Existing, NEW q \in Existing, AutoCode(p[2]) = AutoCode(q[2])
        PROVE  p = q
    <3>1. p[2] = q[2]
      <4>1. AutoCode(p[2]).number = p[2] /\ AutoCode(q[2]).number = q[2]
        BY DEF AutoCode
      <4> QED  BY <2>2, <4>1
    <3> QED  BY <3>1 DEF Existing
  <2>3. CodesUnique
    BY <2>1, <2>2 DEF CodesUnique
  <2>4. \A r \in Requests, p \in Products : newCode[r][p] = None
    BY DEF Init, CatalogueInit, NoneOf
  <2> QED  BY <2>3, <2>4 DEF CodesOK
<1>4. BillsOK
  BY DEF Init, CatalogueInit, BillsOK, KnowsBill, Owes, NoneOf
<1> QED  BY <1>1, <1>2, <1>3, <1>4 DEF IInv

LEMMA IInvStep == IInv /\ [Next]_vars => IInv'
<1> SUFFICES ASSUME IInv, [Next]_vars PROVE IInv'
  OBVIOUS
<1>1. CASE UNCHANGED vars
  <2>1. TypeInv'
    BY <1>1 DEF IInv, TypeInv, CatalogueTypeOK, vars
  <2>2. SessionsOK'
    BY <1>1 DEF IInv, SessionsOK, KnowsTask, KnowsProduct, LinesLeft, ThisLine, vars
  <2>3. CodesOK'
    BY <1>1 DEF IInv, CodesOK, CodesUnique, vars
  <2>4. BillsOK'
    BY <1>1 DEF IInv, BillsOK, KnowsBill, Owes, Selling, PaymentsMatch, vars
  <2> QED  BY <2>1, <2>2, <2>3, <2>4 DEF IInv
<1>2. ASSUME NEW r \in Requests, Step(r)
      PROVE  IInv'
  BY <1>2, InvType, InvSessions, InvCodes, InvBills DEF IInv
<1> QED  BY <1>1, <1>2, Steps

THEOREM TillInvariant == Spec => []IInv
<1> QED  BY IInvInit, IInvStep, PTL DEF Spec

\* Tables and sessions keep their types in every behaviour, and only a checkout
\* in flight has computed a bill.
THEOREM TillTypes == Spec => []TillTypeOK
<1>1. IInv => TillTypeOK
  BY DEF IInv, TypeInv, TillTypeOK, BillsOK, KnowsBill, Owes
<1> QED  BY <1>1, TillInvariant, PTL

\* No two products ever have the same code.
THEOREM UniqueCodes == Spec => []CodesUnique
<1>1. IInv => CodesUnique
  BY DEF IInv, CodesOK
<1> QED  BY <1>1, TillInvariant, PTL

\* The next automatic code is always free, whatever codes clients have chosen.
THEOREM FreeNextCode == Spec => []NextCodeFree
<1>1. IInv => NextCodeFree
  <2> SUFFICES ASSUME IInv PROVE NextCodeFree
    OBVIOUS
  <2> DEFINE codes == {code[p] : p \in Products} \ {None}
  <2>1. codes \subseteq Code \cup {None}
    BY DEF IInv, TypeInv, CatalogueTypeOK
  <2>2. IsFiniteSet(codes)
    <3>1. IsFiniteSet({code[p] : p \in Products})
      BY ProductsFinite, ImageFinite DEF Image
    <3> QED  BY <3>1, FS_Subset
  <2>3. NextCode(codes) \notin codes
    <3> HIDE DEF codes
    <3> QED  BY <2>1, <2>2, NextCodeIsNew
  <2> QED  BY <2>3 DEF NextCodeFree
<1> QED  BY <1>1, TillInvariant, PTL

\* Every saved bill asks for the amount the client was shown.
THEOREM BillsAsQuoted == Spec => []SavedAsQuoted
<1>1. IInv => SavedAsQuoted
  BY DEF IInv, BillsOK, KnowsBill, SavedAsQuoted
<1> QED  BY <1>1, TillInvariant, PTL

\* However a client divides the total, a bill paid by one row balances, and the
\* rows of any other are off by no more than a paisa for every two of them.
THEOREM PaymentsCover == Spec => []PaymentsCoverBill
<1>1. IInv => PaymentsCoverBill
  <2> SUFFICES ASSUME IInv, NEW r \in Requests, sale[r] # None
               PROVE  Within(PrintedInvoice(sale[r]).balance, Len(sale[r].payments) \div 2)
    BY DEF PaymentsCoverBill
  <2>1. RowsCover(sale[r].payments, sale[r].bill.grand_total)
    BY DEF IInv, BillsOK, KnowsBill
  <2>2. PrintedInvoice(sale[r]).balance = Sum(sale[r].payments) - sale[r].bill.grand_total
    BY DEF PrintedInvoice
  <2> QED  BY <2>1, <2>2 DEF RowsCover
<1> QED  BY <1>1, TillInvariant, PTL

\* The printed amounts and taxes of every saved bill add up to its total, to a
\* paisa a line, and the printed rates to the amounts.
THEOREM InvoicesAddUp == Spec => []PrintedAddsUp
<1>1. IInv => PrintedAddsUp
  <2> SUFFICES ASSUME IInv PROVE PrintedAddsUp
    OBVIOUS
  <2>1. \A r \in Requests : sale[r] # None => PrintedOK(sale[r])
    BY InvoicePrinted DEF IInv, BillsOK, KnowsBill
  <2> QED  BY <2>1 DEF PrintedAddsUp, PrintedOK
<1> QED  BY <1>1, TillInvariant, PTL

\* In every line of a saved bill, taxable value and tax make the line total to a
\* paisa, and the shares of the tax make the tax exactly.
THEOREM LinesAlwaysReconcile == Spec => []LinesReconcile
<1>1. IInv => LinesReconcile
  BY DEF IInv, BillsOK, KnowsBill, Reckoned, LineOK, LinesReconcile
<1> QED  BY <1>1, TillInvariant, PTL

\* The discount a saved line shows is what was taken off its price, to a paisa.
THEOREM DiscountsAccounted == Spec => []DiscountAccounted
<1>1. IInv => DiscountAccounted
  BY DEF IInv, BillsOK, KnowsBill, Reckoned, LineOK, DiscountAccounted
<1> QED  BY <1>1, TillInvariant, PTL

\* The seeded products are priced as the code prices them, in whole paise.
OpeningDerived == KeptRow(OpeningRow) = OpeningRow /\ Derived(OpeningRow)

LEMMA PricesInit == ASSUME OpeningDerived PROVE Init => PricesOK
<1> SUFFICES ASSUME Init PROVE PricesOK
  OBVIOUS
<1>1. \A p \in Products : product[p] # None => product[p] = OpeningRow
  BY DEF Init, CatalogueInit
<1>2. \A p \in Products : RowOK(p)
  <2>1. ASSUME NEW p \in Products, product[p] # None
        PROVE  KeptRow(product[p]) = product[p] /\ Derived(product[p])
    BY <1>1, <2>1 DEF OpeningDerived
  <2> QED  BY <2>1 DEF RowOK
<1>3. \A r \in Requests, p \in Products :
        mine[r][p] = None /\ loaded[r][p] = None /\ NothingSent(r, p)
  BY DEF Init, CatalogueInit, NoneOf, NothingSent
<1>4. \A r \in Requests : locks[r] = {}
  BY DEF Init, CatalogueInit
<1>5. \A p \in Existing : p \in Products
  BY DEF Products
<1> QED  BY <1>2, <1>3, <1>4, <1>5 DEF PricesOK, ObjectOK, SentOK, LocksOK

\* A product that no session has written from an outdated copy sells for its
\* cost and its markup, to a paisa, through any number of edits and purchases.
THEOREM PricesDerived == ASSUME OpeningDerived PROVE Spec => []PriceDerived
<1>1. Init => PricesOK
  BY PricesInit
<1>2. IInv /\ PricesOK /\ [Next]_vars => PricesOK'
  <2> SUFFICES ASSUME IInv, PricesOK, [Next]_vars PROVE PricesOK'
    OBVIOUS
  <2>1. CASE UNCHANGED vars
    BY <2>1 DEF PricesOK, RowOK, ObjectOK, SentOK, LocksOK, NothingSent, Merged, vars
  <2>2. ASSUME NEW r \in Requests, Step(r)
        PROVE  PricesOK'
    BY <2>2, InvPrices DEF IInv
  <2> QED  BY <2>1, <2>2, Steps
<1>3. PricesOK => PriceDerived
  BY DEF PricesOK, RowOK, PriceDerived
<1> QED  BY <1>1, <1>2, <1>3, TillInvariant, PTL DEF Spec
===============================================================================
