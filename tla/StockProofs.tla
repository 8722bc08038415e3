----------------------------- MODULE StockProofs -----------------------------
(***************************************************************************)
(* Theorems about the stock that Billing writes: however its sessions      *)
(* overwrite each other, a product shows the balance of its last row, and  *)
(* the rows of a saved sale are all of its lines.                          *)
(***************************************************************************)
EXTENDS BillingProofs, SumProofs

-----------------------------------------------------------------------------
(* What the ledger rows of a document add up to *)

Quantities(t) == [i \in DOMAIN t |-> t[i].quantity]
About(t, op, d) == {i \in DOMAIN t : t[i].op = op /\ t[i].ref_id = d}
MovedIn(t, op, d) == SumFunctionOnSet(Quantities(t), About(t, op, d))
TotalOf(t) == SumFunctionOnSet(Quantities(t), DOMAIN t)

LEMMA ConcatParts ==
  ASSUME NEW T, NEW s \in Seq(T), NEW t \in Seq(T)
  PROVE  /\ Len(s \o t) = Len(s) + Len(t)
         /\ \A i \in 1..Len(s) : (s \o t)[i] = s[i]
         /\ \A i \in 1..Len(t) : (s \o t)[Len(s) + i] = t[i]
         /\ SubSeq(s \o t, 1, Len(s)) = s
<1> DEFINE c == s \o t
           u == SubSeq(c, 1, Len(s))
<1>1. /\ Len(s) \in Nat /\ Len(t) \in Nat /\ c \in Seq(T) /\ Len(c) = Len(s) + Len(t)
      /\ \A i \in 1..Len(s) : c[i] = s[i]
      /\ \A i \in 1..Len(t) : c[Len(s) + i] = t[i]
  OBVIOUS
<1>2. u \in Seq(T) /\ Len(u) = Len(s) /\ \A i \in 1..Len(s) : u[i] = c[i]
  <2> HIDE DEF c
  <2> QED  BY <1>1
<1>3. u = s
  <2> HIDE DEF c, u
  <2> QED  BY <1>1, <1>2
<1> QED  BY <1>1, <1>3

LEMMA EmptySequence ==
  ASSUME NEW T, NEW t \in Seq(T)
  PROVE  Len(t) = 0 <=> t = <<>>
OBVIOUS

LEMMA MovedConcat ==
  ASSUME NEW s \in Seq(Row), NEW t \in Seq(Row), NEW op, NEW d
  PROVE  MovedIn(s \o t, op, d) = MovedIn(s, op, d) + MovedIn(t, op, d)
<1>1. PICK n \in Nat, k \in Nat : n = Len(s) /\ k = Len(t)
  OBVIOUS
<1>2. PICK c : c = s \o t
  OBVIOUS
<1>3. /\ DOMAIN s = 1..n /\ DOMAIN t = 1..k /\ DOMAIN c = 1..n + k
      /\ \A i \in 1..n : c[i] = s[i]
      /\ \A i \in 1..k : c[n + i] = t[i]
  BY <1>1, <1>2
<1>4. /\ \A i \in 1..n : s[i] \in Row
      /\ \A i \in 1..k : t[i] \in Row
  BY <1>3
<1>5. /\ \A i \in 1..n : s[i].quantity \in Int /\ c[i].quantity = s[i].quantity
      /\ \A i \in 1..k : t[i].quantity \in Int /\ c[n + i].quantity = t[i].quantity
  BY <1>3, <1>4 DEF Row
<1>6. UpTo(About(s, op, d), n) /\ UpTo(About(t, op, d), k)
  BY <1>3 DEF About, UpTo
<1>7. About(c, op, d) = About(s, op, d) \cup Shifted(n, About(t, op, d))
  <2>1. \A j \in 1..n + k : j \in 1..n \/ \E i \in 1..k : j = n + i
    <3> TAKE j \in 1..n + k
    <3>1. j > n => j - n \in 1..k /\ j = n + (j - n)
      OBVIOUS
    <3> QED  BY <3>1
  <2>2. \A i \in 1..k : n + i \in 1..n + k
    OBVIOUS
  <2>3. ASSUME NEW j \in About(c, op, d)
        PROVE  j \in About(s, op, d) \cup Shifted(n, About(t, op, d))
    <3>1. j \in 1..n + k /\ c[j].op = op /\ c[j].ref_id = d
      BY <1>3 DEF About
    <3>2. CASE j \in 1..n
      BY <1>3, <3>1, <3>2 DEF About
    <3>3. CASE \E i \in 1..k : j = n + i
      BY <1>3, <3>1, <3>3 DEF About, Shifted
    <3> QED  BY <2>1, <3>1, <3>2, <3>3
  <2>4. About(s, op, d) \subseteq About(c, op, d)
    BY <1>3 DEF About
  <2>5. Shifted(n, About(t, op, d)) \subseteq About(c, op, d)
    BY <1>3, <2>2 DEF About, Shifted
  <2> QED  BY <2>3, <2>4, <2>5
<1>8. /\ StartsWith(Quantities(c), Quantities(s), About(s, op, d))
      /\ GoesOnWith(Quantities(c), n, Quantities(t), About(t, op, d))
  <2>1. \A i \in 1..k : n + i \in 1..n + k
    OBVIOUS
  <2>2. \A i \in 1..n : i \in 1..n + k
    OBVIOUS
  <2>3. /\ \A i \in 1..n : Quantities(s)[i] \in Int /\ Quantities(c)[i] = Quantities(s)[i]
        /\ \A i \in 1..k : Quantities(t)[i] \in Int /\ Quantities(c)[n + i] = Quantities(t)[i]
    BY <1>3, <1>5, <2>1, <2>2 DEF Quantities
  <2> QED  BY <1>6, <2>3 DEF StartsWith, GoesOnWith, UpTo
<1>9. SumFunctionOnSet(Quantities(c), About(s, op, d) \cup Shifted(n, About(t, op, d)))
        = MovedIn(s, op, d) + MovedIn(t, op, d)
  BY <1>6, <1>8, SumConcat DEF MovedIn
<1> QED  BY <1>2, <1>7, <1>9 DEF MovedIn

LEMMA MovedType ==
  ASSUME NEW t \in Seq(Row), NEW op, NEW d
  PROVE  MovedIn(t, op, d) \in Int /\ TotalOf(t) \in Int
<1>1. PICK k \in Nat : DOMAIN t = 1..k
  OBVIOUS
<1>2. IsFiniteSet(DOMAIN t) /\ IsFiniteSet(About(t, op, d))
  <2>1. IsFiniteSet(1..k)
    BY FS_Interval
  <2> QED  BY <1>1, <2>1, FS_Subset DEF About
<1>3. \A i \in DOMAIN t : t[i] \in Row
  OBVIOUS
<1>4. \A i \in DOMAIN t : Quantities(t)[i] \in Int
  BY <1>3 DEF Quantities, Row
<1>5. \A i \in About(t, op, d) : Quantities(t)[i] \in Int
  BY <1>4 DEF About
<1> QED  BY <1>2, <1>4, <1>5, SumType DEF MovedIn, TotalOf

LEMMA NothingMoved == TotalOf(<<>>) = 0 /\ \A op, d : MovedIn(<<>>, op, d) = 0
<1>1. DOMAIN <<>> = {} /\ \A op, d : About(<<>>, op, d) = {}
  BY DEF About
<1> QED  BY <1>1, SumEmpty DEF TotalOf, MovedIn

\* Rows that are all about one document.
AllAbout(t, op, d) == \A i \in DOMAIN t : t[i].op = op /\ t[i].ref_id = d

LEMMA MovedForOne ==
  ASSUME NEW t, NEW op, NEW d, AllAbout(t, op, d), NEW o, NEW e
  PROVE  MovedIn(t, o, e) = IF o = op /\ e = d THEN TotalOf(t) ELSE 0
<1>1. About(t, o, e) = IF o = op /\ e = d THEN DOMAIN t ELSE {}
  BY DEF About, AllAbout
<1> QED  BY <1>1, SumEmpty DEF MovedIn, TotalOf

LEMMA TotalOfAppend ==
  ASSUME NEW t \in Seq(Row), NEW x \in Row
  PROVE  TotalOf(Append(t, x)) = TotalOf(t) + x.quantity
<1>1. PICK n \in Nat : n = Len(t)
  OBVIOUS
<1>2. PICK c : c = Append(t, x)
  OBVIOUS
<1>3. /\ DOMAIN t = 1..n /\ DOMAIN c = (1..n) \cup {n + 1} /\ n + 1 \notin 1..n
      /\ c[n + 1] = x /\ \A i \in 1..n : c[i] = t[i] /\ t[i] \in Row
  BY <1>1, <1>2
<1>4. /\ \A i \in 1..n : Quantities(t)[i] \in Int /\ Quantities(t)[i] = Quantities(c)[i]
      /\ Quantities(c)[n + 1] = x.quantity /\ x.quantity \in Int
  BY <1>3 DEF Quantities, Row
<1>5. IsFiniteSet(1..n)
  BY FS_Interval
<1>6. SumFunctionOnSet(Quantities(c), (1..n) \cup {n + 1})
        = x.quantity + SumFunctionOnSet(Quantities(c), 1..n)
  <2>1. PICK f, S, m : f = Quantities(c) /\ S = 1..n /\ m = n + 1
    OBVIOUS
  <2>2. m \notin S /\ IsFiniteSet(S) /\ f[m] = x.quantity /\ \A i \in S \cup {m} : f[i] \in Int
    BY <1>3, <1>4, <1>5, <2>1
  <2>3. SumFunctionOnSet(f, S \cup {m}) = f[m] + SumFunctionOnSet(f, S)
    BY <2>2, SumAdd
  <2> QED  BY <2>1, <2>2, <2>3
<1>7. SumFunctionOnSet(Quantities(t), 1..n) = SumFunctionOnSet(Quantities(c), 1..n)
  BY <1>4, <1>5, SumEqual
<1>8. TotalOf(t) \in Int
  BY MovedType
<1> QED  BY <1>2, <1>3, <1>4, <1>6, <1>7, <1>8 DEF TotalOf

Naming(lines, p) == {i \in DOMAIN lines : lines[i].product = p}

LEMMA QuantityInIs ==
  \A lines, p : QuantityIn(lines, p) = SumFunctionOnSet(Quantities(lines), Naming(lines, p))
BY DEF QuantityIn, Quantities, Naming

LEMMA QuantityType ==
  ASSUME NEW lines \in Seq(Line), NEW p
  PROVE  QuantityIn(lines, p) \in Int
<1>1. PICK k \in Nat : DOMAIN lines = 1..k
  OBVIOUS
<1>2. IsFiniteSet(Naming(lines, p))
  <2>1. IsFiniteSet(1..k)
    BY FS_Interval
  <2> QED  BY <1>1, <2>1, FS_Subset DEF Naming
<1>3. \A i \in DOMAIN lines : lines[i] \in Line
  OBVIOUS
<1>4. \A i \in Naming(lines, p) : Quantities(lines)[i] \in Int
  BY <1>3 DEF Quantities, Naming, Line
<1> QED  BY <1>2, <1>4, QuantityInIs, SumType

LEMMA QuantityInNothing == \A p : QuantityIn(<<>>, p) = 0
<1>1. \A p : Naming(<<>>, p) = {}
  BY DEF Naming
<1> QED  BY <1>1, QuantityInIs, SumEmpty

LEMMA QuantityOpposite ==
  ASSUME NEW lines \in Seq(Line), NEW p
  PROVE  QuantityIn(Opposite(lines), p) = -QuantityIn(lines, p)
<1>1. PICK k \in Nat : DOMAIN lines = 1..k
  OBVIOUS
<1>2. IsFiniteSet(Naming(lines, p))
  <2>1. IsFiniteSet(1..k)
    BY FS_Interval
  <2> QED  BY <1>1, <2>1, FS_Subset DEF Naming
<1>3. \A i \in DOMAIN lines : lines[i] \in Line
  OBVIOUS
<1>4. /\ DOMAIN Opposite(lines) = DOMAIN lines
      /\ \A i \in DOMAIN lines : /\ Opposite(lines)[i].quantity = -lines[i].quantity
                                 /\ Opposite(lines)[i].product = lines[i].product
                                 /\ lines[i].quantity \in Int
  BY <1>3 DEF Opposite, Line
<1>5. Naming(Opposite(lines), p) = Naming(lines, p)
  BY <1>4 DEF Naming
<1>6. \A i \in Naming(lines, p) : /\ Quantities(lines)[i] \in Int
                                  /\ Quantities(Opposite(lines))[i] = -Quantities(lines)[i]
  BY <1>4 DEF Naming, Quantities
<1>7. SumFunctionOnSet(Quantities(Opposite(lines)), Naming(lines, p))
        = -SumFunctionOnSet(Quantities(lines), Naming(lines, p))
  BY <1>2, <1>6, SumOpposite
<1> QED  BY <1>5, <1>7, QuantityInIs

LEMMA QuantityOfHead ==
  ASSUME NEW lines \in Seq(Line), lines # <<>>, NEW p
  PROVE  QuantityIn(lines, p)
           = (IF Head(lines).product = p THEN Head(lines).quantity ELSE 0) + QuantityIn(Tail(lines), p)
<1>1. PICK t, x : t = Tail(lines) /\ x = Head(lines) /\ t \in Seq(Line) /\ x \in Line
  <2>1. Tail(lines) \in Seq(Line) /\ Head(lines) \in Line
    OBVIOUS
  <2> QED  BY <2>1
<1>2. PICK k \in Nat : k = Len(t)
  BY <1>1
<1>3. /\ DOMAIN t = 1..k /\ DOMAIN lines = 1..1 + k /\ lines[1] = x
      /\ \A i \in 1..k : lines[1 + i] = t[i] /\ t[i] \in Line
  BY <1>1, <1>2
<1> DEFINE f == [i \in {1} |-> x.quantity]
           S == IF x.product = p THEN {1} ELSE {}
<1>4. UpTo(S, 1) /\ UpTo(Naming(t, p), k)
  BY <1>3 DEF Naming, UpTo
<1>5. Naming(lines, p) = S \cup Shifted(1, Naming(t, p))
  <2>1. \A j \in 1..1 + k : j = 1 \/ \E i \in 1..k : j = 1 + i
    <3> TAKE j \in 1..1 + k
    <3>1. j > 1 => j - 1 \in 1..k /\ j = 1 + (j - 1)
      OBVIOUS
    <3> QED  BY <3>1
  <2>2. 1 \in 1..1 + k /\ \A i \in 1..k : 1 + i \in 1..1 + k
    OBVIOUS
  <2>3. ASSUME NEW j \in Naming(lines, p)
        PROVE  j \in S \cup Shifted(1, Naming(t, p))
    <3>1. j \in 1..1 + k /\ lines[j].product = p
      BY <1>3 DEF Naming
    <3>2. CASE j = 1
      BY <1>3, <3>1, <3>2
    <3>3. CASE \E i \in 1..k : j = 1 + i
      BY <1>3, <3>1, <3>3 DEF Naming, Shifted
    <3> QED  BY <2>1, <3>1, <3>2, <3>3
  <2>4. S \subseteq Naming(lines, p)
    BY <1>3, <2>2 DEF Naming
  <2>5. Shifted(1, Naming(t, p)) \subseteq Naming(lines, p)
    BY <1>3, <2>2 DEF Naming, Shifted
  <2> QED  BY <2>3, <2>4, <2>5
<1>6. /\ f[1] = x.quantity /\ x.quantity \in Int
      /\ StartsWith(Quantities(lines), f, S)
      /\ GoesOnWith(Quantities(lines), 1, Quantities(t), Naming(t, p))
  <2>1. 1 \in 1..1 + k /\ \A i \in 1..k : 1 + i \in 1..1 + k
    OBVIOUS
  <2>2. /\ Quantities(lines)[1] = x.quantity /\ x.quantity \in Int
        /\ \A i \in 1..k : Quantities(t)[i] \in Int /\ Quantities(lines)[1 + i] = Quantities(t)[i]
    BY <1>1, <1>3, <2>1 DEF Quantities, Line
  <2> QED  BY <1>4, <2>2 DEF StartsWith, GoesOnWith, UpTo
<1> HIDE DEF f, S
<1>7. SumFunctionOnSet(Quantities(lines), S \cup Shifted(1, Naming(t, p)))
        = SumFunctionOnSet(f, S) + SumFunctionOnSet(Quantities(t), Naming(t, p))
  <2>1. 1 \in Nat
    OBVIOUS
  <2> QED  BY <1>4, <1>6, <2>1, SumConcat
<1>8. SumFunctionOnSet(f, S) = IF x.product = p THEN x.quantity ELSE 0
  BY <1>6, SumEmpty, SumSingle DEF S
<1> QED  BY <1>1, <1>5, <1>7, <1>8, QuantityInIs
-----------------------------------------------------------------------------
(* A sale is written whole *)

\* What a session has added for a product, and has still to add.
Adds(r, p) == TotalOf(rows[r][p]) + QuantityIn(todo[r], p)

AddsItsLines(r) ==
  \A p \in Products :
    /\ call[r].op = "sale" => Adds(r, p) = -QuantityIn(call[r].items, p)
    /\ call[r].op = "void" => Adds(r, p) = QuantityIn(call[call[r].ref].items, p)
    /\ call[r].op = "cancel" => Adds(r, p) = -QuantityIn(call[call[r].ref].items, p)

\* A sale is its own document; a reversal is of a request that is over.
Refers(r) ==
  /\ call[r].op = "sale" => call[r].ref = r
  /\ call[r].op = "void" => call[r].ref \in Saved
  /\ call[r].op \in {"void", "cancel"} => call[r].ref \in Requests /\ pc[call[r].ref] = "done"

NamesItsRows(r) ==
  \A p \in Products : \A i \in DOMAIN rows[r][p] :
    rows[r][p][i].op = call[r].op /\ rows[r][p][i].ref_id = call[r].ref

SessionWhole(r) ==
  /\ Refers(r)
  /\ NamesItsRows(r)
  /\ r \in Busy => AddsItsLines(r)
  /\ pc[r] = "metered" => todo[r] = <<>>

WholeInv ==
  /\ \A r \in Requests : SessionWhole(r)
  /\ \A r \in Saved : pc[r] = "done" /\ call[r].op = "sale"
  /\ SaleWrittenWhole

\* What a step does to a session, as far as the ledger is concerned.
Starts(r, op, ref, items, moves) ==
  /\ \E step \in {"began", "posting"} : Open(r, op, ref, items, moves, step)
  /\ UNCHANGED sale_status

\* A session without rows loads products at the stock they show.
LoadsShown(r) ==
  /\ rows[r] = NoRows
  /\ \A p \in Products : held'[r][p] \in {None, current_stock[p]}
  /\ \A q \in Requests \ {r} : held'[q] = held[q]

Goes(r) ==
  /\ r \in Busy
  /\ \E step \in Steps : /\ step \notin {"idle", "done"}
                         /\ step = "metered" => todo[r] = <<>>
                         /\ pc' = [pc EXCEPT ![r] = step]
  /\ held' = held \/ LoadsShown(r)
  /\ UNCHANGED <<current_stock, ledger, call, todo, rows, sale_status>>

Posts(r) == PostLine(r) /\ call[r].op \in Operations /\ UNCHANGED sale_status

Leaves(r) == r \in Busy /\ RollBack(r) /\ UNCHANGED sale_status

Writes(r) == r \in Busy /\ Commit(r) /\ (pc[r] = "metered" \/ Posted(r))

WritesBill(r) ==
  /\ Writes(r)
  /\ \/ call[r].op = "sale" /\ sale_status' = [sale_status EXCEPT ![r] = "active"]
     \/ call[r].op = "void" /\ sale_status' = [sale_status EXCEPT ![call[r].ref] = "void"]

Idles == UNCHANGED <<current_stock, ledger, pc, call, todo, held, rows, sale_status>>

LEMMA BillShapes ==
  ASSUME TypeInv, BillingNext \/ UNCHANGED vars
  PROVE  \/ \E r \in Requests : \/ \E cart \in Carts : Starts(r, "sale", r, cart, Opposite(cart))
                                \/ \E s \in Requests : /\ sale_status[s] = "active"
                                                       /\ Starts(r, "void", s, <<>>, call[s].items)
                                \/ Goes(r) \/ Posts(r) \/ Leaves(r) \/ WritesBill(r)
         \/ Idles
<1>1. ASSUME NEW r \in Requests, NEW cart \in Carts, OpenSale(r, cart)
      PROVE  Starts(r, "sale", r, cart, Opposite(cart))
  BY <1>1 DEF OpenSale, Starts
<1>2. ASSUME NEW r \in Requests, NEW s \in Requests, OpenVoid(r, s)
      PROVE  sale_status[s] = "active" /\ Starts(r, "void", s, <<>>, call[s].items)
  BY <1>2 DEF OpenVoid, Starts, billVars
<1>3. ASSUME NEW r \in Requests, Progress(r) \/ AbortBill(r), FailBill(r)
      PROVE  Leaves(r)
  <2>1. r \in Busy
    BY <1>3 DEF Progress, AbortBill, AssertCanBill, LoadProducts, CountInvoices, InsertSale, PostBillLine,
                PostLine, ReadUsage, Posted, CommitSale, CommitVoid, Busy
  <2> QED  BY <1>3, <2>1 DEF FailBill, Leaves
<1>4. ASSUME NEW r \in Requests,
             \/ AssertCanBill(r) \/ LoadProducts(r) \/ CountInvoices(r) \/ InsertSale(r) \/ ReadUsage(r),
             ~FailBill(r)
      PROVE  Goes(r)
  <2>1. UNCHANGED <<current_stock, ledger, call, todo, rows, sale_status>>
    BY <1>4 DEF AssertCanBill, LoadProducts, CountInvoices, InsertSale, ReadUsage, billVars
  <2>3. held' = held \/ LoadsShown(r)
    <3>1. CASE LoadProducts(r)
      <4>1. /\ pc[r] = "guarded"
            /\ held' = [held EXCEPT ![r] = [p \in Products |->
                          IF p \in InCart(r) THEN current_stock[p] ELSE None]]
        BY <1>4, <3>1 DEF LoadProducts
      <4>2. rows[r] = NoRows
        BY <4>1 DEF TypeInv, SessionOK
      <4>3. /\ \A p \in Products : held'[r][p] \in {None, current_stock[p]}
            /\ \A q \in Requests \ {r} : held'[q] = held[q]
        BY <4>1 DEF TypeInv, TypeOK, LedgerTypeOK
      <4> QED  BY <4>2, <4>3 DEF LoadsShown
    <3>2. CASE ~LoadProducts(r)
      BY <1>4, <3>2 DEF AssertCanBill, CountInvoices, InsertSale, ReadUsage, billVars
    <3> QED  BY <3>1, <3>2
  <2>2. \E a, b \in {"began", "guarded", "loaded", "numbered", "posting", "metered"} :
          pc[r] = a /\ pc' = [pc EXCEPT ![r] = b] /\ (b = "metered" => todo[r] = <<>>)
    BY <1>4 DEF AssertCanBill, LoadProducts, CountInvoices, InsertSale, ReadUsage, Posted
  <2> QED  BY <2>1, <2>2, <2>3 DEF Goes, Busy, Steps
<1>5. ASSUME NEW r \in Requests, PostBillLine(r)
      PROVE  Posts(r)
  BY <1>5 DEF PostBillLine, Posts, Operations, billVars
<1>6. ASSUME NEW r \in Requests, CommitSale(r) \/ CommitVoid(r), ~FailBill(r)
      PROVE  WritesBill(r)
  BY <1>6 DEF CommitSale, CommitVoid, WritesBill, Writes, Busy
<1>7. ASSUME BillingEnvironment \/ UNCHANGED vars
      PROVE  Idles
  BY <1>7 DEF BillingEnvironment, NextMonth, Activate, SetPrefix, ledgerVars, vars, Idles
<1>8. ASSUME NEW r \in Requests, Progress(r)
      PROVE  Goes(r) \/ Posts(r) \/ Leaves(r) \/ WritesBill(r)
  BY <1>3, <1>4, <1>5, <1>6, <1>8 DEF Progress
<1>9. ASSUME NEW r \in Requests, AbortBill(r)
      PROVE  Leaves(r)
  BY <1>3, <1>9 DEF AbortBill
<1> QED  BY <1>1, <1>2, <1>7, <1>8, <1>9 DEF BillingNext, StartBill

\* What a step of one session leaves of another one.
LEMMA WholeElsewhere ==
  ASSUME WholeInv, NEW r \in Requests, pc[r] # "done",
         \A q \in Requests \ {r} : /\ pc'[q] = pc[q] /\ call'[q] = call[q]
                                   /\ todo'[q] = todo[q] /\ rows'[q] = rows[q],
         Saved \subseteq Saved'
  PROVE  /\ \A q \in Requests \ {r} : SessionWhole(q)'
         /\ r \notin Saved
         /\ \A q \in Saved : call'[q] = call[q] /\ pc'[q] = pc[q]
<1>1. r \notin Saved
  BY DEF WholeInv
<1>2. \A q \in Saved : q \in Requests \ {r}
  BY <1>1 DEF Saved
<1>3. ASSUME NEW q \in Requests \ {r}
      PROVE  SessionWhole(q)'
  <2>1. SessionWhole(q) /\ pc'[q] = pc[q] /\ call'[q] = call[q] /\ todo'[q] = todo[q] /\ rows'[q] = rows[q]
    BY DEF WholeInv
  <2>2. q \in Busy' <=> q \in Busy
    BY <2>1 DEF Busy
  <2>3. call[q].op \in {"void", "cancel"} =>
          /\ call[q].ref \in Requests /\ pc[call[q].ref] = "done"
          /\ pc'[call[q].ref] = "done" /\ call'[call[q].ref] = call[call[q].ref]
    BY <2>1 DEF SessionWhole, Refers
  <2>4. Refers(q)'
    BY <2>1, <2>3 DEF SessionWhole, Refers
  <2>5. NamesItsRows(q)'
    BY <2>1 DEF SessionWhole, NamesItsRows
  <2>6. ASSUME q \in Busy, NEW p \in Products
        PROVE  Adds(q, p)' = Adds(q, p)
    BY <2>1 DEF Adds
  <2>7. q \in Busy' => AddsItsLines(q)'
    BY <2>1, <2>2, <2>3, <2>6 DEF SessionWhole, AddsItsLines
  <2> QED  BY <2>1, <2>4, <2>5, <2>7 DEF SessionWhole
<1> QED  BY <1>1, <1>2, <1>3

\* A step that is not a commit.
LEMMA OwnWhole ==
  ASSUME WholeInv, NEW r \in Requests, pc[r] # "done",
         \A q \in Requests \ {r} : /\ pc'[q] = pc[q] /\ call'[q] = call[q]
                                   /\ todo'[q] = todo[q] /\ rows'[q] = rows[q],
         UNCHANGED <<ledger, sale_status>>, SessionWhole(r)'
  PROVE  WholeInv'
<1>1. Saved' = Saved
  BY DEF Saved
<1>2. /\ \A q \in Requests \ {r} : SessionWhole(q)'
      /\ r \notin Saved
      /\ \A q \in Saved : call'[q] = call[q] /\ pc'[q] = pc[q]
  BY <1>1, WholeElsewhere
<1>3. \A op, d, p : QuantityMoved(op, d, p)' = QuantityMoved(op, d, p)
  BY DEF QuantityMoved
<1>4. SaleWrittenWhole'
  BY <1>1, <1>2, <1>3 DEF WholeInv, SaleWrittenWhole
<1> QED  BY <1>1, <1>2, <1>4 DEF WholeInv

LEMMA StartsWhole ==
  ASSUME TypeInv, WholeInv, NEW r \in Requests, NEW op, NEW ref, NEW items, NEW moves,
         Starts(r, op, ref, items, moves),
         op = "sale" => ref = r,
         op = "void" => ref \in Saved,
         op \in {"void", "cancel"} => ref \in Requests /\ pc[ref] = "done",
         \A p \in Products :
           /\ op = "sale" => QuantityIn(moves, p) = -QuantityIn(items, p)
           /\ op = "void" => QuantityIn(moves, p) = QuantityIn(call[ref].items, p)
           /\ op = "cancel" => QuantityIn(moves, p) = -QuantityIn(call[ref].items, p),
         moves \in Seq(Line)
  PROVE  WholeInv'
<1> USE DEF TypeInv, TypeOK, LedgerTypeOK
<1>1. PICK step \in {"began", "posting"} : Open(r, op, ref, items, moves, step)
  BY DEF Starts
<1>2. /\ pc[r] = "idle" /\ pc'[r] = step /\ call'[r] = [op |-> op, ref |-> ref, items |-> items]
      /\ todo'[r] = moves /\ rows'[r] = rows[r] /\ rows' = rows
      /\ \A q \in Requests \ {r} : pc'[q] = pc[q] /\ call'[q] = call[q] /\ todo'[q] = todo[q]
      /\ UNCHANGED <<ledger, sale_status>>
  BY <1>1 DEF Open, Starts
<1>3. rows[r] = NoRows
  BY <1>2 DEF SessionOK
<1>4. op \in {"void", "cancel"} => ref # r /\ pc'[ref] = "done" /\ call'[ref] = call[ref]
  BY <1>2
<1>5. Refers(r)'
  BY <1>2, <1>4 DEF Refers, Saved
<1>6. NamesItsRows(r)'
  BY <1>2, <1>3 DEF NamesItsRows, NoRows
<1>7. ASSUME NEW p \in Products
      PROVE  Adds(r, p)' = QuantityIn(moves, p)
  <2>1. rows'[r][p] = <<>>
    BY <1>2, <1>3 DEF NoRows
  <2>2. QuantityIn(moves, p) \in Int
    BY QuantityType
  <2>3. Adds(r, p)' = 0 + QuantityIn(moves, p)
    BY <1>2, <2>1, NothingMoved DEF Adds
  <2> QED  BY <2>2, <2>3
<1>8. AddsItsLines(r)'
  BY <1>2, <1>4, <1>7 DEF AddsItsLines
<1>9. SessionWhole(r)'
  BY <1>2, <1>5, <1>6, <1>8 DEF SessionWhole
<1> QED  BY <1>2, <1>9, OwnWhole

LEMMA GoesWhole ==
  ASSUME TypeInv, WholeInv, NEW r \in Requests, Goes(r)
  PROVE  WholeInv'
<1> USE DEF TypeInv, TypeOK, LedgerTypeOK
<1>1. PICK step \in Steps : /\ step \notin {"idle", "done"} /\ (step = "metered" => todo[r] = <<>>)
                            /\ pc' = [pc EXCEPT ![r] = step]
  BY DEF Goes
<1>2. /\ r \in Busy /\ pc[r] # "done" /\ UNCHANGED <<ledger, call, todo, rows, sale_status>>
      /\ SessionWhole(r)
  BY DEF Goes, Busy, WholeInv
<1>3. Refers(r)'
  BY <1>1, <1>2 DEF SessionWhole, Refers, Saved
<1>4. NamesItsRows(r)' /\ AddsItsLines(r)'
  BY <1>2 DEF SessionWhole, NamesItsRows, AddsItsLines, Adds
<1>5. SessionWhole(r)'
  BY <1>1, <1>2, <1>3, <1>4 DEF SessionWhole
<1> QED  BY <1>1, <1>2, <1>5, OwnWhole

LEMMA LeavesWhole ==
  ASSUME TypeInv, WholeInv, NEW r \in Requests, Leaves(r)
  PROVE  WholeInv'
<1> USE DEF TypeInv, TypeOK, LedgerTypeOK
<1>1. /\ pc[r] # "done" /\ pc'[r] = "idle" /\ call'[r] = NoCall /\ rows'[r] = NoRows
      /\ \A q \in Requests \ {r} : /\ pc'[q] = pc[q] /\ call'[q] = call[q]
                                   /\ todo'[q] = todo[q] /\ rows'[q] = rows[q]
      /\ UNCHANGED <<ledger, sale_status>>
  BY DEF Leaves, Busy, RollBack, CloseSession
<1>2. SessionWhole(r)'
  BY <1>1 DEF SessionWhole, Refers, NamesItsRows, NoRows, NoCall, Busy
<1> QED  BY <1>1, <1>2, OwnWhole

LEMMA PostsWhole ==
  ASSUME TypeInv, WholeInv, NEW r \in Requests, Posts(r)
  PROVE  WholeInv'
<1> USE DEF TypeInv, TypeOK, LedgerTypeOK
<1>1. PICK lines \in Seq(Line) : lines = todo[r]
  OBVIOUS
<1>2. PICK line : line = Head(lines)
  OBVIOUS
<1>3. /\ pc[r] = "posting" /\ lines # <<>> /\ line \in Line
      /\ rows' = [rows EXCEPT ![r][line.product] = Append(@, MovementRow(r, line))]
      /\ todo' = [todo EXCEPT ![r] = Tail(lines)]
      /\ UNCHANGED <<ledger, pc, call, sale_status>>
  BY <1>1, <1>2 DEF Posts, PostLine
<1>4. PICK x : x = MovementRow(r, line)
  OBVIOUS
<1>5. x \in Row /\ x.quantity = line.quantity /\ x.op = call[r].op /\ x.ref_id = call[r].ref
  <2>1. line.product \in Products /\ line.quantity \in Int
    BY <1>3 DEF Line
  <2>2. SeenStock(r, line.product) \in Int
    BY <2>1 DEF SeenStock
  <2>3. call[r].op \in Operations /\ call[r].ref \in Requests \cup {None}
    BY DEF Calls, Posts
  <2> QED  BY <1>4, <2>1, <2>2, <2>3 DEF MovementRow, Row
<1>6. SessionWhole(r) /\ r \in Busy
  BY <1>3 DEF WholeInv, Busy
<1>7. ASSUME NEW p \in Products
      PROVE  /\ Adds(r, p)' = Adds(r, p)
             /\ \A i \in DOMAIN rows'[r][p] : /\ rows'[r][p][i].op = call[r].op
                                              /\ rows'[r][p][i].ref_id = call[r].ref
  <2>1. PICK t \in Seq(Row) : t = rows[r][p]
    OBVIOUS
  <2>2. \A i \in DOMAIN t : t[i].op = call[r].op /\ t[i].ref_id = call[r].ref
    BY <1>6, <2>1 DEF SessionWhole, NamesItsRows
  <2>3. QuantityIn(lines, p)
          = (IF line.product = p THEN line.quantity ELSE 0) + QuantityIn(Tail(lines), p)
    BY <1>2, <1>3, QuantityOfHead
  <2>4. QuantityIn(lines, p) \in Int /\ QuantityIn(Tail(lines), p) \in Int /\ line.quantity \in Int
    <3>1. Tail(lines) \in Seq(Line)
      BY <1>3
    <3> QED  BY <1>3, <3>1, QuantityType DEF Line
  <2>5. todo'[r] = Tail(lines)
    BY <1>3
  <2>6. CASE line.product = p
    <3>1. rows'[r][p] = Append(t, x)
      BY <1>3, <1>4, <2>1, <2>6
    <3>2. TotalOf(Append(t, x)) = TotalOf(t) + line.quantity /\ TotalOf(t) \in Int
      BY <1>5, TotalOfAppend, MovedType
    <3>3. \A i \in DOMAIN Append(t, x) : Append(t, x)[i] = x \/ (i \in DOMAIN t /\ Append(t, x)[i] = t[i])
      BY <1>5
    <3>4. Adds(r, p)' = TotalOf(Append(t, x)) + QuantityIn(Tail(lines), p)
      BY <2>5, <3>1 DEF Adds
    <3>5. Adds(r, p) = TotalOf(t) + QuantityIn(lines, p)
      BY <1>1, <2>1 DEF Adds
    <3>6. Adds(r, p)' = Adds(r, p)
      BY <2>3, <2>4, <2>6, <3>2, <3>4, <3>5
    <3> QED  BY <1>5, <2>2, <3>1, <3>3, <3>6
  <2>7. CASE line.product # p
    <3>1. rows'[r][p] = t
      BY <1>3, <2>1, <2>7
    <3>2. Adds(r, p)' = TotalOf(t) + QuantityIn(Tail(lines), p)
      BY <2>5, <3>1 DEF Adds
    <3>3. Adds(r, p) = TotalOf(t) + QuantityIn(lines, p)
      BY <1>1, <2>1 DEF Adds
    <3>4. QuantityIn(lines, p) = QuantityIn(Tail(lines), p)
      BY <2>3, <2>4, <2>7
    <3> QED  BY <2>2, <3>1, <3>2, <3>3, <3>4
  <2> QED  BY <2>6, <2>7
<1>8. NamesItsRows(r)' /\ AddsItsLines(r)' /\ Refers(r)'
  BY <1>3, <1>6, <1>7 DEF SessionWhole, NamesItsRows, AddsItsLines, Refers, Saved
<1>9. SessionWhole(r)'
  BY <1>3, <1>8 DEF SessionWhole
<1>10. \A q \in Requests \ {r} : /\ pc'[q] = pc[q] /\ call'[q] = call[q]
                                 /\ todo'[q] = todo[q] /\ rows'[q] = rows[q]
  BY <1>3
<1> QED  BY <1>3, <1>9, <1>10, OwnWhole

\* A commit adds to the rows of its own document what its lines come to.
LEMMA CommitMoves ==
  ASSUME TypeInv, WholeInv, NEW r \in Requests, Writes(r), NEW p \in Products
  PROVE  /\ \A op, d : QuantityMoved(op, d, p)' = QuantityMoved(op, d, p)
                         + (IF op = call[r].op /\ d = call[r].ref THEN Adds(r, p) ELSE 0)
         /\ \A op, d : QuantityMoved(op, d, p) \in Int
         /\ Adds(r, p) \in Int
<1> USE DEF TypeInv, TypeOK, LedgerTypeOK
<1>0. SessionWhole(r)
  BY DEF WholeInv
<1>1. PICK s \in Seq(Row), t \in Seq(Row) : s = ledger[p] /\ t = rows[r][p]
  OBVIOUS
<1>2. ledger'[p] = s \o t
  BY <1>1 DEF Writes, Commit, WriteMovements
<1>3. todo[r] = <<>>
  BY <1>0 DEF Writes, Posted, SessionWhole
<1>4. \A i \in DOMAIN t : t[i].op = call[r].op /\ t[i].ref_id = call[r].ref
  BY <1>0, <1>1 DEF SessionWhole, NamesItsRows
<1>5. TotalOf(t) \in Int
  BY MovedType
<1>6. Adds(r, p) = TotalOf(t)
  <2>1. Adds(r, p) = TotalOf(t) + 0
    BY <1>1, <1>3, QuantityInNothing DEF Adds
  <2> QED  BY <1>5, <2>1
<1>7. ASSUME NEW op, NEW d
      PROVE  /\ QuantityMoved(op, d, p)' = MovedIn(s \o t, op, d)
             /\ QuantityMoved(op, d, p) = MovedIn(s, op, d)
             /\ MovedIn(s \o t, op, d) = MovedIn(s, op, d) + MovedIn(t, op, d)
             /\ MovedIn(s, op, d) \in Int
             /\ MovedIn(t, op, d) = IF op = call[r].op /\ d = call[r].ref THEN TotalOf(t) ELSE 0
  <2>1. QuantityMoved(op, d, p)' = MovedIn(s \o t, op, d)
    BY <1>2 DEF QuantityMoved, MovedIn, Quantities, About
  <2>2. QuantityMoved(op, d, p) = MovedIn(s, op, d)
    BY <1>1 DEF QuantityMoved, MovedIn, Quantities, About
  <2>3. MovedIn(t, op, d) = IF op = call[r].op /\ d = call[r].ref THEN TotalOf(t) ELSE 0
    <3>1. AllAbout(t, call[r].op, call[r].ref)
      BY <1>4 DEF AllAbout
    <3> QED  BY <3>1, MovedForOne
  <2>4. MovedIn(s \o t, op, d) = MovedIn(s, op, d) + MovedIn(t, op, d)
    BY MovedConcat
  <2>5. MovedIn(s, op, d) \in Int
    BY MovedType
  <2> QED  BY <2>1, <2>2, <2>3, <2>4, <2>5
<1> QED  BY <1>5, <1>6, <1>7

LEMMA WritesWhole ==
  ASSUME TypeInv, WholeInv, NEW r \in Requests, Writes(r),
         Saved' = IF call[r].op = "sale" THEN Saved \cup {r} ELSE Saved
  PROVE  WholeInv'
<1> USE DEF TypeInv, TypeOK, LedgerTypeOK
<1>1. /\ pc[r] # "done" /\ pc'[r] = "done" /\ call' = call /\ rows'[r] = NoRows
      /\ \A q \in Requests \ {r} : pc'[q] = pc[q] /\ todo'[q] = todo[q] /\ rows'[q] = rows[q]
  BY DEF Writes, Busy, Commit, CloseSession
<1>2. Saved \subseteq Saved'
  OBVIOUS
<1>3. /\ \A q \in Requests \ {r} : SessionWhole(q)'
      /\ r \notin Saved
      /\ \A q \in Saved : call'[q] = call[q] /\ pc'[q] = pc[q]
  BY <1>2, <1>1, WholeElsewhere
<1>4. SessionWhole(r) /\ AddsItsLines(r)
  BY DEF WholeInv, SessionWhole, Writes
<1>5. SessionWhole(r)'
  <2>1. Refers(r)'
    BY <1>2, <1>1, <1>4 DEF SessionWhole, Refers
  <2> QED  BY <1>1, <2>1 DEF SessionWhole, NamesItsRows, NoRows, Busy
<1>6. \A q \in Saved' : pc'[q] = "done" /\ call'[q].op = "sale"
  BY <1>1, <1>3 DEF WholeInv
<1>7. ASSUME NEW d \in Requests, NEW p \in Products
      PROVE  QuantityMoved("sale", d, p)' = IF d \in Saved' THEN -QuantityIn(call'[d].items, p) ELSE 0
  <2>1. /\ QuantityMoved("sale", d, p)' = QuantityMoved("sale", d, p)
             + (IF "sale" = call[r].op /\ d = call[r].ref THEN Adds(r, p) ELSE 0)
        /\ QuantityMoved("sale", d, p) \in Int /\ Adds(r, p) \in Int
    BY CommitMoves
  <2>2. QuantityMoved("sale", d, p) = IF d \in Saved THEN -QuantityIn(call[d].items, p) ELSE 0
    BY DEF WholeInv, SaleWrittenWhole
  <2>3. CASE call[r].op = "sale" /\ d = r
    <3>1. call[r].ref = r /\ Adds(r, p) = -QuantityIn(call[r].items, p)
      BY <1>4, <2>3 DEF SessionWhole, Refers, AddsItsLines
    <3>2. QuantityMoved("sale", d, p)' = 0 + Adds(r, p)
      BY <1>3, <2>1, <2>2, <2>3, <3>1
    <3> QED  BY <1>1, <2>1, <2>3, <3>1, <3>2
  <2>4. CASE ~(call[r].op = "sale" /\ d = r)
    <3>1. call[r].op = "sale" => call[r].ref = r
      BY <1>4 DEF SessionWhole, Refers
    <3>2. QuantityMoved("sale", d, p)' = QuantityMoved("sale", d, p)
      BY <2>1, <2>4, <3>1
    <3>3. d \in Saved' <=> d \in Saved
      BY <2>4
    <3> QED  BY <1>1, <2>2, <3>2, <3>3
  <2> QED  BY <2>3, <2>4
<1>8. SaleWrittenWhole'
  BY <1>7 DEF SaleWrittenWhole
<1> QED  BY <1>3, <1>5, <1>6, <1>8 DEF WholeInv

LEMMA WritesBillWhole ==
  ASSUME TypeInv, WholeInv, NEW r \in Requests, WritesBill(r)
  PROVE  WholeInv'
<1>1. sale_status \in [Requests -> {"unsaved", "active", "void"}]
  BY DEF TypeInv, TypeOK, BillingTypeOK
<1>2. CASE call[r].op = "sale"
  <2>1. sale_status' = [sale_status EXCEPT ![r] = "active"]
    BY <1>2 DEF WritesBill
  <2>2. Saved' = Saved \cup {r}
    BY <1>1, <2>1 DEF Saved
  <2> QED  BY <1>2, <2>2, WritesWhole DEF WritesBill
<1>3. CASE call[r].op # "sale"
  <2>1. sale_status' = [sale_status EXCEPT ![call[r].ref] = "void"] /\ call[r].op = "void"
    BY <1>3 DEF WritesBill
  <2>2. call[r].ref \in Saved
    <3>1. SessionWhole(r)
      BY DEF WholeInv
    <3> QED  BY <2>1, <3>1 DEF SessionWhole, Refers
  <2>3. Saved' = Saved
    BY <1>1, <2>1, <2>2 DEF Saved
  <2> QED  BY <1>3, <2>3, WritesWhole DEF WritesBill
<1> QED  BY <1>2, <1>3

LEMMA WholeInit == Init => WholeInv
<1> SUFFICES ASSUME Init PROVE WholeInv
  OBVIOUS
<1>1. /\ Saved = {} /\ Busy = {}
      /\ \A r \in Requests : pc[r] = "idle" /\ call[r] = NoCall /\ rows[r] = NoRows
  BY DEF Init, LedgerInit, BillingInit, Saved, Busy
<1>2. \A r \in Requests : SessionWhole(r)
  BY <1>1 DEF SessionWhole, Refers, NamesItsRows, NoCall, NoRows
<1>3. ASSUME NEW r \in Requests, NEW p \in Products
      PROVE  QuantityMoved("sale", r, p) = 0
  <2>1. PICK t : t = ledger[p]
    OBVIOUS
  <2>2. DOMAIN t = {1} /\ t[1].op = "opening"
    BY <2>1 DEF Init, LedgerInit, OpeningRow
  <2>3. About(t, "sale", r) = {}
    BY <2>2 DEF About
  <2>4. MovedIn(t, "sale", r) = 0
    BY <2>3, SumEmpty DEF MovedIn
  <2> QED  BY <2>1, <2>4 DEF QuantityMoved, MovedIn, About, Quantities
<1>4. SaleWrittenWhole
  BY <1>1, <1>3 DEF SaleWrittenWhole
<1> QED  BY <1>1, <1>2, <1>4 DEF WholeInv

LEMMA BillWhole ==
  ASSUME TypeInv, WholeInv, BillingNext \/ UNCHANGED vars
  PROVE  WholeInv'
<1>1. ASSUME NEW r \in Requests, NEW cart \in Carts, Starts(r, "sale", r, cart, Opposite(cart))
      PROVE  WholeInv'
  <2>1. cart \in Seq(Line)
    BY LedgerAssumption
  <2>2. Opposite(cart) \in Seq(Line) /\ \A p \in Products : QuantityIn(Opposite(cart), p) = -QuantityIn(cart, p)
    BY <2>1, OppositeType, QuantityOpposite
  <2> QED  BY <1>1, <2>2, StartsWhole
<1>2. ASSUME NEW r \in Requests, NEW s \in Requests, sale_status[s] = "active",
             Starts(r, "void", s, <<>>, call[s].items)
      PROVE  WholeInv'
  <2>1. s \in Saved /\ pc[s] = "done"
    BY <1>2 DEF Saved, WholeInv
  <2>2. call[s].items \in Seq(Line)
    BY DEF TypeInv, TypeOK, LedgerTypeOK, Calls
  <2> QED  BY <1>2, <2>1, <2>2, StartsWhole
<1>3. ASSUME Idles
      PROVE  WholeInv'
  <2>1. \A r \in Requests : SessionWhole(r)' <=> SessionWhole(r)
    BY <1>3 DEF Idles, SessionWhole, Refers, NamesItsRows, AddsItsLines, Adds, Busy, Saved
  <2>2. Saved' = Saved /\ SaleWrittenWhole'
    BY <1>3 DEF Idles, WholeInv, Saved, SaleWrittenWhole, QuantityMoved
  <2>3. pc' = pc /\ call' = call
    BY <1>3 DEF Idles
  <2> QED  BY <2>1, <2>2, <2>3 DEF WholeInv
<1> QED  BY <1>1, <1>2, <1>3, BillShapes, GoesWhole, PostsWhole, LeavesWhole, WritesBillWhole

\* create_sale, "Atomic write": for every product, the OUT rows in the ledger
\* that name a sale are all of its lines once it is saved, and none before,
\* whichever sessions overlap, fail or die.
THEOREM SalesWrittenWhole == Spec => []SaleWrittenWhole
<1>1. TypeInv /\ WholeInv /\ [Next]_vars => (TypeInv /\ WholeInv)'
  BY TypeInvStep, BillWhole DEF Next, Quiet
<1>2. WholeInv => SaleWrittenWhole
  BY DEF WholeInv
<1> QED  BY <1>1, <1>2, TypeInvInit, WholeInit, PTL DEF Spec

-----------------------------------------------------------------------------
(* The stock a product shows *)

\* schemas/sale.py: the quantity of a line is greater than zero.
PositiveCarts == \A cart \in Carts : \A i \in DOMAIN cart : cart[i].quantity > 0

\* What a session moves, it moves one way: the stock it holds of a product is
\* above the one it loaded and rises further, or below and falls further.  So
\* the flush finds it changed and writes it.
Rises(r) ==
  /\ \A i \in DOMAIN todo[r] : todo[r][i].quantity > 0
  /\ \A p \in Products : rows[r][p] # <<>> => held[r][p] > LoadedStock(r, p)

Falls(r) ==
  /\ \A i \in DOMAIN todo[r] : todo[r][i].quantity < 0
  /\ \A p \in Products : rows[r][p] # <<>> => held[r][p] < LoadedStock(r, p)

\* The last row a session added for a product has the balance it holds.
RowsEndHeld(r) ==
  \A p \in Products :
    rows[r][p] # <<>> => rows[r][p][Len(rows[r][p])].balance_after = held[r][p]

PositiveLines(r) ==
  call[r].op \in {"sale", "purchase"} => \A i \in DOMAIN call[r].items : call[r].items[i].quantity > 0

SessionMirrors(r) == (Rises(r) \/ Falls(r)) /\ RowsEndHeld(r) /\ PositiveLines(r)

ShowsLastRow(p) ==
  ledger[p] # <<>> /\ current_stock[p] = ledger[p][Len(ledger[p])].balance_after

StockInv ==
  /\ \A r \in Requests : SessionMirrors(r)
  /\ \A p \in Products : ShowsLastRow(p)

LEMMA StockInvInit == Init => StockInv
<1> SUFFICES ASSUME Init PROVE StockInv
  OBVIOUS
<1> USE DEF Init, LedgerInit, BillingInit
<1>1. \A r \in Requests : SessionMirrors(r)
  BY DEF SessionMirrors, Rises, RowsEndHeld, PositiveLines, NoCall, NoRows
<1>2. \A p \in Products : ShowsLastRow(p)
  BY DEF ShowsLastRow, OpeningRow
<1> QED  BY <1>1, <1>2 DEF StockInv

LEMMA OppositeLines ==
  ASSUME NEW lines \in Seq(Line)
  PROVE  /\ DOMAIN Opposite(lines) = DOMAIN lines
         /\ \A i \in DOMAIN lines : Opposite(lines)[i].quantity = -lines[i].quantity
<1>1. \A i \in DOMAIN lines : lines[i] \in Line
  OBVIOUS
<1> QED  BY <1>1 DEF Opposite, Line

LEMMA AppendEnds ==
  ASSUME NEW S, NEW s \in Seq(S), NEW x \in S
  PROVE  /\ Append(s, x) # <<>>
         /\ Append(s, x)[Len(Append(s, x))] = x
         /\ s = <<>> => Append(s, x)[1] = x
         /\ s # <<>> => Append(s, x)[1] = s[1]
<1> DEFINE n == Len(s)
           t == Append(s, x)
<1>1. /\ n \in Nat /\ Len(t) = n + 1 /\ t[n + 1] = x /\ \A i \in 1..n : t[i] = s[i]
      /\ t # <<>>
  OBVIOUS
<1>2. (s # <<>> => n >= 1) /\ (s = <<>> => n = 0)
  OBVIOUS
<1> HIDE DEF n, t
<1>3. (s = <<>> => t[1] = x) /\ (s # <<>> => t[1] = s[1]) /\ t[Len(t)] = x
  BY <1>1, <1>2
<1> QED  BY <1>1, <1>3 DEF t

LEMMA LoadedType ==
  ASSUME TypeInv, NEW r \in Requests, NEW p \in Products, rows[r][p] # <<>>
  PROVE  held[r][p] \in Int /\ LoadedStock(r, p) \in Int
<1>1. rows[r][p] \in Seq(Row) /\ held[r][p] \in Int \cup {None}
  BY DEF TypeInv, TypeOK, LedgerTypeOK
<1>2. rows[r][p][1] \in Row
  BY <1>1
<1>3. held[r][p] # None
  BY DEF TypeInv, SessionOK
<1> QED  BY <1>1, <1>2, <1>3 DEF LoadedStock, Row

\* Nothing to do, nothing done: what a session is before and after.
LEMMA IdleMirrors ==
  ASSUME NEW r \in Requests, todo'[r] = <<>>, rows'[r] = NoRows, PositiveLines(r)'
  PROVE  SessionMirrors(r)'
BY DEF SessionMirrors, Rises, RowsEndHeld, NoRows

\* What a step of one session leaves of another one.
LEMMA MirrorsElsewhere ==
  ASSUME StockInv, NEW q \in Requests, call'[q] = call[q], todo'[q] = todo[q],
         held'[q] = held[q], rows'[q] = rows[q]
  PROVE  SessionMirrors(q)'
BY DEF StockInv, SessionMirrors, Rises, Falls, RowsEndHeld, PositiveLines, LoadedStock

\* A step of one session that writes no table.
LEMMA OwnStockStep ==
  ASSUME StockInv, NEW r \in Requests, UNCHANGED <<current_stock, ledger>>,
         \A q \in Requests \ {r} : /\ call'[q] = call[q] /\ todo'[q] = todo[q]
                                   /\ held'[q] = held[q] /\ rows'[q] = rows[q],
         SessionMirrors(r)'
  PROVE  StockInv'
<1>1. \A q \in Requests : SessionMirrors(q)'
  BY MirrorsElsewhere
<1>2. \A p \in Products : ShowsLastRow(p)'
  BY DEF StockInv, ShowsLastRow
<1> QED  BY <1>1, <1>2 DEF StockInv

LEMMA StartsMirrors ==
  ASSUME TypeInv, StockInv, NEW r \in Requests, NEW op, NEW ref, NEW items, NEW moves,
         Starts(r, op, ref, items, moves),
         op \in {"sale", "purchase"} => \A i \in DOMAIN items : items[i].quantity > 0,
         \/ \A i \in DOMAIN moves : moves[i].quantity > 0
         \/ \A i \in DOMAIN moves : moves[i].quantity < 0
  PROVE  StockInv'
<1> USE DEF TypeInv, TypeOK, LedgerTypeOK
<1>1. /\ pc[r] = "idle" /\ call' = [call EXCEPT ![r] = [op |-> op, ref |-> ref, items |-> items]]
      /\ todo' = [todo EXCEPT ![r] = moves]
      /\ UNCHANGED <<current_stock, ledger, held, rows>>
  BY DEF Starts, Open
<1>2. /\ call'[r] = [op |-> op, ref |-> ref, items |-> items] /\ todo'[r] = moves
      /\ \A p \in Products : rows'[r][p] = <<>>
  BY <1>1 DEF SessionOK, NoRows
<1>3. Rises(r)' \/ Falls(r)'
  BY <1>2 DEF Rises, Falls
<1>4. RowsEndHeld(r)' /\ PositiveLines(r)'
  BY <1>2 DEF RowsEndHeld, PositiveLines
<1>5. SessionMirrors(r)'
  BY <1>3, <1>4 DEF SessionMirrors
<1> QED  BY <1>1, <1>5, OwnStockStep

LEMMA GoesMirrors ==
  ASSUME TypeInv, StockInv, NEW r \in Requests, Goes(r)
  PROVE  StockInv'
<1>1. UNCHANGED <<current_stock, ledger, call, todo, rows>>
  BY DEF Goes
<1>2. CASE held' = held
  BY <1>1, <1>2, MirrorsElsewhere, OwnStockStep
<1>3. CASE LoadsShown(r)
  <2>1. \A p \in Products : rows[r][p] = <<>>
    BY <1>3 DEF LoadsShown, NoRows
  <2>2. SessionMirrors(r)'
    BY <1>1, <2>1 DEF StockInv, SessionMirrors, Rises, Falls, RowsEndHeld, PositiveLines
  <2> QED  BY <1>1, <1>3, <2>2, OwnStockStep DEF Goes, LoadsShown
<1> QED  BY <1>2, <1>3 DEF Goes

LEMMA LeavesMirrors ==
  ASSUME TypeInv, StockInv, NEW r \in Requests, Leaves(r)
  PROVE  StockInv'
<1>1. /\ todo' = [todo EXCEPT ![r] = <<>>] /\ rows' = [rows EXCEPT ![r] = NoRows]
      /\ held' = [held EXCEPT ![r] = Nothing] /\ call' = [call EXCEPT ![r] = NoCall]
      /\ UNCHANGED <<current_stock, ledger>>
  BY DEF Leaves, RollBack, CloseSession
<1>2. /\ todo'[r] = <<>> /\ rows'[r] = NoRows /\ call'[r] = NoCall
      /\ \A q \in Requests \ {r} : /\ call'[q] = call[q] /\ todo'[q] = todo[q]
                                   /\ held'[q] = held[q] /\ rows'[q] = rows[q]
  BY <1>1 DEF TypeInv, TypeOK, LedgerTypeOK
<1>3. PositiveLines(r)'
  BY <1>2 DEF PositiveLines, NoCall
<1> QED  BY <1>1, <1>2, <1>3, IdleMirrors, OwnStockStep

\* One turn of the item loop moves the held stock one way, further.
LEMMA PostsMirrors ==
  ASSUME TypeInv, StockInv, NEW r \in Requests, Posts(r)
  PROVE  StockInv'
<1> USE DEF TypeInv, TypeOK, LedgerTypeOK
<1>1. PICK lines \in Seq(Line) : lines = todo[r] /\ lines # <<>>
  BY DEF Posts, PostLine
<1>2. PICK line \in Line : line = Head(lines)
  BY <1>1
<1>3. PICK p \in Products : p = line.product
  BY DEF Line
<1>4. line.quantity \in Int /\ SeenStock(r, p) \in Int
  BY DEF Line, SeenStock
<1>5. PICK row : row = MovementRow(r, line)
  OBVIOUS
<1>6. PICK q \in Int : q = SeenStock(r, p) + line.quantity
  BY <1>4
<1>7. row.quantity = line.quantity /\ row.balance_after = q
  BY <1>3, <1>5, <1>6 DEF MovementRow
<1>8. /\ call[r].op \in Operations
      /\ held' = [held EXCEPT ![r][p] = q]
      /\ rows' = [rows EXCEPT ![r][p] = Append(rows[r][p], row)]
      /\ todo' = [todo EXCEPT ![r] = Tail(lines)]
      /\ UNCHANGED <<current_stock, ledger, pc, call>>
  BY <1>1, <1>2, <1>3, <1>5, <1>6 DEF Posts, PostLine
<1>9. PICK old \in Seq(Row) : old = rows[r][p]
  OBVIOUS
<1>10. row \in Row
  BY <1>2, <1>3, <1>4, <1>5, <1>7, <1>8 DEF MovementRow, Row, Calls, Operations
<1>11. held'[r][p] = q /\ rows'[r][p] = Append(old, row) /\ todo'[r] = Tail(lines)
  BY <1>8, <1>9
<1>12. /\ Append(old, row) # <<>>
       /\ Append(old, row)[Len(Append(old, row))] = row
       /\ old = <<>> => Append(old, row)[1] = row
       /\ old # <<>> => Append(old, row)[1] = old[1]
  <2> HIDE DEF TypeInv, TypeOK, LedgerTypeOK
  <2>1. old \in Seq(Row) /\ row \in Row
    BY <1>10
  <2> QED  BY ONLY <2>1, AppendEnds
<1>13. LoadedStock(r, p)' = IF old = <<>> THEN q - line.quantity ELSE LoadedStock(r, p)
  BY <1>7, <1>9, <1>11, <1>12 DEF LoadedStock
<1>14. old # <<>> => /\ q = held[r][p] + line.quantity
                     /\ held[r][p] \in Int /\ LoadedStock(r, p) \in Int
  BY <1>6, <1>9, LoadedType DEF SeenStock, SessionOK
<1>15. ASSUME NEW t \in Products \ {p}
       PROVE  /\ rows'[r][t] = rows[r][t] /\ held'[r][t] = held[r][t]
              /\ LoadedStock(r, t)' = LoadedStock(r, t)
  BY <1>8 DEF LoadedStock
<1>16. /\ 1 \in DOMAIN lines /\ line = lines[1]
       /\ \A i \in DOMAIN Tail(lines) : i + 1 \in DOMAIN lines /\ Tail(lines)[i] = lines[i + 1]
  BY <1>1, <1>2
<1>17. SessionMirrors(r)
  BY DEF StockInv
<1>18. ASSUME Rises(r)
       PROVE  Rises(r)'
  <2>1. line.quantity > 0 /\ \A i \in DOMAIN Tail(lines) : Tail(lines)[i].quantity > 0
    BY <1>1, <1>16, <1>18 DEF Rises
  <2>2. q > LoadedStock(r, p)'
    BY <1>4, <1>9, <1>13, <1>14, <1>18, <2>1 DEF Rises
  <2>3. \A t \in Products : rows'[r][t] # <<>> => held'[r][t] > LoadedStock(r, t)'
    BY <1>11, <1>15, <1>18, <2>2 DEF Rises
  <2> QED  BY <1>11, <2>1, <2>3 DEF Rises
<1>19. ASSUME Falls(r)
       PROVE  Falls(r)'
  <2>1. line.quantity < 0 /\ \A i \in DOMAIN Tail(lines) : Tail(lines)[i].quantity < 0
    BY <1>1, <1>16, <1>19 DEF Falls
  <2>2. q < LoadedStock(r, p)'
    BY <1>4, <1>9, <1>13, <1>14, <1>19, <2>1 DEF Falls
  <2>3. \A t \in Products : rows'[r][t] # <<>> => held'[r][t] < LoadedStock(r, t)'
    BY <1>11, <1>15, <1>19, <2>2 DEF Falls
  <2> QED  BY <1>11, <2>1, <2>3 DEF Falls
<1>20. RowsEndHeld(r)'
  <2>1. rows'[r][p][Len(rows'[r][p])].balance_after = held'[r][p]
    BY <1>7, <1>11, <1>12
  <2> QED  BY <1>15, <1>17, <2>1 DEF SessionMirrors, RowsEndHeld
<1>21. PositiveLines(r)'
  BY <1>8, <1>17 DEF SessionMirrors, PositiveLines
<1>22. SessionMirrors(r)'
  BY <1>17, <1>18, <1>19, <1>20, <1>21 DEF SessionMirrors
<1>23. \A s \in Requests \ {r} : /\ call'[s] = call[s] /\ todo'[s] = todo[s]
                                 /\ held'[s] = held[s] /\ rows'[s] = rows[s]
  BY <1>8
<1> HIDE DEF TypeInv
<1> QED  BY <1>8, <1>22, <1>23, OwnStockStep

\* The commit writes the stock of every product it adds rows for.
LEMMA WritesMirrors ==
  ASSUME TypeInv, StockInv, NEW r \in Requests, Writes(r)
  PROVE  StockInv'
<1> USE DEF TypeInv, TypeOK, LedgerTypeOK
<1>1. /\ todo' = [todo EXCEPT ![r] = <<>>] /\ held' = [held EXCEPT ![r] = Nothing]
      /\ rows' = [rows EXCEPT ![r] = NoRows] /\ call' = call
      /\ current_stock' = [p \in Products |-> IF p \in Dirty(r) THEN held[r][p] ELSE current_stock[p]]
      /\ ledger' = [p \in Products |-> ledger[p] \o rows[r][p]]
  BY DEF Writes, Commit, WriteMovements, CloseSession
<1>2. \A q \in Requests : SessionMirrors(q)'
  <2>1. todo'[r] = <<>> /\ rows'[r] = NoRows /\ PositiveLines(r)'
    BY <1>1 DEF StockInv, SessionMirrors, PositiveLines
  <2>2. \A q \in Requests \ {r} : SessionMirrors(q)'
    BY <1>1, MirrorsElsewhere
  <2> QED  BY <2>1, <2>2, IdleMirrors
<1>3. ASSUME NEW p \in Products PROVE ShowsLastRow(p)'
  <2>1. /\ ShowsLastRow(p) /\ SessionMirrors(r)
        /\ ledger[p] \in Seq(Row) /\ rows[r][p] \in Seq(Row)
    BY DEF StockInv
  <2>2. /\ ledger'[p] = ledger[p] \o rows[r][p]
        /\ current_stock'[p] = IF p \in Dirty(r) THEN held[r][p] ELSE current_stock[p]
    BY <1>1
  <2>3. CASE rows[r][p] = <<>>
    <3>1. p \notin Dirty(r) /\ ledger'[p] = ledger[p]
      BY <2>1, <2>2, <2>3 DEF Dirty
    <3> QED  BY <2>1, <2>2, <3>1 DEF ShowsLastRow
  <2>4. CASE rows[r][p] # <<>>
    <3>1. held[r][p] \in Int /\ LoadedStock(r, p) \in Int
      BY <2>4, LoadedType
    <3>2. held[r][p] # LoadedStock(r, p)
      BY <2>1, <2>4, <3>1 DEF SessionMirrors, Rises, Falls
    <3>3. current_stock'[p] = held[r][p]
      BY <2>2, <2>4, <3>2 DEF Dirty
    <3>4. ledger'[p] # <<>> /\ ledger'[p][Len(ledger'[p])] = rows[r][p][Len(rows[r][p])]
      BY <2>1, <2>2, <2>4
    <3> QED  BY <2>1, <2>4, <3>3, <3>4 DEF ShowsLastRow, SessionMirrors, RowsEndHeld
  <2> QED  BY <2>3, <2>4
<1> QED  BY <1>2, <1>3 DEF StockInv

LEMMA BillMirrors ==
  ASSUME PositiveCarts, TypeInv, WholeInv, StockInv, BillingNext \/ UNCHANGED vars
  PROVE  StockInv'
<1>1. ASSUME NEW r \in Requests, NEW cart \in Carts, Starts(r, "sale", r, cart, Opposite(cart))
      PROVE  StockInv'
  <2>1. cart \in Seq(Line)
    BY LedgerAssumption
  <2>2. \A i \in DOMAIN cart : cart[i].quantity \in Int /\ cart[i].quantity > 0
    <3>1. \A i \in DOMAIN cart : cart[i] \in Line
      BY <2>1
    <3> QED  BY <3>1 DEF PositiveCarts, Line
  <2>3. \A i \in DOMAIN Opposite(cart) : Opposite(cart)[i].quantity < 0
    BY <2>1, <2>2, OppositeLines
  <2> QED  BY <1>1, <2>2, <2>3, StartsMirrors
<1>2. ASSUME NEW r \in Requests, NEW s \in Requests, sale_status[s] = "active",
             Starts(r, "void", s, <<>>, call[s].items)
      PROVE  StockInv'
  <2>1. call[s].op = "sale"
    BY <1>2 DEF WholeInv, Saved
  <2>2. \A i \in DOMAIN call[s].items : call[s].items[i].quantity > 0
    BY <2>1 DEF StockInv, SessionMirrors, PositiveLines
  <2> QED  BY <1>2, <2>2, StartsMirrors
<1>3. ASSUME Idles
      PROVE  StockInv'
  BY <1>3, MirrorsElsewhere DEF Idles, StockInv, ShowsLastRow
<1> QED  BY <1>1, <1>2, <1>3, BillShapes, GoesMirrors, PostsMirrors, LeavesMirrors, WritesMirrors DEF WritesBill

\* docs/06, "current_stock maintained from inventory transactions": lost updates
\* and all, a product shows the balance of the row committed last for it.
THEOREM StockShowsLastBalance ==
  ASSUME PositiveCarts
  PROVE  Spec => []StockIsLastBalance
<1>1. TypeInv /\ WholeInv /\ StockInv /\ [Next]_vars => (TypeInv /\ WholeInv /\ StockInv)'
  BY TypeInvStep, BillWhole, BillMirrors DEF Next, Quiet
<1>2. StockInv => StockIsLastBalance
  BY DEF StockInv, ShowsLastRow, StockIsLastBalance
<1> QED  BY <1>1, <1>2, TypeInvInit, WholeInit, StockInvInit, PTL DEF Spec
=============================================================================
