---------------------------- MODULE BillingProofs ----------------------------
(***************************************************************************)
(* Theorems about Billing, for every number of requests, workers, months,  *)
(* products and prefixes: its types, the numbers of its invoices, the book *)
(* it implements, its usage counter and its guard.                         *)
(***************************************************************************)
EXTENDS Billing, FiniteSetTheorems, TLAPS

-----------------------------------------------------------------------------
(* Type correctness *)

\* A session that has added ledger rows for a product holds that product, rows
\* exist only between the INSERT of the header and the commit, and a void is
\* about a request that saved a sale.
SessionOK ==
  \A r \in Requests :
    /\ \A p \in Products : rows[r][p] # <<>> => held[r][p] # None
    /\ pc[r] \notin {"posting", "metered"} => rows[r] = NoRows
    /\ call[r].op = "void" => call[r].ref \in Requests

TypeInv == TypeOK /\ SessionOK

LEMMA OppositeType ==
  ASSUME NEW lines \in Seq(Line)
  PROVE  Opposite(lines) \in Seq(Line)
<1>1. PICK n \in Nat : lines \in [1..n -> Line]
  OBVIOUS
<1>2. \A i \in 1..n : [lines[i] EXCEPT !.quantity = -@] \in Line
  BY <1>1 DEF Line
<1>3. Opposite(lines) \in [1..n -> Line]
  BY <1>1, <1>2 DEF Opposite
<1> QED  BY <1>3

LEMMA TypeInvInit == Init => TypeInv
<1> SUFFICES ASSUME Init PROVE TypeInv
  OBVIOUS
<1> USE LedgerAssumption, BillingAssumption DEF Init, LedgerInit, BillingInit
<1>1. OpeningRow \in Row
  BY DEF OpeningRow, Row
<1>2. LedgerTypeOK
  BY <1>1 DEF LedgerTypeOK, Steps, NoCall, Calls, Nothing, NoRows
<1>3. BillingTypeOK
  BY DEF BillingTypeOK, Months
<1>4. SessionOK
  BY DEF SessionOK, NoRows, NoCall
<1> QED  BY <1>2, <1>3, <1>4 DEF TypeInv, TypeOK

\* Opening a session, whatever it is opened for.
LEMMA OpenType ==
  ASSUME TypeInv, NEW r \in Requests, NEW op \in Operations, NEW ref \in Requests \cup {None},
         NEW items \in Seq(Line), NEW moves \in Seq(Line), NEW step \in {"began", "posting"},
         op = "void" => ref \in Requests, Open(r, op, ref, items, moves, step)
  PROVE  LedgerTypeOK' /\ SessionOK'
<1> USE DEF TypeInv, TypeOK, LedgerTypeOK, SessionOK, Open
<1>1. call' \in [Requests -> Calls]
  BY DEF Calls
<1>2. pc' \in [Requests -> Steps] /\ todo' \in [Requests -> Seq(Line)]
  BY DEF Steps
<1>3. \A q \in Requests : call'[q].op = "void" => call'[q].ref \in Requests
  BY DEF Calls
<1>4. \A q \in Requests : pc'[q] \notin {"posting", "metered"} => pc[q] \notin {"posting", "metered"}
  BY DEF Steps
<1> QED  BY <1>1, <1>2, <1>3, <1>4

\* Closing a session without a commit.
LEMMA RollBackType ==
  ASSUME TypeInv, NEW r \in Requests, RollBack(r)
  PROVE  LedgerTypeOK' /\ SessionOK'
<1> USE DEF TypeInv, TypeOK, LedgerTypeOK, SessionOK, RollBack, CloseSession
<1>1. NoCall \in Calls /\ NoRows \in [Products -> Seq(Row)] /\ Nothing \in [Products -> Int \cup {None}]
  BY DEF NoCall, Calls, NoRows, Nothing
<1>2. pc' \in [Requests -> Steps]
  BY DEF Steps
<1>3. \A q \in Requests : call'[q].op = "void" => call'[q].ref \in Requests
  BY DEF NoCall
<1>4. \A q \in Requests : pc'[q] \notin {"posting", "metered"} => rows'[q] = NoRows
  OBVIOUS
<1>5. \A q \in Requests, p \in Products : rows'[q][p] # <<>> => held'[q][p] # None
  BY DEF NoRows
<1> QED  BY <1>1, <1>2, <1>3, <1>4, <1>5

LEMMA FailBillType ==
  ASSUME TypeInv, NEW r \in Requests, FailBill(r)
  PROVE  TypeInv'
<1>1. LedgerTypeOK' /\ SessionOK'
  BY RollBackType DEF FailBill
<1>2. BillingTypeOK'
  BY BillingAssumption DEF TypeInv, TypeOK, BillingTypeOK, FailBill, ForgetSale, Months
<1> QED  BY <1>1, <1>2 DEF TypeInv, TypeOK

\* One turn of the item loop.
LEMMA PostLineType ==
  ASSUME TypeInv, NEW r \in Requests, call[r].op \in Operations, PostLine(r)
  PROVE  LedgerTypeOK' /\ SessionOK'
<1> USE DEF TypeInv, TypeOK, LedgerTypeOK, SessionOK, PostLine
<1> DEFINE line == Head(todo[r])
           p == line.product
           q == SeenStock(r, p) + line.quantity
<1>1. line \in Line /\ Tail(todo[r]) \in Seq(Line)
  OBVIOUS
<1>2. p \in Products /\ line.quantity \in Int
  BY <1>1 DEF Line
<1>3. SeenStock(r, p) \in Int /\ q \in Int
  BY <1>2 DEF SeenStock
<1>4. MovementRow(r, line) \in Row
  BY <1>2, <1>3 DEF MovementRow, Row, Calls
<1>5. rows' \in [Requests -> [Products -> Seq(Row)]]
  BY <1>2, <1>4
<1>6. held' \in [Requests -> [Products -> Int \cup {None}]]
  BY <1>2, <1>3
<1>7. q # None
  BY <1>3, LedgerAssumption
<1>8. \A s \in Requests, t \in Products : rows'[s][t] # <<>> => held'[s][t] # None
  BY <1>2, <1>5, <1>6, <1>7
<1>9. \A s \in Requests : pc'[s] \notin {"posting", "metered"} => rows'[s] = NoRows
  OBVIOUS
<1> QED  BY <1>1, <1>5, <1>6, <1>8, <1>9

\* The commit writes values the session holds.
LEMMA CommitType ==
  ASSUME TypeInv, NEW r \in Requests, Commit(r)
  PROVE  LedgerTypeOK' /\ SessionOK'
<1> USE DEF TypeInv, TypeOK, LedgerTypeOK, SessionOK, Commit, CloseSession
<1>1. \A p \in Dirty(r) : held[r][p] \in Int
  BY DEF Dirty
<1>2. current_stock' \in [Products -> Int]
  BY <1>1 DEF WriteMovements
<1>3. ledger' \in [Products -> Seq(Row)]
  BY DEF WriteMovements
<1>4. NoRows \in [Products -> Seq(Row)] /\ Nothing \in [Products -> Int \cup {None}]
  BY DEF NoRows, Nothing
<1>5. pc' \in [Requests -> Steps]
  BY DEF Steps
<1>6. \A q \in Requests, p \in Products : rows'[q][p] # <<>> => held'[q][p] # None
  BY DEF NoRows
<1>7. \A q \in Requests : pc'[q] \notin {"posting", "metered"} => rows'[q] = NoRows
  OBVIOUS
<1> QED  BY <1>2, <1>3, <1>4, <1>5, <1>6, <1>7

LEMMA TypeInvStep == TypeInv /\ [Next]_vars => TypeInv'
<1> SUFFICES ASSUME TypeInv, [Next]_vars PROVE TypeInv'
  OBVIOUS
<1> USE BillingAssumption
<1>1. ASSUME NEW r \in Requests, StartBill(r) PROVE TypeInv'
  <2>1. ASSUME NEW cart \in Carts, OpenSale(r, cart) PROVE TypeInv'
    <3>1. cart \in Seq(Line) /\ Opposite(cart) \in Seq(Line)
      BY LedgerAssumption, OppositeType
    <3>2. LedgerTypeOK' /\ SessionOK'
      BY <2>1, <3>1, OpenType DEF OpenSale, Operations
    <3>3. BillingTypeOK'
      BY <2>1 DEF TypeInv, TypeOK, BillingTypeOK, OpenSale
    <3> QED  BY <3>2, <3>3 DEF TypeInv, TypeOK
  <2>2. ASSUME NEW s \in Requests, OpenVoid(r, s) PROVE TypeInv'
    <3>1. call[s].items \in Seq(Line)
      BY DEF TypeInv, TypeOK, LedgerTypeOK, Calls
    <3>2. LedgerTypeOK' /\ SessionOK'
      <4>1. Open(r, "void", s, <<>>, call[s].items, "posting") /\ <<>> \in Seq(Line)
        BY <2>2 DEF OpenVoid
      <4>2. "void" \in Operations /\ "posting" \in {"began", "posting"}
        BY DEF Operations
      <4> QED  BY <3>1, <4>1, <4>2, OpenType
    <3>3. BillingTypeOK'
      BY <2>2 DEF TypeInv, TypeOK, BillingTypeOK, OpenVoid, billVars
    <3> QED  BY <3>2, <3>3 DEF TypeInv, TypeOK
  <2> QED  BY <1>1, <2>1, <2>2 DEF StartBill
<1>2. ASSUME NEW r \in Requests, FailBill(r) PROVE TypeInv'
  BY <1>2, FailBillType
<1>3. ASSUME NEW r \in Requests, AssertCanBill(r) PROVE TypeInv'
  <2>1. CASE FailBill(r)
    BY <2>1, <1>2
  <2>2. CASE ~FailBill(r)
    <3>1. LedgerTypeOK'
      BY <1>3, <2>2 DEF AssertCanBill, TypeInv, TypeOK, LedgerTypeOK, Steps
    <3>2. SessionOK'
      BY <1>3, <2>2 DEF AssertCanBill, TypeInv, TypeOK, LedgerTypeOK, SessionOK
    <3>3. \A m \in began[r]..month : m \in Months
      BY DEF TypeInv, TypeOK, BillingTypeOK, Months
    <3>4. BillingTypeOK'
      BY <1>3, <2>2, <3>3 DEF AssertCanBill, TypeInv, TypeOK, BillingTypeOK
    <3> QED  BY <3>1, <3>2, <3>4 DEF TypeInv, TypeOK
  <2> QED  BY <2>1, <2>2
<1>4. ASSUME NEW r \in Requests, LoadProducts(r) PROVE TypeInv'
  <2>1. CASE FailBill(r)
    BY <2>1, <1>2
  <2>2. CASE ~FailBill(r)
    <3> DEFINE loaded == [p \in Products |-> IF p \in InCart(r) THEN current_stock[p] ELSE None]
    <3>0. loaded \in [Products -> Int \cup {None}] /\ held' = [held EXCEPT ![r] = loaded]
      BY <1>4, <2>2 DEF LoadProducts, TypeInv, TypeOK, LedgerTypeOK
    <3> HIDE DEF loaded
    <3>1. LedgerTypeOK'
      BY <1>4, <2>2, <3>0 DEF LoadProducts, TypeInv, TypeOK, LedgerTypeOK, Steps
    <3>2. rows[r] = NoRows
      BY <1>4, <2>2 DEF LoadProducts, TypeInv, SessionOK
    <3>3. SessionOK'
      <4>1. rows' = rows /\ call' = call /\ pc' = [pc EXCEPT ![r] = "loaded"]
        BY <1>4, <2>2 DEF LoadProducts
      <4>2. \A p \in Products : rows[r][p] = <<>>
        BY <3>2 DEF NoRows
      <4> QED  BY <3>0, <3>2, <4>1, <4>2 DEF TypeInv, TypeOK, LedgerTypeOK, SessionOK
    <3>4. <<prefix, YearOf[today[r]]>> \in Series
      BY DEF TypeInv, TypeOK, BillingTypeOK, Series
    <3>5. BillingTypeOK'
      BY <1>4, <2>2, <3>4 DEF LoadProducts, TypeInv, TypeOK, BillingTypeOK
    <3> QED  BY <3>1, <3>3, <3>5 DEF TypeInv, TypeOK
  <2> QED  BY <2>1, <2>2
<1>5. ASSUME NEW r \in Requests, CountInvoices(r) PROVE TypeInv'
  <2>1. LedgerTypeOK'
    BY <1>5 DEF CountInvoices, TypeInv, TypeOK, LedgerTypeOK, Steps
  <2>2. SessionOK'
    BY <1>5 DEF CountInvoices, TypeInv, TypeOK, LedgerTypeOK, SessionOK
  <2>3. CountMatching(series[r]) \in Nat
    BY LedgerAssumption, FS_Subset, FS_CardinalityType DEF CountMatching, MatchingSales, Saved
  <2>4. BillingTypeOK'
    BY <1>5, <2>3 DEF CountInvoices, TypeInv, TypeOK, BillingTypeOK
  <2> QED  BY <2>1, <2>2, <2>4 DEF TypeInv, TypeOK
<1>6. ASSUME NEW r \in Requests, InsertSale(r) PROVE TypeInv'
  <2>1. CASE FailBill(r)
    BY <2>1, <1>2
  <2>2. CASE ~FailBill(r)
    <3>1. LedgerTypeOK'
      BY <1>6, <2>2 DEF InsertSale, TypeInv, TypeOK, LedgerTypeOK, Steps
    <3>2. SessionOK'
      BY <1>6, <2>2 DEF InsertSale, TypeInv, TypeOK, LedgerTypeOK, SessionOK
    <3>3. BillingTypeOK'
      BY <1>6, <2>2 DEF InsertSale, TypeInv, TypeOK, BillingTypeOK, billVars
    <3> QED  BY <3>1, <3>2, <3>3 DEF TypeInv, TypeOK
  <2> QED  BY <2>1, <2>2
<1>7. ASSUME NEW r \in Requests, PostBillLine(r) PROVE TypeInv'
  <2>1. LedgerTypeOK' /\ SessionOK'
    BY <1>7, PostLineType DEF PostBillLine, Operations
  <2>2. BillingTypeOK'
    BY <1>7 DEF PostBillLine, TypeInv, TypeOK, BillingTypeOK, billVars
  <2> QED  BY <2>1, <2>2 DEF TypeInv, TypeOK
<1>8. ASSUME NEW r \in Requests, ReadUsage(r) PROVE TypeInv'
  <2>1. LedgerTypeOK'
    BY <1>8 DEF ReadUsage, TypeInv, TypeOK, LedgerTypeOK, Steps
  <2>2. SessionOK'
    BY <1>8 DEF ReadUsage, Posted, TypeInv, TypeOK, LedgerTypeOK, SessionOK
  <2>3. BilledMonth(r) \in Months
    BY <1>8 DEF ReadUsage, BilledMonth, TypeInv, TypeOK, BillingTypeOK, SessionOK
  <2>4. BillingTypeOK'
    BY <1>8, <2>3 DEF ReadUsage, TypeInv, TypeOK, BillingTypeOK
  <2> QED  BY <2>1, <2>2, <2>4 DEF TypeInv, TypeOK
<1>9. ASSUME NEW r \in Requests, CommitSale(r) PROVE TypeInv'
  <2>1. CASE FailBill(r)
    BY <2>1, <1>2
  <2>2. CASE ~FailBill(r)
    <3>1. LedgerTypeOK' /\ SessionOK'
      BY <1>9, <2>2, CommitType DEF CommitSale
    <3>2. Incremented(used[r]) \in Nat
      BY DEF Incremented, TypeInv, TypeOK, BillingTypeOK
    <3>3. BillingTypeOK'
      BY <1>9, <2>2, <3>2 DEF CommitSale, TypeInv, TypeOK, BillingTypeOK
    <3> QED  BY <3>1, <3>3 DEF TypeInv, TypeOK
  <2> QED  BY <2>1, <2>2
<1>10. ASSUME NEW r \in Requests, CommitVoid(r) PROVE TypeInv'
  <2>1. LedgerTypeOK' /\ SessionOK'
    BY <1>10, CommitType DEF CommitVoid
  <2>2. Decremented(used[r]) \in Nat \cup {None}
    BY DEF Decremented, TypeInv, TypeOK, BillingTypeOK
  <2>3. BillingTypeOK'
    BY <1>10, <2>2 DEF CommitVoid, TypeInv, TypeOK, BillingTypeOK
  <2> QED  BY <2>1, <2>3 DEF TypeInv, TypeOK
<1>11. ASSUME BillingEnvironment PROVE TypeInv'
  <2>1. LedgerTypeOK' /\ SessionOK'
    BY <1>11 DEF BillingEnvironment, NextMonth, Activate, SetPrefix, ledgerVars,
                 TypeInv, TypeOK, LedgerTypeOK, SessionOK
  <2>2. BillingTypeOK'
    BY <1>11 DEF BillingEnvironment, NextMonth, Activate, SetPrefix,
                 TypeInv, TypeOK, BillingTypeOK, Months
  <2> QED  BY <2>1, <2>2 DEF TypeInv, TypeOK
<1>12. ASSUME UNCHANGED vars PROVE TypeInv'
  BY <1>12 DEF vars, TypeInv, TypeOK, LedgerTypeOK, BillingTypeOK, SessionOK
<1> QED  BY <1>1, <1>2, <1>3, <1>4, <1>5, <1>6, <1>7, <1>8, <1>9, <1>10, <1>11, <1>12
         DEF Next, BillingNext, Progress, AbortBill, Quiet

\* The tables and the session objects of billing are always well typed: in
\* particular a bill counter never goes below zero (decrement_usage).
THEOREM TypeCorrect == Spec => []TypeOK
<1>1. TypeInv => TypeOK
  BY DEF TypeInv
<1> QED  BY <1>1, TypeInvInit, TypeInvStep, PTL DEF Spec

-----------------------------------------------------------------------------
(* Invoice numbers *)

\* A series' own numbers match its LIKE pattern.  That holds for every prefix
\* without a backslash, which LIKE takes as an escape character.
LikeSelf == \A s \in Series : s \in Like[s]

\* The session has computed its invoice number and not committed it.
Numbered(r) == pc[r] = "numbered" \/ Inserted(r)

\* The number is taken: committed, or inserted by a session in flight.
Taken(r) == r \in Saved \/ Inserted(r)

SavedIsDone == \A r \in Saved : pc[r] = "done"

VoidIsOfSaved == \A r \in Requests : call[r].op = "void" => call[r].ref \in Saved

SeriesKnown ==
  \A r \in Requests : r \in Saved \/ pc[r] = "loaded" \/ Numbered(r) => series[r] \in Series

SavedWithinCount == LikeSelf => \A r \in Saved : seq[r] \in 1..CountMatching(series[r])

\* What the session counted can only have grown since.
NumberedWithinCount ==
  \A r \in Requests : Numbered(r) => seq[r] \in 1..CountMatching(series[r]) + 1

TakenOnce == \A r, q \in Requests : Taken(r) /\ Taken(q) /\ SameNumber(r, q) => r = q

NumberInv ==
  /\ SavedIsDone
  /\ VoidIsOfSaved
  /\ SeriesKnown
  /\ SavedWithinCount
  /\ NumberedWithinCount
  /\ TakenOnce

LEMMA CountIsNat ==
  ASSUME NEW s
  PROVE  IsFiniteSet(MatchingSales(s)) /\ CountMatching(s) \in Nat
BY LedgerAssumption, FS_Subset, FS_CardinalityType DEF CountMatching, MatchingSales, Saved

LEMMA NumberInvInit == Init => NumberInv
<1> SUFFICES ASSUME Init PROVE NumberInv
  OBVIOUS
<1> USE DEF Init, LedgerInit, BillingInit
<1>1. Saved = {}
  BY DEF Saved
<1>2. \A r \in Requests : pc[r] = "idle" /\ call[r].op = "none"
  BY DEF NoCall
<1> QED  BY <1>1, <1>2 DEF NumberInv, SavedIsDone, VoidIsOfSaved, SeriesKnown, SavedWithinCount,
            NumberedWithinCount, TakenOnce, Taken, Numbered, Inserted

\* A step of one request that commits nothing.  What it has to show is about
\* its own number only; the sales that are saved, and the counts, stay.
LEMMA OwnStep ==
  ASSUME NumberInv,
         NEW r \in Requests, r \notin Saved, sale_status' = sale_status,
         \A q \in Requests \ {r} :
           pc'[q] = pc[q] /\ call'[q] = call[q] /\ series'[q] = series[q] /\ seq'[q] = seq[q],
         call'[r].op = "void" => call'[r].ref \in Saved,
         pc'[r] = "loaded" \/ Numbered(r)' => series'[r] \in Series,
         Numbered(r)' => seq'[r] \in 1..CountMatching(series'[r]) + 1,
         Inserted(r)' => \A q \in Requests \ {r} :
           Taken(q) => ~(series'[r] = series[q] /\ seq'[r] = seq[q])
  PROVE  NumberInv'
<1>1. Saved' = Saved
  BY DEF Saved
<1>2. \A q \in Saved : q \in Requests \ {r}
  BY DEF Saved
<1>3. \A s : MatchingSales(s)' = MatchingSales(s)
  BY <1>1, <1>2 DEF MatchingSales
<1>4. \A s : CountMatching(s)' = CountMatching(s)
  BY <1>3 DEF CountMatching
<1>5. \A q \in Requests \ {r} : /\ Numbered(q)' <=> Numbered(q)
                                /\ Inserted(q)' <=> Inserted(q)
                                /\ Taken(q)' <=> Taken(q)
  BY <1>1 DEF Numbered, Inserted, Taken
<1>6. SavedIsDone'
  BY <1>1, <1>2 DEF NumberInv, SavedIsDone
<1>7. VoidIsOfSaved'
  BY <1>1 DEF NumberInv, VoidIsOfSaved
<1>8. SeriesKnown'
  BY <1>1, <1>2, <1>5 DEF NumberInv, SeriesKnown
<1>9. SavedWithinCount'
  BY <1>1, <1>2, <1>4 DEF NumberInv, SavedWithinCount
<1>10. NumberedWithinCount'
  BY <1>4, <1>5 DEF NumberInv, NumberedWithinCount
<1>11. TakenOnce'
  <2> SUFFICES ASSUME NEW t \in Requests, NEW q \in Requests,
                      Taken(t)', Taken(q)', SameNumber(t, q)', t # q
               PROVE  FALSE
    BY DEF TakenOnce
  <2>1. CASE t # r /\ q # r
    BY <2>1, <1>5 DEF NumberInv, TakenOnce, SameNumber
  <2>2. CASE t = r
    BY <2>2, <1>1, <1>5 DEF Taken, SameNumber
  <2>3. CASE q = r
    BY <2>3, <1>1, <1>5 DEF Taken, SameNumber
  <2> QED  BY <2>1, <2>2, <2>3
<1> QED  BY <1>6, <1>7, <1>8, <1>9, <1>10, <1>11 DEF NumberInv

LEMMA NumberInvStep ==
  ASSUME TypeInv, NumberInv, [Next]_vars
  PROVE  NumberInv'
<1> USE DEF TypeInv, TypeOK, LedgerTypeOK, BillingTypeOK
<1>0. \A r \in Requests : pc[r] # "done" => r \notin Saved
  BY DEF NumberInv, SavedIsDone
<1>1. ASSUME NEW r \in Requests, StartBill(r) PROVE NumberInv'
  <2>1. r \notin Saved
    BY <1>0, <1>1 DEF StartBill, OpenSale, OpenVoid, Open
  <2>2. ASSUME NEW cart \in Carts, OpenSale(r, cart) PROVE NumberInv'
    BY <2>1, <2>2, OwnStep DEF OpenSale, Open, Numbered, Inserted
  <2>3. ASSUME NEW s \in Requests, OpenVoid(r, s) PROVE NumberInv'
    <3>1. s \in Saved
      BY <2>3 DEF OpenVoid, Saved
    <3> QED  BY <2>1, <2>3, <3>1, OwnStep DEF OpenVoid, Open, billVars, Numbered, Inserted
  <2> QED  BY <1>1, <2>2, <2>3 DEF StartBill
<1>2. ASSUME NEW r \in Requests, pc[r] # "done", FailBill(r) PROVE NumberInv'
  BY <1>0, <1>2, OwnStep DEF FailBill, RollBack, ForgetSale, NoCall, Numbered, Inserted
<1>3. ASSUME NEW r \in Requests, AssertCanBill(r) PROVE NumberInv'
  <2>1. CASE FailBill(r)
    BY <2>1, <1>2, <1>3 DEF AssertCanBill
  <2>2. CASE ~FailBill(r)
    BY <2>2, <1>0, <1>3, OwnStep DEF AssertCanBill, Numbered, Inserted, NumberInv, VoidIsOfSaved
  <2> QED  BY <2>1, <2>2
<1>4. ASSUME NEW r \in Requests, LoadProducts(r) PROVE NumberInv'
  <2>1. CASE FailBill(r)
    BY <2>1, <1>2, <1>4 DEF LoadProducts
  <2>2. CASE ~FailBill(r)
    <3>1. <<prefix, YearOf[today[r]]>> \in Series
      BY BillingAssumption DEF Series
    <3>2. /\ pc[r] = "guarded" /\ pc' = [pc EXCEPT ![r] = "loaded"]
          /\ series' = [series EXCEPT ![r] = <<prefix, YearOf[today[r]]>>]
          /\ call' = call /\ seq' = seq /\ sale_status' = sale_status
      BY <2>2, <1>4 DEF LoadProducts
    <3>3. ~Numbered(r)' /\ ~Inserted(r)' /\ series'[r] \in Series
      BY <3>1, <3>2 DEF Numbered, Inserted
    <3> QED  BY <3>2, <3>3, <1>0, OwnStep DEF NumberInv, VoidIsOfSaved
  <2> QED  BY <2>1, <2>2
<1>5. ASSUME NEW r \in Requests, CountInvoices(r) PROVE NumberInv'
  <2>1. CountMatching(series[r]) \in Nat
    BY CountIsNat
  <2>2. series[r] \in Series
    BY <1>5 DEF CountInvoices, NumberInv, SeriesKnown
  <2>3. /\ pc[r] = "loaded" /\ pc' = [pc EXCEPT ![r] = "numbered"]
        /\ seq' = [seq EXCEPT ![r] = CountMatching(series[r]) + 1]
        /\ call' = call /\ series' = series /\ sale_status' = sale_status
    BY <1>5 DEF CountInvoices
  <2>4. ~Inserted(r)' /\ seq'[r] \in 1..CountMatching(series'[r]) + 1
    BY <2>1, <2>3 DEF Inserted
  <2> QED  BY <2>2, <2>3, <2>4, <1>0, OwnStep DEF NumberInv, VoidIsOfSaved
<1>6. ASSUME NEW r \in Requests, InsertSale(r) PROVE NumberInv'
  <2>1. CASE FailBill(r)
    BY <2>1, <1>2, <1>6 DEF InsertSale
  <2>2. CASE ~FailBill(r)
    <3>1. Numbered(r)
      BY <1>6 DEF InsertSale, Numbered
    <3>2. series[r] \in Series /\ seq[r] \in 1..CountMatching(series[r]) + 1
      BY <3>1 DEF NumberInv, SeriesKnown, NumberedWithinCount
    <3>3. \A q \in Requests \ {r} : Taken(q) => ~SameNumber(r, q)
      BY <1>6, <2>2 DEF InsertSale, Taken
    <3> QED  BY <2>2, <3>2, <3>3, <1>0, <1>6, OwnStep
             DEF InsertSale, billVars, SameNumber, NumberInv, VoidIsOfSaved
  <2> QED  BY <2>1, <2>2
<1>7. ASSUME NEW r \in Requests, PostBillLine(r) \/ ReadUsage(r) PROVE NumberInv'
  <2>1. /\ pc[r] = "posting" /\ pc'[r] \in {"posting", "metered"}
        /\ call' = call /\ series' = series /\ seq' = seq /\ sale_status' = sale_status
        /\ \A q \in Requests \ {r} : pc'[q] = pc[q]
    BY <1>7 DEF PostBillLine, PostLine, ReadUsage, Posted, billVars
  <2>2. Numbered(r)' => Inserted(r)
    BY <2>1 DEF Numbered, Inserted
  <2>3. Inserted(r) => /\ series[r] \in Series /\ seq[r] \in 1..CountMatching(series[r]) + 1
                       /\ \A q \in Requests \ {r} : Taken(q) => ~SameNumber(r, q)
    BY DEF NumberInv, SeriesKnown, NumberedWithinCount, TakenOnce, Taken, Numbered
  <2> QED  BY <2>1, <2>2, <2>3, <1>0, OwnStep DEF SameNumber, NumberInv, VoidIsOfSaved, Numbered
<1>8. ASSUME NEW r \in Requests, CommitSale(r), ~FailBill(r) PROVE NumberInv'
  <2>1. /\ pc[r] = "metered" /\ pc' = [pc EXCEPT ![r] = "done"]
        /\ call[r].op = "sale" /\ call' = call /\ series' = series /\ seq' = seq
        /\ sale_status' = [sale_status EXCEPT ![r] = "active"]
    BY <1>8 DEF CommitSale, Commit
  <2>2. r \notin Saved /\ Saved' = Saved \cup {r}
    BY <1>0, <2>1 DEF Saved
  <2>3. Inserted(r) /\ Numbered(r) /\ Taken(r)
    BY <2>1 DEF Inserted, Numbered, Taken
  <2>4. series[r] \in Series
    BY <2>3 DEF NumberInv, SeriesKnown
  <2>5. \A s : MatchingSales(s)' = MatchingSales(s) \cup (IF series[r] \in Like[s] THEN {r} ELSE {})
    BY <2>1, <2>2 DEF MatchingSales
  <2>6. \A s : r \notin MatchingSales(s)
    BY <2>2 DEF MatchingSales
  <2>7. \A s : /\ CountMatching(s) \in Nat /\ CountMatching(s)' \in Nat
               /\ CountMatching(s)' = CountMatching(s) + (IF series[r] \in Like[s] THEN 1 ELSE 0)
    <3> TAKE s
    <3>1. IsFiniteSet(MatchingSales(s)) /\ CountMatching(s) \in Nat
      BY CountIsNat
    <3>2. CASE series[r] \in Like[s]
      <4>1. MatchingSales(s)' = MatchingSales(s) \cup {r}
        BY <2>5, <3>2
      <4>2. Cardinality(MatchingSales(s) \cup {r}) = Cardinality(MatchingSales(s)) + 1
        BY <3>1, <2>6, FS_AddElement
      <4>3. CountMatching(s)' = CountMatching(s) + 1
        BY <4>1, <4>2 DEF CountMatching
      <4> QED  BY <3>1, <3>2, <4>3
    <3>3. CASE series[r] \notin Like[s]
      <4>1. MatchingSales(s)' = MatchingSales(s)
        BY <2>5, <3>3
      <4> QED  BY <3>1, <3>3, <4>1 DEF CountMatching
    <3> QED  BY <3>2, <3>3
  <2>8. \A q \in Requests : Taken(q)' => Taken(q)
    BY <2>1, <2>2, <2>3 DEF Taken, Inserted
  <2>9. \A q \in Requests : Numbered(q)' => Numbered(q)
    BY <2>1 DEF Numbered, Inserted
  <2>10. SavedIsDone'
    BY <2>1, <2>2 DEF NumberInv, SavedIsDone, Saved
  <2>11. VoidIsOfSaved'
    BY <2>1, <2>2 DEF NumberInv, VoidIsOfSaved
  <2>12. SeriesKnown'
    BY <2>1, <2>2, <2>4, <2>9 DEF NumberInv, SeriesKnown
  <2>13. SavedWithinCount'
    <3> SUFFICES ASSUME LikeSelf
                 PROVE  \A q \in Saved' : seq'[q] \in 1..CountMatching(series[q])'
      BY DEF SavedWithinCount
    <3>1. seq[r] \in 1..CountMatching(series[r])'
      BY <2>1, <2>3, <2>4, <2>7 DEF NumberInv, NumberedWithinCount, LikeSelf
    <3>2. \A q \in Saved : seq[q] \in 1..CountMatching(series[q])'
      <4> TAKE q \in Saved
      <4>1. seq[q] \in 1..CountMatching(series[q])
        BY DEF NumberInv, SavedWithinCount
      <4>2. CountMatching(series[q])' = CountMatching(series[q]) + (IF series[r] \in Like[series[q]] THEN 1 ELSE 0)
        BY <2>1, <2>7
      <4> QED  BY <2>1, <2>7, <4>1, <4>2
    <3> QED  BY <2>1, <2>2, <3>1, <3>2
  <2>14. NumberedWithinCount'
    <3> SUFFICES ASSUME NEW q \in Requests, Numbered(q)'
                 PROVE  seq[q] \in 1..CountMatching(series[q])' + 1
      BY <2>1 DEF NumberedWithinCount
    <3>1. seq[q] \in 1..CountMatching(series[q]) + 1
      BY <2>9 DEF NumberInv, NumberedWithinCount
    <3>2. CountMatching(series[q])' = CountMatching(series[q]) + (IF series[r] \in Like[series[q]] THEN 1 ELSE 0)
      BY <2>1, <2>7
    <3> QED  BY <2>1, <2>7, <3>1, <3>2
  <2>15. TakenOnce'
    BY <2>1, <2>8 DEF NumberInv, TakenOnce, SameNumber
  <2> QED  BY <2>10, <2>11, <2>12, <2>13, <2>14, <2>15 DEF NumberInv
<1>9. ASSUME NEW r \in Requests, CommitVoid(r) PROVE NumberInv'
  <2>1. /\ pc[r] = "metered" /\ pc' = [pc EXCEPT ![r] = "done"]
        /\ call[r].op = "void" /\ call' = call /\ series' = series /\ seq' = seq
        /\ sale_status' = [sale_status EXCEPT ![call[r].ref] = "void"]
    BY <1>9 DEF CommitVoid, Commit
  <2>2. Saved' = Saved
    BY <2>1 DEF NumberInv, VoidIsOfSaved, Saved
  <2>3. \A s : CountMatching(s)' = CountMatching(s)
    BY <2>1, <2>2 DEF CountMatching, MatchingSales
  <2>4. \A q \in Requests : (Numbered(q)' <=> Numbered(q)) /\ (Taken(q)' <=> Taken(q))
    BY <2>1, <2>2 DEF Numbered, Taken, Inserted
  <2>5. \A q \in Saved : pc'[q] = "done"
    BY <2>1 DEF NumberInv, SavedIsDone, Saved
  <2> QED  BY <2>1, <2>2, <2>3, <2>4, <2>5 DEF NumberInv, SavedIsDone, VoidIsOfSaved, SeriesKnown,
           SavedWithinCount, NumberedWithinCount, TakenOnce, SameNumber
<1>10. ASSUME UNCHANGED <<pc, call, sale_status, series, seq>> PROVE NumberInv'
  <2>1. Saved' = Saved
    BY <1>10 DEF Saved
  <2>2. \A s : CountMatching(s)' = CountMatching(s)
    BY <1>10, <2>1 DEF CountMatching, MatchingSales
  <2>3. \A q \in Requests : (Numbered(q)' <=> Numbered(q)) /\ (Taken(q)' <=> Taken(q))
    BY <1>10, <2>1 DEF Numbered, Taken, Inserted
  <2> QED  BY <1>10, <2>1, <2>2, <2>3 DEF NumberInv, SavedIsDone, VoidIsOfSaved, SeriesKnown,
           SavedWithinCount, NumberedWithinCount, TakenOnce, SameNumber
<1>11. ASSUME BillingEnvironment PROVE NumberInv'
  BY <1>10, <1>11 DEF BillingEnvironment, NextMonth, Activate, SetPrefix, ledgerVars
<1>12. ASSUME UNCHANGED vars PROVE NumberInv'
  BY <1>10, <1>12 DEF vars
<1>13. ASSUME NEW r \in Requests, CommitSale(r) PROVE NumberInv'
  BY <1>2, <1>8, <1>13 DEF CommitSale
<1>14. ASSUME NEW r \in Requests, AbortBill(r) PROVE NumberInv'
  BY <1>2, <1>14 DEF AbortBill, Busy
<1> QED  BY <1>1, <1>3, <1>4, <1>5, <1>6, <1>7, <1>9, <1>11, <1>12, <1>13, <1>14
         DEF Next, BillingNext, Progress, Quiet

LEMMA InvariantsHold == Spec => [](TypeInv /\ NumberInv)
<1>1. TypeInv /\ NumberInv /\ [Next]_vars => (TypeInv /\ NumberInv)'
  BY TypeInvStep, NumberInvStep
<1> QED  BY <1>1, TypeInvInit, NumberInvInit, PTL DEF Spec

\* No two saved sales carry the same invoice number, whatever the prefixes and
\* however their LIKE patterns overlap (InsertSale, the unique key).
THEOREM NumbersAreUnique == Spec => []NumbersUnique
<1>1. NumberInv => NumbersUnique
  BY DEF NumberInv, TakenOnce, Taken, NumbersUnique, Saved
<1> QED  BY <1>1, InvariantsHold, PTL

\* The number that _next_invoice_number computes next is not above any number
\* in use but its successor: it is free, so a retried checkout gets through.
THEOREM NextNumberIsFree ==
  ASSUME LikeSelf
  PROVE  Spec => []NextNumberFree
<1>1. NumberInv => NextNumberFree
  <2> SUFFICES ASSUME NumberInv, NEW r \in Saved PROVE seq[r] <= CountMatching(series[r])
    BY DEF NextNumberFree
  <2>1. seq[r] \in 1..CountMatching(series[r])
    BY LikeSelf DEF NumberInv, SavedWithinCount
  <2>2. CountMatching(series[r]) \in Nat
    BY CountIsNat
  <2> QED  BY <2>1, <2>2
<1> QED  BY <1>1, InvariantsHold, PTL

\* No pattern matches another series' numbers: no prefix is another one followed
\* by a dash and more, and none has an underscore or a percent sign.
OwnLike == \A s \in Series : Like[s] = {s}

LEMMA SequentialWhenNumbered ==
  ASSUME OwnLike, NumberInv
  PROVE  SequentialNumbers
<1>0. LikeSelf
  BY DEF OwnLike, LikeSelf
<1> SUFFICES ASSUME NEW s \in Series
             PROVE  {seq[r] : r \in InvoicesOf(s)} = 1..Cardinality(InvoicesOf(s))
  BY DEF SequentialNumbers
<1> DEFINE S == InvoicesOf(s)
           n == Cardinality(S)
           f == [r \in S |-> seq[r]]
<1>1. S = MatchingSales(s)
  BY DEF OwnLike, InvoicesOf, MatchingSales
<1>2. IsFiniteSet(S) /\ n \in Nat /\ n = CountMatching(s)
  BY <1>1, CountIsNat DEF CountMatching
<1>3. \A r \in S : series[r] = s /\ seq[r] \in 1..n
  BY <1>0, <1>2 DEF InvoicesOf, NumberInv, SavedWithinCount
<1>4. \A r, q \in S : seq[r] = seq[q] => r = q
  BY DEF InvoicesOf, NumberInv, TakenOnce, Taken, SameNumber, Saved
<1>5. f \in Injection(S, 1..n)
  BY <1>3, <1>4 DEF Injection, IsInjective
<1>6. IsFiniteSet(1..n) /\ Cardinality(1..n) = n
  BY <1>2, FS_Interval
<1> HIDE DEF f, S, n
<1>7. f \in Surjection(S, 1..n)
  BY <1>2, <1>5, <1>6, FS_Injection DEF n
<1>8. \A k \in 1..n : \E r \in S : f[r] = k
  BY <1>7 DEF Surjection
<1> QED  BY <1>3, <1>8 DEF f, S, n

\* FR-4.9: as long as no pattern matches another series' numbers, the invoices
\* of each series are numbered 1, 2, 3 ... without a gap.
THEOREM NumbersAreSequential ==
  ASSUME OwnLike
  PROVE  Spec => []SequentialNumbers
<1>1. NumberInv => SequentialNumbers
  BY SequentialWhenNumbered
<1> QED  BY <1>1, InvariantsHold, PTL

-----------------------------------------------------------------------------
(* The invoice book: a commit of a sale is the issue of the next number of *)
(* its series, the first commit of a void of it is its voiding, and every  *)
(* other step leaves the book as it is.                                    *)

\* Pages: what a set of numbered documents makes of a book.

Numbering(S, num) ==
  /\ IsFiniteSet(S)
  /\ {num[x] : x \in S} = 1..Cardinality(S)
  /\ \A x, y \in S : num[x] = num[y] => x = y

Pages(S, num, status) ==
  [n \in 1..Cardinality(S) |-> IF \E x \in S : num[x] = n
                               THEN status[CHOOSE x \in S : num[x] = n]
                               ELSE "missing"]

Agree(S, f, g) == \A x \in S : f[x] = g[x]

HasPages(book, n) == book = [k \in 1..n |-> book[k]]

Records(book, S, num, status) == \A x \in S : book[num[x]] = status[x]

LEMMA PageOf ==
  ASSUME NEW S, NEW num, NEW status, Numbering(S, num), NEW x \in S
  PROVE  /\ num[x] \in 1..Cardinality(S)
         /\ Pages(S, num, status)[num[x]] = status[x]
<1> DEFINE y == CHOOSE z \in S : num[z] = num[x]
<1>1. num[x] \in 1..Cardinality(S)
  BY DEF Numbering
<1>2. y \in S /\ num[y] = num[x]
  OBVIOUS
<1>3. y = x
  BY <1>2 DEF Numbering
<1>4. Pages(S, num, status)[num[x]] = IF \E z \in S : num[z] = num[x] THEN status[y] ELSE "missing"
  BY <1>1 DEF Pages
<1> QED  BY <1>1, <1>3, <1>4

\* Every page belongs to a document.
LEMMA PageHolder ==
  ASSUME NEW S, NEW num, Numbering(S, num), NEW n \in 1..Cardinality(S)
  PROVE  \E x \in S : num[x] = n
<1>1. n \in {num[x] : x \in S}
  BY DEF Numbering
<1> QED  BY <1>1

\* Two books with the same documents under the same numbers, page by page.
LEMMA PagesEqual ==
  ASSUME NEW S, NEW num, NEW status, Numbering(S, num), NEW book,
         HasPages(book, Cardinality(S)), Records(book, S, num, status)
  PROVE  Pages(S, num, status) = book
<1>1. \A n \in 1..Cardinality(S) : Pages(S, num, status)[n] = book[n]
  <2> TAKE n \in 1..Cardinality(S)
  <2>1. PICK x \in S : num[x] = n
    BY PageHolder
  <2>2. Pages(S, num, status)[num[x]] = status[x]
    BY PageOf
  <2> QED  BY <2>1, <2>2 DEF Records
<1>2. Pages(S, num, status) = [n \in 1..Cardinality(S) |-> Pages(S, num, status)[n]]
  BY DEF Pages
<1> QED  BY <1>1, <1>2 DEF HasPages

LEMMA PagesSame ==
  ASSUME NEW S, NEW num, NEW status, NEW num2, NEW status2,
         Agree(S, num2, num), Agree(S, status2, status)
  PROVE  Pages(S, num2, status2) = Pages(S, num, status)
<1>1. ASSUME NEW n \in 1..Cardinality(S)
      PROVE  (IF \E x \in S : num2[x] = n THEN status2[CHOOSE x \in S : num2[x] = n] ELSE "missing")
             = (IF \E x \in S : num[x] = n THEN status[CHOOSE x \in S : num[x] = n] ELSE "missing")
  <2>1. \A x : x \in S /\ num2[x] = n <=> x \in S /\ num[x] = n
    BY DEF Agree
  <2>2. (CHOOSE x : x \in S /\ num2[x] = n) = (CHOOSE x : x \in S /\ num[x] = n)
    BY <2>1
  <2>3. CASE \E x \in S : num[x] = n
    <3> DEFINE y == CHOOSE x \in S : num[x] = n
               z == CHOOSE x \in S : num2[x] = n
    <3>1. y \in S /\ y = z
      <4>1. y = (CHOOSE x : x \in S /\ num[x] = n) /\ z = (CHOOSE x : x \in S /\ num2[x] = n)
        OBVIOUS
      <4>2. y \in S
        BY <2>3
      <4> QED  BY <2>2, <4>1, <4>2
    <3>2. status2[z] = status[y]
      BY <3>1 DEF Agree
    <3>3. \E x \in S : num2[x] = n
      BY <2>1, <2>3
    <3> QED  BY <2>3, <3>2, <3>3
  <2>4. CASE ~ \E x \in S : num[x] = n
    BY <2>1, <2>4
  <2> QED  BY <2>3, <2>4
<1> QED  BY <1>1 DEF Pages

NextPage(S, num, status, status2, d) ==
  Pages(S \cup {d}, num, status2) = Append(Pages(S, num, status), status2[d])

PageChanged(S, num, status, status2, d) ==
  Pages(S, num, status2) = [Pages(S, num, status) EXCEPT ![num[d]] = status2[d]]

\* One more document, with the next number.
LEMMA PagesAppend ==
  ASSUME NEW S, NEW num, NEW status, NEW status2, Numbering(S, num), NEW d, d \notin S,
         num[d] = Cardinality(S) + 1, Agree(S, status2, status)
  PROVE  NextPage(S, num, status, status2, d)
<1> DEFINE n == Cardinality(S)
           T == S \cup {d}
           old == Pages(S, num, status)
           new == Append(old, status2[d])
<1>1. n \in Nat /\ IsFiniteSet(T) /\ Cardinality(T) = n + 1
  BY FS_AddElement, FS_CardinalityType DEF Numbering
<1>2. Numbering(T, num)
  <2>1. {num[x] : x \in T} = {num[x] : x \in S} \cup {n + 1}
    OBVIOUS
  <2>2. {num[x] : x \in T} = 1..n + 1
    BY <1>1, <2>1 DEF Numbering
  <2>3. \A x \in S : num[x] \in 1..n
    BY DEF Numbering
  <2>4. \A x, y \in T : num[x] = num[y] => x = y
    BY <1>1, <2>3 DEF Numbering
  <2> QED  BY <1>1, <2>2, <2>4 DEF Numbering
<1>3. PICK V : old \in [1..n -> V] /\ status2[d] \in V
  <2> DEFINE W == {old[k] : k \in 1..n} \cup {status2[d]}
  <2>1. old \in [1..n -> W]
    BY DEF Pages
  <2> QED  BY <2>1
<1>4. /\ new = [k \in 1..n + 1 |-> new[k]]
      /\ \A k \in 1..n : new[k] = old[k]
      /\ new[n + 1] = status2[d]
  <2> HIDE DEF old, n
  <2>1. old \in Seq(V) /\ Len(old) = n
    BY <1>1, <1>3
  <2> QED  BY <1>1, <1>3, <2>1
<1>5. \A x \in T : new[num[x]] = status2[x]
  <2>1. \A x \in S : num[x] \in 1..n /\ old[num[x]] = status[x]
    BY PageOf
  <2> HIDE DEF old, new
  <2>2. new[num[d]] = status2[d]
    BY <1>4
  <2> QED  BY <1>4, <2>1, <2>2 DEF Agree
<1> HIDE DEF n, T, old, new
<1>6. HasPages(new, Cardinality(T)) /\ Records(new, T, num, status2)
  BY <1>1, <1>4, <1>5 DEF HasPages, Records
<1>7. Pages(T, num, status2) = new
  BY <1>2, <1>6, PagesEqual
<1> QED  BY <1>7 DEF T, new, old, NextPage

\* One document changes its status.
LEMMA PagesExcept ==
  ASSUME NEW S, NEW num, NEW status, NEW status2, Numbering(S, num), NEW d \in S,
         Agree(S \ {d}, status2, status)
  PROVE  PageChanged(S, num, status, status2, d)
<1> DEFINE old == Pages(S, num, status)
           new == [old EXCEPT ![num[d]] = status2[d]]
<1>1. DOMAIN old = 1..Cardinality(S)
  BY DEF Pages
<1>2. \A x \in S : num[x] \in 1..Cardinality(S) /\ old[num[x]] = status[x]
  BY PageOf
<1>3. \A x \in S : new[num[x]] = status2[x]
  <2> TAKE x \in S
  <2> HIDE DEF old
  <2>1. CASE x = d
    BY <1>1, <1>2, <2>1
  <2>2. CASE x # d
    <3>1. num[x] # num[d]
      BY <2>2 DEF Numbering
    <3> QED  BY <1>1, <1>2, <2>2, <3>1 DEF Agree
  <2> QED  BY <2>1, <2>2
<1>4. HasPages(new, Cardinality(S))
  <2> HIDE DEF old
  <2> QED  BY <1>1 DEF HasPages
<1> HIDE DEF old, new
<1>5. Records(new, S, num, status2)
  BY <1>3 DEF Records
<1>6. Pages(S, num, status2) = new
  BY <1>4, <1>5, PagesEqual
<1> QED  BY <1>6 DEF old, new, PageChanged

-----------------------------------------------------------------------------
(* The refinement *)

LEMMA BookIsPages ==
  /\ \A s : BookOf(s) = Pages(InvoicesOf(s), seq, sale_status)
  /\ \A s : BookOf(s)' = Pages(InvoicesOf(s)', seq', sale_status')
BY DEF BookOf, Pages

LEMMA InvoicesAreNumbered ==
  ASSUME OwnLike, NumberInv, NEW s \in Series
  PROVE  Numbering(InvoicesOf(s), seq)
<1>1. InvoicesOf(s) = MatchingSales(s)
  BY DEF OwnLike, InvoicesOf, MatchingSales
<1>2. IsFiniteSet(InvoicesOf(s))
  BY <1>1, CountIsNat
<1>3. {seq[r] : r \in InvoicesOf(s)} = 1..Cardinality(InvoicesOf(s))
  BY SequentialWhenNumbered DEF SequentialNumbers
<1>4. \A r, q \in InvoicesOf(s) : seq[r] = seq[q] => r = q
  BY DEF InvoicesOf, NumberInv, TakenOnce, Taken, SameNumber, Saved
<1> QED  BY <1>2, <1>3, <1>4 DEF Numbering

LEMMA BookInit == Init => Book!Init
<1> SUFFICES ASSUME Init PROVE Book!Init
  OBVIOUS
<1>1. \A s : InvoicesOf(s) = {}
  BY DEF Init, BillingInit, InvoicesOf, Saved
<1>2. \A s : BookOf(s) = <<>>
  <2> TAKE s
  <2>1. Cardinality(InvoicesOf(s)) = 0
    BY <1>1, FS_EmptySet
  <2>2. DOMAIN BookOf(s) = 1..0
    BY <2>1 DEF BookOf
  <2>3. BookOf(s) = [n \in 1..0 |-> BookOf(s)[n]]
    BY <2>1 DEF BookOf
  <2> QED  BY <2>3
<1> QED  BY <1>2 DEF Book!Init

\* A step that leaves the saved sales as they are leaves the book as it is.
LEMMA BookKept ==
  ASSUME sale_status' = sale_status,
         \A q \in Saved : series'[q] = series[q] /\ seq'[q] = seq[q]
  PROVE  UNCHANGED [s \in Series |-> BookOf(s)]
<1>1. Saved' = Saved
  BY DEF Saved
<1>2. \A s : InvoicesOf(s)' = InvoicesOf(s)
  BY <1>1 DEF InvoicesOf
<1>3. ASSUME NEW s \in Series PROVE BookOf(s)' = BookOf(s)
  <2>1. Agree(InvoicesOf(s), seq', seq) /\ Agree(InvoicesOf(s), sale_status', sale_status)
    BY DEF InvoicesOf, Agree
  <2>2. Pages(InvoicesOf(s), seq', sale_status') = Pages(InvoicesOf(s), seq, sale_status)
    BY <2>1, PagesSame
  <2> QED  BY <1>2, <2>2, BookIsPages
<1> QED  BY <1>3

LEMMA CommitIssues ==
  ASSUME OwnLike, TypeInv, NumberInv, NEW r \in Requests, CommitSale(r), ~FailBill(r)
  PROVE  Book!Next
<1> USE DEF TypeInv, TypeOK, LedgerTypeOK, BillingTypeOK
<1>1. /\ pc[r] = "metered" /\ call[r].op = "sale" /\ series' = series /\ seq' = seq
      /\ sale_status' = [sale_status EXCEPT ![r] = "active"]
  BY DEF CommitSale, Commit
<1>2. Inserted(r) /\ Taken(r) /\ r \notin Saved /\ Saved' = Saved \cup {r}
  BY <1>1 DEF Inserted, Taken, NumberInv, SavedIsDone, Saved
<1>3. PICK s \in Series : series[r] = s
  BY <1>2 DEF NumberInv, SeriesKnown, Numbered
<1>4. Numbering(InvoicesOf(s), seq) /\ r \notin InvoicesOf(s)
  BY <1>2, InvoicesAreNumbered DEF InvoicesOf
<1>5. seq[r] = Cardinality(InvoicesOf(s)) + 1
  <2> DEFINE n == Cardinality(InvoicesOf(s))
  <2>1. n = CountMatching(s) /\ n \in Nat
    <3>1. InvoicesOf(s) = MatchingSales(s)
      BY DEF OwnLike, InvoicesOf, MatchingSales
    <3> QED  BY <3>1, CountIsNat DEF CountMatching
  <2>2. seq[r] \in 1..n + 1
    BY <1>2, <1>3, <2>1 DEF NumberInv, NumberedWithinCount, Numbered
  <2>3. ASSUME seq[r] \in 1..n PROVE FALSE
    <3>1. PICK y \in InvoicesOf(s) : seq[y] = seq[r]
      <4>1. seq[r] \in {seq[x] : x \in InvoicesOf(s)}
        BY <1>4, <2>3 DEF Numbering
      <4> QED  BY <4>1
    <3>2. y \in Requests /\ Taken(y) /\ SameNumber(r, y)
      BY <1>3, <3>1 DEF InvoicesOf, Saved, Taken, SameNumber
    <3>3. y = r
      BY <1>2, <3>2 DEF NumberInv, TakenOnce
    <3> QED  BY <1>4, <3>3
  <2> QED  BY <2>1, <2>2, <2>3
<1>6. BookOf(s)' = Append(BookOf(s), "active")
  <2>1. InvoicesOf(s)' = InvoicesOf(s) \cup {r}
    BY <1>1, <1>2, <1>3 DEF InvoicesOf
  <2>2. sale_status'[r] = "active" /\ Agree(InvoicesOf(s), sale_status', sale_status)
    BY <1>1, <1>2, <1>4 DEF Agree, InvoicesOf, Saved
  <2>3. NextPage(InvoicesOf(s), seq, sale_status, sale_status', r)
    BY <1>4, <1>5, <2>2, PagesAppend
  <2> QED  BY <1>1, <2>1, <2>2, <2>3, BookIsPages DEF NextPage
<1>7. ASSUME NEW t \in Series \ {s} PROVE BookOf(t)' = BookOf(t)
  <2>1. InvoicesOf(t)' = InvoicesOf(t)
    BY <1>1, <1>2, <1>3 DEF InvoicesOf
  <2>2. Agree(InvoicesOf(t), seq, seq) /\ Agree(InvoicesOf(t), sale_status', sale_status)
    BY <1>1, <1>2 DEF InvoicesOf, Agree, Saved
  <2>3. Pages(InvoicesOf(t), seq, sale_status') = Pages(InvoicesOf(t), seq, sale_status)
    BY <2>2, PagesSame
  <2> QED  BY <1>1, <2>1, <2>3, BookIsPages
<1>8. Book!Issue(s)
  BY <1>6, <1>7 DEF Book!Issue
<1> QED  BY <1>8 DEF Book!Next

LEMMA CommitVoids ==
  ASSUME OwnLike, TypeInv, NumberInv, NEW r \in Requests, CommitVoid(r)
  PROVE  Book!Next \/ UNCHANGED [s \in Series |-> BookOf(s)]
<1> USE DEF TypeInv, TypeOK, LedgerTypeOK, BillingTypeOK
<1>1. /\ call[r].op = "void" /\ series' = series /\ seq' = seq
      /\ sale_status' = [sale_status EXCEPT ![call[r].ref] = "void"]
  BY DEF CommitVoid, Commit
<1>2. PICK d \in Saved : d = call[r].ref
  BY <1>1 DEF NumberInv, VoidIsOfSaved
<1>3. CASE sale_status[d] = "void"
  <2>1. sale_status' = sale_status
    BY <1>1, <1>2, <1>3
  <2> QED  BY <1>1, <2>1, BookKept
<1>4. CASE sale_status[d] = "active"
  <2>1. d \in Requests /\ series[d] \in Series
    BY DEF Saved, NumberInv, SeriesKnown
  <2>2. PICK s \in Series : series[d] = s
    BY <2>1
  <2>3. d \in InvoicesOf(s) /\ Numbering(InvoicesOf(s), seq)
    BY <2>2, InvoicesAreNumbered DEF InvoicesOf
  <2>4. Saved' = Saved
    BY <1>1, <1>2 DEF Saved
  <2>5. \A t : InvoicesOf(t)' = InvoicesOf(t)
    BY <1>1, <2>4 DEF InvoicesOf
  <2>6. sale_status'[d] = "void" /\ \A x \in Requests \ {d} : sale_status'[x] = sale_status[x]
    BY <1>1, <1>2, <2>1
  <2>7. BookOf(s)' = [BookOf(s) EXCEPT ![seq[d]] = "void"]
    <3>1. Agree(InvoicesOf(s) \ {d}, sale_status', sale_status)
      BY <2>6 DEF InvoicesOf, Saved, Agree
    <3>2. PageChanged(InvoicesOf(s), seq, sale_status, sale_status', d)
      BY <2>3, <3>1, PagesExcept
    <3> QED  BY <1>1, <2>5, <2>6, <3>2, BookIsPages DEF PageChanged
  <2>8. ASSUME NEW t \in Series \ {s} PROVE BookOf(t)' = BookOf(t)
    <3>1. Agree(InvoicesOf(t), seq, seq) /\ Agree(InvoicesOf(t), sale_status', sale_status)
      BY <2>2, <2>6 DEF InvoicesOf, Saved, Agree
    <3>2. Pages(InvoicesOf(t), seq, sale_status') = Pages(InvoicesOf(t), seq, sale_status)
      BY <3>1, PagesSame
    <3> QED  BY <1>1, <2>5, <3>2, BookIsPages
  <2>9. /\ seq[d] \in 1..Cardinality(InvoicesOf(s))
        /\ BookOf(s)[seq[d]] = "active"
    BY <1>4, <2>3, PageOf, BookIsPages
  <2>10. seq[d] \in DOMAIN BookOf(s)
    BY <2>9 DEF BookOf
  <2>11. Book!Void(s, seq[d])
    BY <2>7, <2>8, <2>9 DEF Book!Void
  <2> QED  BY <2>10, <2>11 DEF Book!Next
<1> QED  BY <1>2, <1>3, <1>4 DEF Saved

LEMMA BookStep ==
  ASSUME OwnLike, TypeInv, NumberInv, [Next]_vars
  PROVE  Book!Next \/ UNCHANGED [s \in Series |-> BookOf(s)]
<1>0. \A r \in Requests : pc[r] # "done" => r \notin Saved
  BY DEF NumberInv, SavedIsDone
<1>1. ASSUME NEW r \in Requests, r \notin Saved, sale_status' = sale_status,
             \A q \in Requests \ {r} : series'[q] = series[q] /\ seq'[q] = seq[q]
      PROVE  UNCHANGED [s \in Series |-> BookOf(s)]
  <2>1. \A q \in Saved : series'[q] = series[q] /\ seq'[q] = seq[q]
    BY <1>1 DEF Saved
  <2> QED  BY <1>1, <2>1, BookKept
<1>2. ASSUME NEW r \in Requests, pc[r] # "done", FailBill(r)
      PROVE  UNCHANGED [s \in Series |-> BookOf(s)]
  BY <1>0, <1>1, <1>2 DEF FailBill, ForgetSale, TypeInv, TypeOK, BillingTypeOK
<1>3. ASSUME NEW r \in Requests, Progress(r)
      PROVE  Book!Next \/ UNCHANGED [s \in Series |-> BookOf(s)]
  <2>1. CASE FailBill(r)
    <3>1. pc[r] # "done"
      BY <1>3 DEF Progress, AssertCanBill, LoadProducts, CountInvoices, InsertSale, PostBillLine,
                  PostLine, ReadUsage, Posted, CommitSale, CommitVoid
    <3> QED  BY <1>2, <2>1, <3>1
  <2>2. CASE CommitSale(r) /\ ~FailBill(r)
    BY <2>2, CommitIssues
  <2>3. CASE CommitVoid(r)
    BY <2>3, CommitVoids
  <2>4. CASE /\ \/ AssertCanBill(r) \/ LoadProducts(r) \/ CountInvoices(r) \/ InsertSale(r)
                \/ PostBillLine(r) \/ ReadUsage(r)
             /\ ~FailBill(r)
    <3>1. /\ pc[r] # "done" /\ sale_status' = sale_status
          /\ \A q \in Requests \ {r} : series'[q] = series[q] /\ seq'[q] = seq[q]
      BY <2>4 DEF AssertCanBill, LoadProducts, CountInvoices, InsertSale, PostBillLine, PostLine,
                  ReadUsage, Posted, billVars, TypeInv, TypeOK, BillingTypeOK
    <3> QED  BY <1>0, <1>1, <3>1
  <2> QED  BY <1>3, <2>1, <2>2, <2>3, <2>4 DEF Progress
<1>4. ASSUME NEW r \in Requests, AbortBill(r)
      PROVE  UNCHANGED [s \in Series |-> BookOf(s)]
  BY <1>2, <1>4 DEF AbortBill, Busy
<1>5. ASSUME UNCHANGED <<sale_status, series, seq>>
      PROVE  UNCHANGED [s \in Series |-> BookOf(s)]
  BY <1>5, BookKept
<1>6. ASSUME NEW r \in Requests, StartBill(r)
      PROVE  UNCHANGED [s \in Series |-> BookOf(s)]
  BY <1>5, <1>6 DEF StartBill, OpenSale, OpenVoid, billVars
<1>7. ASSUME BillingEnvironment \/ UNCHANGED vars
      PROVE  UNCHANGED [s \in Series |-> BookOf(s)]
  BY <1>5, <1>7 DEF BillingEnvironment, NextMonth, Activate, SetPrefix, vars
<1> QED  BY <1>3, <1>4, <1>6, <1>7 DEF Next, BillingNext, Quiet

\* As long as no pattern matches another series' numbers, billing implements the
\* invoice book (create_sale, void_invoice): a series takes its numbers one after
\* the other, and an invoice only ever goes from active to void.
THEOREM ImplementsTheBook ==
  ASSUME OwnLike
  PROVE  Spec => ImplementsInvoiceBook
<1>1. TypeInv /\ NumberInv /\ [Next]_vars => [Book!Next]_([s \in Series |-> BookOf(s)])
  BY BookStep
<1> QED  BY <1>1, BookInit, InvariantsHold, PTL DEF Spec, ImplementsInvoiceBook, Book!Spec

-----------------------------------------------------------------------------
(* The counter: nothing in subscription_service serialises sessions that   *)
(* count a bill.  What does is the invoice number: two sessions that bill  *)
(* the same month number in the same series, and the second waits in its   *)
(* INSERT until the first has ended.  A void takes no number and a changed *)
(* prefix starts another series, so the theorems are about a tenant that   *)
(* has neither.                                                            *)

NoVoids == "void" \notin Workload
FixedPrefix == "settings" \notin Workload

\* A session numbers its bill in the series of the day it took.
SeriesOfDay ==
  \A r \in Requests : r \in Saved \/ pc[r] = "loaded" \/ Numbered(r) =>
    series[r] = <<prefix, YearOf[today[r]]>>

NoVoidCalls == \A r \in Requests : call[r].op # "void"

\* The counter a session has read is still the one in the table.
ReadingFresh ==
  \A r \in Requests : Inserted(r) /\ pc[r] = "metered" => used[r] = usage[today[r]]

CounterInv == SeriesOfDay /\ NoVoidCalls /\ ReadingFresh /\ UsageCountsBills

\* Only one session at a time holds an uncommitted number of a series: the
\* numbers below the next one are all saved.
LEMMA OneInserter ==
  ASSUME OwnLike, TypeInv, NumberInv, NEW r \in Requests, NEW q \in Requests,
         Inserted(r), Inserted(q), series[r] = series[q]
  PROVE  r = q
<1> DEFINE s == series[r]
           n == CountMatching(s)
<1>1. s \in Series /\ seq[r] \in 1..n + 1 /\ seq[q] \in 1..n + 1
  BY DEF NumberInv, SeriesKnown, NumberedWithinCount, Numbered
<1>2. SequentialNumbers /\ n \in Nat
  BY SequentialWhenNumbered, CountIsNat
<1>3. InvoicesOf(s) = MatchingSales(s)
  BY <1>1 DEF OwnLike, InvoicesOf, MatchingSales
<1>4. {seq[x] : x \in InvoicesOf(s)} = 1..n
  BY <1>1, <1>2, <1>3 DEF SequentialNumbers, CountMatching
<1>5. ASSUME NEW x \in {r, q}, seq[x] \in 1..n
      PROVE  FALSE
  <2>1. PICK y \in InvoicesOf(s) : seq[y] = seq[x]
    BY <1>4, <1>5
  <2>2. y \in Saved /\ y \in Requests /\ SameNumber(x, y) /\ Taken(x) /\ Taken(y)
    BY <2>1 DEF InvoicesOf, Saved, SameNumber, Taken
  <2>3. x = y
    BY <2>2 DEF NumberInv, TakenOnce
  <2>4. pc[x] = "done" /\ pc[x] \in {"posting", "metered"}
    BY <2>2, <2>3 DEF NumberInv, SavedIsDone, Inserted
  <2> QED  BY <2>4
<1>6. seq[r] = seq[q]
  BY <1>1, <1>2, <1>5
<1> QED  BY <1>6 DEF NumberInv, TakenOnce, Taken, SameNumber

LEMMA ActiveBillsType ==
  ASSUME NEW m
  PROVE  /\ IsFiniteSet({r \in Requests : sale_status[r] = "active" /\ today[r] = m})
         /\ ActiveBills(m) \in Nat
BY LedgerAssumption, FS_Subset, FS_CardinalityType DEF ActiveBills

LEMMA CounterInvInit == Init => CounterInv
<1> SUFFICES ASSUME Init PROVE CounterInv
  OBVIOUS
<1> USE DEF Init, LedgerInit, BillingInit
<1>1. \A r \in Requests : r \notin Saved /\ pc[r] = "idle" /\ call[r].op = "none"
  BY DEF Saved, NoCall
<1>2. SeriesOfDay /\ NoVoidCalls /\ ReadingFresh
  BY <1>1 DEF SeriesOfDay, NoVoidCalls, ReadingFresh, Numbered, Inserted
<1>3. \A m \in Months : Count(m) = 0
  BY DEF Count
<1>4. \A m \in Months : ActiveBills(m) = 0
  <2> TAKE m \in Months
  <2>1. {r \in Requests : sale_status[r] = "active" /\ today[r] = m} = {}
    OBVIOUS
  <2> QED  BY <2>1, FS_EmptySet DEF ActiveBills
<1> QED  BY <1>2, <1>3, <1>4 DEF CounterInv, UsageCountsBills

\* A step of one request that commits nothing.
LEMMA OwnCounterStep ==
  ASSUME CounterInv, NEW r \in Requests, r \notin Saved,
         UNCHANGED <<prefix, usage, sale_status>>,
         \A q \in Requests \ {r} : /\ pc'[q] = pc[q] /\ call'[q] = call[q] /\ today'[q] = today[q]
                                   /\ series'[q] = series[q] /\ used'[q] = used[q],
         call'[r].op # "void",
         pc'[r] = "loaded" \/ Numbered(r)' => series'[r] = <<prefix, YearOf[today'[r]]>>,
         Inserted(r)' /\ pc'[r] = "metered" => used'[r] = usage[today'[r]]
  PROVE  CounterInv'
<1>1. Saved' = Saved
  BY DEF Saved
<1>2. \A q \in Requests \ {r} : (Numbered(q)' <=> Numbered(q)) /\ (Inserted(q)' <=> Inserted(q))
  BY DEF Numbered, Inserted
<1>3. SeriesOfDay'
  BY <1>1, <1>2 DEF CounterInv, SeriesOfDay
<1>4. NoVoidCalls' /\ ReadingFresh'
  BY <1>2 DEF CounterInv, NoVoidCalls, ReadingFresh
<1>5. UsageCountsBills'
  <2> SUFFICES ASSUME NEW m \in Months PROVE (Count(m) = ActiveBills(m))'
    BY DEF UsageCountsBills
  <2>1. \A q \in Requests : sale_status'[q] = "active" /\ today'[q] = m
                              <=> sale_status[q] = "active" /\ today[q] = m
    BY DEF Saved
  <2>2. ActiveBills(m)' = ActiveBills(m)
    BY <2>1 DEF ActiveBills
  <2>3. Count(m)' = Count(m)
    BY DEF Count
  <2> QED  BY <2>2, <2>3 DEF CounterInv, UsageCountsBills
<1> QED  BY <1>3, <1>4, <1>5 DEF CounterInv

\* A session that dies or is turned down.
LEMMA FailCounterStep ==
  ASSUME CounterInv, NEW r \in Requests, r \notin Saved, TypeInv, FailBill(r)
  PROVE  CounterInv'
<1>1. /\ UNCHANGED <<prefix, usage, sale_status>>
      /\ pc'[r] = "idle" /\ call'[r].op # "void"
      /\ \A q \in Requests \ {r} : /\ pc'[q] = pc[q] /\ call'[q] = call[q] /\ today'[q] = today[q]
                                   /\ series'[q] = series[q] /\ used'[q] = used[q]
  BY DEF TypeInv, TypeOK, LedgerTypeOK, BillingTypeOK, FailBill, RollBack, ForgetSale, NoCall
<1>2. ~Numbered(r)'
  BY <1>1 DEF Numbered, Inserted
<1> QED  BY <1>1, <1>2, OwnCounterStep

\* The bill that is committed is the one its counter had not seen.
LEMMA CommitCounterStep ==
  ASSUME OwnLike, TypeInv, NumberInv, CounterInv, NEW r \in Requests, CommitSale(r), ~FailBill(r)
  PROVE  CounterInv'
<1> USE DEF TypeInv, TypeOK, LedgerTypeOK, BillingTypeOK
<1>1. /\ pc[r] = "metered" /\ call[r].op = "sale"
      /\ pc' = [pc EXCEPT ![r] = "done"] /\ call' = call
      /\ usage' = [usage EXCEPT ![today[r]] = Incremented(used[r])]
      /\ sale_status' = [sale_status EXCEPT ![r] = "active"]
      /\ used' = [used EXCEPT ![r] = None]
      /\ UNCHANGED <<prefix, today, series>>
  BY DEF CommitSale, Commit
<1>2. Inserted(r) /\ r \notin Saved /\ Saved' = Saved \cup {r}
  BY <1>1 DEF Inserted, NumberInv, SavedIsDone, Saved
<1>3. used[r] = usage[today[r]] /\ today[r] \in Months
  BY <1>1, <1>2 DEF CounterInv, ReadingFresh
<1>4. \A q \in Requests \ {r} : Inserted(q) => today[q] # today[r]
  <2> SUFFICES ASSUME NEW q \in Requests \ {r}, Inserted(q), today[q] = today[r]
               PROVE  FALSE
    OBVIOUS
  <2>1. series[q] = series[r]
    BY <1>2 DEF CounterInv, SeriesOfDay, Numbered
  <2> QED  BY <1>2, <2>1, OneInserter
<1>5. SeriesOfDay'
  <2>1. \A q \in Requests : Numbered(q)' => Numbered(q)
    BY <1>1 DEF Numbered, Inserted
  <2>2. \A q \in Requests : pc'[q] = "loaded" => pc[q] = "loaded"
    BY <1>1
  <2> QED  BY <1>1, <1>2, <2>1, <2>2 DEF CounterInv, SeriesOfDay, Numbered
<1>6. NoVoidCalls' /\ ReadingFresh'
  BY <1>1, <1>4 DEF CounterInv, NoVoidCalls, ReadingFresh, Inserted
<1>7. UsageCountsBills'
  <2> SUFFICES ASSUME NEW m \in Months PROVE (Count(m) = ActiveBills(m))'
    BY DEF UsageCountsBills
  <2> DEFINE bills == {q \in Requests : sale_status[q] = "active" /\ today[q] = m}
  <2>1. IsFiniteSet(bills) /\ ActiveBills(m) = Cardinality(bills) /\ ActiveBills(m) \in Nat
    BY ActiveBillsType DEF ActiveBills
  <2>2. Count(m) = ActiveBills(m)
    BY DEF CounterInv, UsageCountsBills
  <2>3. CASE m = today[r]
    <3>1. {q \in Requests : sale_status'[q] = "active" /\ today'[q] = m} = bills \cup {r}
      BY <1>1, <2>3
    <3>2. r \notin bills
      BY <1>2 DEF Saved
    <3>3. ActiveBills(m)' = ActiveBills(m) + 1
      BY <2>1, <3>1, <3>2, FS_AddElement DEF ActiveBills
    <3>4. Count(m)' = Count(m) + 1
      <4>1. usage'[m] = Incremented(usage[m]) /\ usage[m] \in Nat \cup {None}
        BY <1>1, <1>3, <2>3
      <4>2. None \notin Nat
        BY LedgerAssumption
      <4>3. CASE usage[m] = None
        BY <4>1, <4>2, <4>3 DEF Count, Incremented
      <4>4. CASE usage[m] # None
        BY <4>1, <4>2, <4>4 DEF Count, Incremented
      <4> QED  BY <4>3, <4>4
    <3> QED  BY <2>2, <3>3, <3>4
  <2>4. CASE m # today[r]
    <3>1. {q \in Requests : sale_status'[q] = "active" /\ today'[q] = m} = bills
      BY <1>1, <2>4
    <3>2. Count(m)' = Count(m)
      BY <1>1, <2>4 DEF Count
    <3> QED  BY <2>2, <3>1, <3>2 DEF ActiveBills
  <2> QED  BY <2>3, <2>4
<1> QED  BY <1>5, <1>6, <1>7 DEF CounterInv

LEMMA CounterInvStep ==
  ASSUME OwnLike, NoVoids, FixedPrefix, TypeInv, NumberInv, CounterInv, [Next]_vars
  PROVE  CounterInv'
<1> USE DEF TypeInv, TypeOK, LedgerTypeOK, BillingTypeOK
<1>0. \A r \in Requests : pc[r] # "done" => r \notin Saved
  BY DEF NumberInv, SavedIsDone
<1>1. ASSUME NEW r \in Requests, pc[r] # "done", FailBill(r)
      PROVE  CounterInv'
  BY <1>0, <1>1, FailCounterStep
<1>2. ASSUME NEW r \in Requests, StartBill(r)
      PROVE  CounterInv'
  <2>1. PICK cart \in Carts : OpenSale(r, cart)
    BY <1>2 DEF StartBill, NoVoids
  <2>2. /\ pc[r] = "idle" /\ pc'[r] = "began" /\ call'[r].op = "sale"
        /\ UNCHANGED <<prefix, usage, sale_status, today, series, used>>
        /\ \A q \in Requests \ {r} : pc'[q] = pc[q] /\ call'[q] = call[q]
    BY <2>1 DEF OpenSale, Open
  <2>3. ~Numbered(r)'
    BY <2>2 DEF Numbered, Inserted
  <2> QED  BY <1>0, <2>2, <2>3, OwnCounterStep
<1>3. ASSUME NEW r \in Requests, AssertCanBill(r), ~FailBill(r)
      PROVE  CounterInv'
  <2>1. /\ pc[r] = "began" /\ pc' = [pc EXCEPT ![r] = "guarded"]
        /\ \E m \in began[r]..month : today' = [today EXCEPT ![r] = m]
        /\ UNCHANGED <<call, prefix, usage, sale_status, series, used>>
    BY <1>3 DEF AssertCanBill
  <2>2. ~Numbered(r)' /\ call[r].op # "void"
    BY <2>1 DEF Numbered, Inserted, CounterInv, NoVoidCalls
  <2> QED  BY <1>0, <2>1, <2>2, OwnCounterStep
<1>4. ASSUME NEW r \in Requests, LoadProducts(r), ~FailBill(r)
      PROVE  CounterInv'
  <2>1. /\ pc[r] = "guarded" /\ pc' = [pc EXCEPT ![r] = "loaded"]
        /\ series' = [series EXCEPT ![r] = <<prefix, YearOf[today[r]]>>]
        /\ UNCHANGED <<call, prefix, usage, sale_status, today, used>>
    BY <1>4 DEF LoadProducts
  <2>2. ~Numbered(r)' /\ call[r].op # "void" /\ series'[r] = <<prefix, YearOf[today[r]]>>
    BY <2>1 DEF Numbered, Inserted, CounterInv, NoVoidCalls
  <2> QED  BY <1>0, <2>1, <2>2, OwnCounterStep
<1>5. ASSUME NEW r \in Requests, CountInvoices(r) \/ InsertSale(r), ~FailBill(r)
      PROVE  CounterInv'
  <2>1. /\ pc[r] \in {"loaded", "numbered"} /\ pc'[r] \in {"numbered", "posting"}
        /\ \A q \in Requests \ {r} : pc'[q] = pc[q]
        /\ UNCHANGED <<call, prefix, usage, sale_status, today, series, used>>
    BY <1>5 DEF CountInvoices, InsertSale, billVars
  <2>2. series[r] = <<prefix, YearOf[today[r]]>> /\ call[r].op # "void"
    BY <2>1 DEF CounterInv, SeriesOfDay, NoVoidCalls, Numbered
  <2> QED  BY <1>0, <2>1, <2>2, OwnCounterStep
<1>6. ASSUME NEW r \in Requests, PostBillLine(r)
      PROVE  CounterInv'
  <2>1. UNCHANGED <<pc, call, prefix, usage, sale_status, today, series, used>> /\ pc[r] = "posting"
    BY <1>6 DEF PostBillLine, PostLine, billVars
  <2>2. call[r].op # "void" /\ (Numbered(r)' => series[r] = <<prefix, YearOf[today[r]]>>)
    BY <2>1 DEF CounterInv, SeriesOfDay, NoVoidCalls, Numbered, Inserted
  <2> QED  BY <1>0, <2>1, <2>2, OwnCounterStep
<1>7. ASSUME NEW r \in Requests, ReadUsage(r)
      PROVE  CounterInv'
  <2>1. /\ pc[r] = "posting" /\ pc' = [pc EXCEPT ![r] = "metered"]
        /\ call[r].op = "sale"
        /\ used' = [used EXCEPT ![r] = usage[today[r]]]
        /\ UNCHANGED <<call, prefix, usage, sale_status, today, series>>
    BY <1>7 DEF ReadUsage, Posted, BilledMonth, CounterInv, NoVoidCalls
  <2>2. Numbered(r)' => series[r] = <<prefix, YearOf[today[r]]>>
    BY <2>1 DEF CounterInv, SeriesOfDay, Numbered, Inserted
  <2> QED  BY <1>0, <2>1, <2>2, OwnCounterStep
<1>8. ASSUME NEW r \in Requests, CommitSale(r), ~FailBill(r)
      PROVE  CounterInv'
  BY <1>8, CommitCounterStep
<1>9. ASSUME NEW r \in Requests, CommitVoid(r)
      PROVE  CounterInv'
  BY <1>9 DEF CommitVoid, CounterInv, NoVoidCalls
<1>10. ASSUME UNCHANGED <<pc, call, prefix, usage, sale_status, today, series, used>>
       PROVE  CounterInv'
  <2>1. Saved' = Saved /\ \A q \in Requests :
          (Numbered(q)' <=> Numbered(q)) /\ (Inserted(q)' <=> Inserted(q))
    BY <1>10 DEF Saved, Numbered, Inserted
  <2>2. \A m : Count(m)' = Count(m) /\ ActiveBills(m)' = ActiveBills(m)
    BY <1>10 DEF Count, ActiveBills
  <2> QED  BY <1>10, <2>1, <2>2 DEF CounterInv, SeriesOfDay, NoVoidCalls, ReadingFresh, UsageCountsBills
<1>11. ASSUME BillingEnvironment \/ UNCHANGED vars
       PROVE  CounterInv'
  BY <1>10, <1>11 DEF BillingEnvironment, NextMonth, Activate, SetPrefix, FixedPrefix, ledgerVars, vars
<1>12. ASSUME NEW r \in Requests, Progress(r)
       PROVE  CounterInv'
  <2>1. CASE FailBill(r)
    <3>1. pc[r] # "done"
      BY <1>12 DEF Progress, AssertCanBill, LoadProducts, CountInvoices, InsertSale, PostBillLine,
                   PostLine, ReadUsage, Posted, CommitSale, CommitVoid
    <3> QED  BY <1>1, <2>1, <3>1
  <2>2. CASE ~FailBill(r)
    BY <1>3, <1>4, <1>5, <1>6, <1>7, <1>8, <1>9, <1>12, <2>2 DEF Progress
  <2> QED  BY <2>1, <2>2
<1>13. ASSUME NEW r \in Requests, AbortBill(r)
       PROVE  CounterInv'
  BY <1>1, <1>13 DEF AbortBill, Busy
<1> QED  BY <1>2, <1>11, <1>12, <1>13 DEF Next, BillingNext, Quiet

LEMMA CounterInvHolds ==
  ASSUME OwnLike, NoVoids, FixedPrefix
  PROVE  Spec => [](TypeInv /\ NumberInv /\ CounterInv)
<1>1. TypeInv /\ NumberInv /\ CounterInv /\ [Next]_vars => (TypeInv /\ NumberInv /\ CounterInv)'
  BY TypeInvStep, NumberInvStep, CounterInvStep
<1> QED  BY <1>1, TypeInvInit, NumberInvInit, CounterInvInit, PTL DEF Spec

\* docs/05, "no double counting, no drift": the counter of each month is the
\* number of its bills, however sales race (increment_usage).
THEOREM CounterCountsBills ==
  ASSUME OwnLike, NoVoids, FixedPrefix
  PROVE  Spec => []UsageCountsBills
<1>1. CounterInv => UsageCountsBills
  BY DEF CounterInv
<1> QED  BY <1>1, CounterInvHolds, PTL

-----------------------------------------------------------------------------
(* The guard *)

LimitOf(s) == IF s.status = "Trial" \/ s.limit = None THEN TrialQuota ELSE s.limit

\* Platform operations change the status and not the limit.
OneLimit == \A a, b \in Subscriptions : LimitOf(a) = LimitOf(b)

BillsOf(m) == {r \in Requests : sale_status[r] = "active" /\ today[r] = m}

AfterGuard(r) ==
  call[r].op = "sale" /\ pc[r] \in {"guarded", "loaded", "numbered", "posting", "metered"}

\* The bills month m may still come to: those that stand, those the guard has let
\* through and, once the month is over, the sessions it left unguarded.
Promised(m) ==
  {r \in Requests : \/ r \in BillsOf(m)
                    \/ AfterGuard(r) /\ today[r] = m
                    \/ month > m /\ pc[r] = "began" /\ began[r] <= m}

WorkersEnough == Cardinality(Busy) <= Workers

DatesPassed == \A r \in Requests : began[r] <= month /\ today[r] <= month

PromisedBounded ==
  \A m \in Months : EffectiveLimit # 0 =>
    Cardinality(Promised(m)) <=
      EffectiveLimit + (IF month > m THEN 2 * Workers - 1 ELSE Workers - 1)

LimitInv == WorkersEnough /\ DatesPassed /\ PromisedBounded

LEMMA SetsFinite ==
  /\ IsFiniteSet(Busy) /\ Cardinality(Busy) \in Nat
  /\ \A m : IsFiniteSet(Promised(m)) /\ Cardinality(Promised(m)) \in Nat
  /\ \A m : IsFiniteSet(BillsOf(m)) /\ Cardinality(BillsOf(m)) \in Nat
BY LedgerAssumption, FS_Subset, FS_CardinalityType DEF Busy, Promised, BillsOf

\* The elements of two finite sets are at most as many as those of each.
LEMMA UnionBound ==
  ASSUME NEW S, NEW T, NEW U, IsFiniteSet(S), IsFiniteSet(T), U \subseteq S \cup T
  PROVE  /\ IsFiniteSet(U)
         /\ Cardinality(S) \in Nat /\ Cardinality(T) \in Nat /\ Cardinality(U) \in Nat
         /\ Cardinality(U) <= Cardinality(S) + Cardinality(T)
<1>1. /\ IsFiniteSet(S \cup T) /\ IsFiniteSet(S \cap T)
      /\ Cardinality(S \cup T) = Cardinality(S) + Cardinality(T) - Cardinality(S \cap T)
  BY FS_Union, FS_Intersection
<1>2. IsFiniteSet(U) /\ Cardinality(U) <= Cardinality(S \cup T)
  BY <1>1, FS_Subset
<1>3. /\ Cardinality(S) \in Nat /\ Cardinality(T) \in Nat /\ Cardinality(U) \in Nat
      /\ Cardinality(S \cup T) \in Nat /\ Cardinality(S \cap T) \in Nat
  BY <1>1, <1>2, FS_CardinalityType
<1> QED  BY <1>1, <1>2, <1>3

LEMMA LimitInvInit == Init => LimitInv
<1> SUFFICES ASSUME Init PROVE LimitInv
  OBVIOUS
<1> USE BillingAssumption, LedgerAssumption DEF Init, LedgerInit, BillingInit
<1>1. Busy = {}
  BY DEF Busy
<1>2. WorkersEnough
  BY <1>1, FS_EmptySet DEF WorkersEnough
<1>3. DatesPassed
  BY DEF DatesPassed
<1>4. EffectiveLimit \in Nat
  BY DEF EffectiveLimit
<1>5. ASSUME NEW m \in Months
      PROVE  Cardinality(Promised(m)) = 0
  <2>1. Promised(m) = {}
    BY DEF Promised, BillsOf, AfterGuard, NoCall
  <2> QED  BY <2>1, FS_EmptySet
<1>6. \A m \in Months : ~(month > m)
  BY DEF Months
<1>7. PromisedBounded
  BY <1>4, <1>5, <1>6 DEF PromisedBounded
<1> QED  BY <1>2, <1>3, <1>7 DEF LimitInv

\* A step in which no month comes to promise more.
LEMMA NoMorePromised ==
  ASSUME LimitInv, TypeInv, month' = month, EffectiveLimit' = EffectiveLimit,
         EffectiveLimit \in Nat, NEW m \in Months, Promised(m)' \subseteq Promised(m)
  PROVE  (EffectiveLimit # 0 =>
            Cardinality(Promised(m)) <=
              EffectiveLimit + (IF month > m THEN 2 * Workers - 1 ELSE Workers - 1))'
<1>1. Cardinality(Promised(m)') \in Nat /\ Cardinality(Promised(m)') <= Cardinality(Promised(m))
  BY SetsFinite, FS_Subset, FS_CardinalityType
<1>2. Cardinality(Promised(m))' = Cardinality(Promised(m)')
  OBVIOUS
<1>3. Cardinality(Promised(m)) \in Nat
  BY SetsFinite
<1>4. month \in Nat /\ m \in Nat /\ Workers \in Nat
  BY LedgerAssumption, BillingAssumption DEF TypeInv, TypeOK, BillingTypeOK, Months
<1> QED  BY <1>1, <1>2, <1>3, <1>4 DEF LimitInv, PromisedBounded

\* A step in which sessions only end and no month comes to promise more.
LEMMA ShrinkingStep ==
  ASSUME LimitInv, TypeInv, month' = month, EffectiveLimit' = EffectiveLimit,
         EffectiveLimit \in Nat, Busy' \subseteq Busy, DatesPassed',
         \A m \in Months : Promised(m)' \subseteq Promised(m)
  PROVE  LimitInv'
<1>1. Cardinality(Busy') \in Nat /\ Cardinality(Busy') <= Cardinality(Busy)
  BY SetsFinite, FS_Subset, FS_CardinalityType
<1>2. Cardinality(Busy)' = Cardinality(Busy')
  OBVIOUS
<1>3. WorkersEnough'
  BY <1>1, <1>2, SetsFinite, LedgerAssumption DEF LimitInv, WorkersEnough
<1>4. PromisedBounded'
  <2> SUFFICES ASSUME NEW m \in Months
               PROVE  (EffectiveLimit # 0 =>
                         Cardinality(Promised(m)) <=
                           EffectiveLimit + (IF month > m THEN 2 * Workers - 1 ELSE Workers - 1))'
    BY DEF PromisedBounded
  <2> QED  BY NoMorePromised
<1> QED  BY <1>3, <1>4 DEF LimitInv

\* A step of one request after which it is promised to no other month.
LEMMA OwnLimitStep ==
  ASSUME LimitInv, TypeInv, NEW r \in Requests, pc[r] # "idle", pc[r] # "done",
         UNCHANGED <<month, subscription>>,
         \A q \in Requests \ {r} : /\ pc'[q] = pc[q] /\ call'[q] = call[q] /\ began'[q] = began[q]
                                   /\ today'[q] = today[q] /\ sale_status'[q] = sale_status[q],
         began'[r] <= month, today'[r] <= month,
         \A m \in Months : r \in Promised(m)' => r \in Promised(m)
  PROVE  LimitInv'
<1>1. EffectiveLimit' = EffectiveLimit /\ EffectiveLimit \in Nat
  BY BillingAssumption DEF TypeInv, TypeOK, BillingTypeOK, EffectiveLimit
<1>2. Busy' \subseteq Busy
  BY DEF Busy
<1>3. DatesPassed'
  BY DEF LimitInv, DatesPassed
<1>4. \A m \in Months : \A q \in Requests \ {r} : q \in Promised(m)' => q \in Promised(m)
  BY DEF Promised, BillsOf, AfterGuard
<1>5. \A m \in Months : Promised(m)' \subseteq Requests
  BY DEF Promised
<1>6. \A m \in Months : Promised(m)' \subseteq Promised(m)
  BY <1>4, <1>5
<1> QED  BY <1>1, <1>2, <1>3, <1>6, ShrinkingStep

\* A session opens: there was a worker for it.
LEMMA OpenLimitStep ==
  ASSUME LimitInv, TypeInv, NEW r \in Requests, r \notin Saved, NEW cart \in Carts, OpenSale(r, cart)
  PROVE  LimitInv'
<1> USE DEF TypeInv, TypeOK, LedgerTypeOK, BillingTypeOK
<1>1. /\ pc[r] = "idle" /\ Cardinality(Busy) < Workers
      /\ pc' = [pc EXCEPT ![r] = "began"] /\ began' = [began EXCEPT ![r] = month]
      /\ \A q \in Requests \ {r} : call'[q] = call[q]
      /\ UNCHANGED <<month, subscription, sale_status, today>>
  BY DEF OpenSale, Open
<1>2. Busy' = Busy \cup {r} /\ r \notin Busy
  BY <1>1 DEF Busy
<1>3. Cardinality(Busy)' = Cardinality(Busy) + 1
  BY <1>2, SetsFinite, FS_AddElement
<1>4. WorkersEnough'
  BY <1>1, <1>3, SetsFinite, LedgerAssumption DEF WorkersEnough
<1>5. month \in Nat
  BY DEF Months
<1>6. DatesPassed'
  BY <1>1, <1>5 DEF LimitInv, DatesPassed
<1>7. \A m \in Months : Promised(m)' \subseteq Promised(m)
  <2> TAKE m \in Months
  <2>1. m \in Nat
    BY DEF Months
  <2>2. r \notin Promised(m)'
    BY <1>1, <1>5, <2>1 DEF Promised, BillsOf, AfterGuard, Saved
  <2>3. \A q \in Requests \ {r} : q \in Promised(m)' => q \in Promised(m)
    BY <1>1 DEF Promised, BillsOf, AfterGuard
  <2> QED  BY <2>2, <2>3 DEF Promised
<1>8. EffectiveLimit' = EffectiveLimit /\ EffectiveLimit \in Nat
  BY <1>1, BillingAssumption DEF EffectiveLimit
<1>9. PromisedBounded'
  <2> SUFFICES ASSUME NEW m \in Months
               PROVE  (EffectiveLimit # 0 =>
                         Cardinality(Promised(m)) <=
                           EffectiveLimit + (IF month > m THEN 2 * Workers - 1 ELSE Workers - 1))'
    BY DEF PromisedBounded
  <2> QED  BY <1>1, <1>7, <1>8, NoMorePromised
<1> QED  BY <1>4, <1>6, <1>9 DEF LimitInv

\* The guard lets a session through: the counter, which is the bills that stand,
\* was below the limit, and what else is under way is one session per worker.
LEMMA GuardLimitStep ==
  ASSUME LimitInv, CounterInv, TypeInv, NEW r \in Requests, r \notin Saved,
         AssertCanBill(r), ~FailBill(r)
  PROVE  LimitInv'
<1> USE DEF TypeInv, TypeOK, LedgerTypeOK, BillingTypeOK
<1>1. /\ pc[r] = "began" /\ pc' = [pc EXCEPT ![r] = "guarded"]
      /\ ~OverLimit
      /\ UNCHANGED <<month, subscription, sale_status, began, call>>
  BY DEF AssertCanBill
<1>2. PICK d \in began[r]..month : today' = [today EXCEPT ![r] = d]
  BY DEF AssertCanBill
<1>3. month \in Nat /\ began[r] \in Nat /\ d \in Months /\ d <= month /\ began[r] <= d
  <2>1. month \in 1..MaxMonth /\ began[r] \in 1..MaxMonth /\ MaxMonth \in Nat
    BY BillingAssumption DEF Months
  <2> QED  BY <2>1 DEF Months
<1>4. EffectiveLimit' = EffectiveLimit /\ EffectiveLimit \in Nat
  BY <1>1, BillingAssumption DEF EffectiveLimit
<1>5. Busy' = Busy
  BY <1>1 DEF Busy
<1>6. DatesPassed'
  BY <1>1, <1>2, <1>3 DEF LimitInv, DatesPassed
<1>7. WorkersEnough'
  BY <1>5 DEF LimitInv, WorkersEnough
<1>8. ASSUME NEW m \in Months
      PROVE  (EffectiveLimit # 0 =>
                Cardinality(Promised(m)) <=
                  EffectiveLimit + (IF month > m THEN 2 * Workers - 1 ELSE Workers - 1))'
  <2>1. \A q \in Requests \ {r} : q \in Promised(m)' => q \in Promised(m)
    BY <1>1, <1>2 DEF Promised, BillsOf, AfterGuard
  <2>2. CASE d = m /\ m = month
    <3>1. Promised(m)' \subseteq BillsOf(m) \cup Busy
      BY <1>1, <1>2, <1>3, <2>2 DEF Promised, BillsOf, AfterGuard, Busy, Saved
    <3>2. /\ Cardinality(Busy) \in Nat /\ Cardinality(BillsOf(m)) \in Nat
          /\ Cardinality(Promised(m)') <= Cardinality(BillsOf(m)) + Cardinality(Busy)
          /\ Cardinality(Promised(m)') \in Nat
      <4>1. IsFiniteSet(BillsOf(m)) /\ IsFiniteSet(Busy)
        BY SetsFinite
      <4> QED  BY <3>1, <4>1, UnionBound
    <3>3. Count(m) = Cardinality(BillsOf(m))
      BY DEF CounterInv, UsageCountsBills, ActiveBills, BillsOf
    <3>4. EffectiveLimit # 0 => Cardinality(BillsOf(m)) < EffectiveLimit
      BY <1>1, <1>4, <2>2, <3>2, <3>3 DEF OverLimit
    <3>5. Cardinality(Busy) <= Workers /\ Workers \in Nat
      BY LedgerAssumption DEF LimitInv, WorkersEnough
    <3>6. Cardinality(Promised(m))' = Cardinality(Promised(m)')
      OBVIOUS
    <3>7. ~(month' > m) /\ Workers' = Workers
      BY <1>1, <1>3, <2>2
    <3> QED  BY <1>4, <3>2, <3>4, <3>5, <3>6, <3>7
  <2>3. CASE ~(d = m /\ m = month)
    <3>1. r \in Promised(m)' => r \in Promised(m)
      BY <1>1, <1>2, <1>3, <2>3 DEF Promised, BillsOf, AfterGuard, Saved, Months
    <3>2. Promised(m)' \subseteq Promised(m)
      BY <2>1, <3>1 DEF Promised
    <3> QED  BY <1>1, <1>4, <3>2, NoMorePromised
  <2> QED  BY <2>2, <2>3
<1>9. PromisedBounded'
  BY <1>8 DEF PromisedBounded
<1> QED  BY <1>6, <1>7, <1>9 DEF LimitInv

\* At midnight the sessions that have not reached the guard join the month that
\* is over: they may still date their bill in it.
LEMMA MidnightLimitStep ==
  ASSUME LimitInv, TypeInv, NextMonth
  PROVE  LimitInv'
<1> USE DEF TypeInv, TypeOK, LedgerTypeOK, BillingTypeOK
<1>1. /\ month' = month + 1 /\ month \in Nat
      /\ UNCHANGED <<pc, call, subscription, sale_status, began, today>>
  BY DEF NextMonth, ledgerVars, Months
<1>2. WorkersEnough'
  BY <1>1 DEF LimitInv, WorkersEnough, Busy
<1>3. DatesPassed'
  BY <1>1 DEF LimitInv, DatesPassed, Months
<1>4. EffectiveLimit' = EffectiveLimit /\ EffectiveLimit \in Nat
  BY <1>1, BillingAssumption DEF EffectiveLimit
<1>5. ASSUME NEW m \in Months
      PROVE  (EffectiveLimit # 0 =>
                Cardinality(Promised(m)) <=
                  EffectiveLimit + (IF month > m THEN 2 * Workers - 1 ELSE Workers - 1))'
  <2>1. m \in Nat /\ Workers \in Nat \ {0} /\ Workers' = Workers
    BY LedgerAssumption DEF Months
  <2>2. Cardinality(Promised(m))' = Cardinality(Promised(m)') /\ Cardinality(Promised(m)) \in Nat
    BY SetsFinite
  <2>3. CASE m = month
    <3>1. Promised(m)' \subseteq Promised(m) \cup Busy
      BY <1>1, <2>1, <2>3 DEF Promised, BillsOf, AfterGuard, Busy
    <3>2. /\ Cardinality(Busy) \in Nat /\ Cardinality(Promised(m)') \in Nat
          /\ Cardinality(Promised(m)') <= Cardinality(Promised(m)) + Cardinality(Busy)
      <4>1. IsFiniteSet(Promised(m)) /\ IsFiniteSet(Busy)
        BY SetsFinite
      <4> QED  BY <3>1, <4>1, UnionBound
    <3>3. Cardinality(Busy) <= Workers
      BY DEF LimitInv, WorkersEnough
    <3>4. EffectiveLimit # 0 => Cardinality(Promised(m)) <= EffectiveLimit + Workers - 1
      BY <1>1, <1>4, <2>1, <2>3 DEF LimitInv, PromisedBounded
    <3>5. month' > m
      BY <1>1, <2>3
    <3> QED  BY <1>4, <2>1, <2>2, <3>2, <3>3, <3>4, <3>5
  <2>4. CASE m # month
    <3>1. (month' > m) <=> (month > m)
      BY <1>1, <2>1, <2>4
    <3>2. Promised(m)' = Promised(m)
      BY <1>1, <3>1 DEF Promised, BillsOf, AfterGuard
    <3> QED  BY <1>4, <2>1, <3>1, <3>2 DEF LimitInv, PromisedBounded
  <2> QED  BY <2>3, <2>4
<1>6. PromisedBounded'
  BY <1>5 DEF PromisedBounded
<1> QED  BY <1>2, <1>3, <1>6 DEF LimitInv

LEMMA LimitInvStep ==
  ASSUME OneLimit, NoVoids, TypeInv, NumberInv, CounterInv, LimitInv, [Next]_vars
  PROVE  LimitInv'
<1> USE DEF TypeInv, TypeOK, LedgerTypeOK, BillingTypeOK
<1>0. \A r \in Requests : pc[r] # "done" => r \notin Saved
  BY DEF NumberInv, SavedIsDone
<1>1. \A r \in Requests : month \in Nat /\ began[r] <= month /\ today[r] <= month /\ 1 <= month
  BY DEF LimitInv, DatesPassed, Months
<1>2. ASSUME NEW r \in Requests, pc[r] # "done", pc[r] # "idle", FailBill(r)
      PROVE  LimitInv'
  <2>1. /\ pc' = [pc EXCEPT ![r] = "idle"] /\ call' = [call EXCEPT ![r] = NoCall]
        /\ began' = [began EXCEPT ![r] = 1] /\ today' = [today EXCEPT ![r] = 1]
        /\ UNCHANGED <<month, subscription, sale_status>>
    BY <1>2 DEF FailBill, RollBack, ForgetSale
  <2>2. \A m \in Months : r \notin Promised(m)'
    BY <1>0, <1>2, <2>1 DEF Promised, BillsOf, AfterGuard, Saved
  <2> QED  BY <1>1, <1>2, <2>1, <2>2, OwnLimitStep
<1>3. ASSUME NEW r \in Requests, StartBill(r)
      PROVE  LimitInv'
  <2>1. PICK cart \in Carts : OpenSale(r, cart)
    BY <1>3 DEF StartBill, NoVoids
  <2>2. r \notin Saved
    BY <1>0, <2>1 DEF OpenSale, Open
  <2> QED  BY <2>1, <2>2, OpenLimitStep
<1>4. ASSUME NEW r \in Requests, AssertCanBill(r), ~FailBill(r)
      PROVE  LimitInv'
  BY <1>0, <1>4, GuardLimitStep DEF AssertCanBill
<1>5. ASSUME NEW r \in Requests,
             LoadProducts(r) \/ CountInvoices(r) \/ InsertSale(r) \/ PostBillLine(r) \/ ReadUsage(r),
             ~FailBill(r)
      PROVE  LimitInv'
  <2> DEFINE early == {"guarded", "loaded", "numbered", "posting"}
             late == {"guarded", "loaded", "numbered", "posting", "metered"}
  <2>1. /\ pc[r] \in early /\ pc'[r] \in late
        /\ \A q \in Requests \ {r} : pc'[q] = pc[q]
        /\ UNCHANGED <<month, subscription, call, began, today, sale_status>>
    BY <1>5 DEF LoadProducts, CountInvoices, InsertSale, PostBillLine, PostLine, ReadUsage, Posted, billVars
  <2>2. \A m \in Months : r \in Promised(m)' => r \in Promised(m)
    BY <2>1 DEF Promised, BillsOf, AfterGuard
  <2>3. pc[r] # "idle" /\ pc[r] # "done"
    BY <2>1
  <2> QED  BY <1>1, <2>1, <2>2, <2>3, OwnLimitStep
<1>6. ASSUME NEW r \in Requests, CommitSale(r), ~FailBill(r)
      PROVE  LimitInv'
  <2>1. /\ pc[r] = "metered" /\ pc' = [pc EXCEPT ![r] = "done"] /\ call[r].op = "sale"
        /\ sale_status' = [sale_status EXCEPT ![r] = "active"]
        /\ UNCHANGED <<month, subscription, call, began, today>>
    BY <1>6 DEF CommitSale, Commit
  <2>2. \A m \in Months : r \in Promised(m)' => r \in Promised(m)
    BY <2>1 DEF Promised, BillsOf, AfterGuard
  <2> QED  BY <1>1, <2>1, <2>2, OwnLimitStep
<1>7. ASSUME NEW r \in Requests, CommitVoid(r)
      PROVE  LimitInv'
  BY <1>7 DEF CommitVoid, CounterInv, NoVoidCalls
<1>8. ASSUME UNCHANGED <<pc, call, month, sale_status, began, today>>, subscription' \in Subscriptions
      PROVE  LimitInv'
  <2>1. EffectiveLimit' = EffectiveLimit /\ EffectiveLimit \in Nat
    <3>1. EffectiveLimit = LimitOf(subscription) /\ EffectiveLimit' = LimitOf(subscription')
      BY DEF EffectiveLimit, LimitOf
    <3>2. EffectiveLimit \in Nat
      BY BillingAssumption DEF EffectiveLimit
    <3> QED  BY <1>8, <3>1, <3>2 DEF OneLimit
  <2>2. Busy' = Busy /\ \A m \in Months : Promised(m)' = Promised(m)
    BY <1>8 DEF Busy, Promised, BillsOf, AfterGuard
  <2>3. DatesPassed'
    BY <1>8 DEF LimitInv, DatesPassed
  <2> QED  BY <1>8, <2>1, <2>2, <2>3, ShrinkingStep
<1>9. ASSUME BillingEnvironment \/ UNCHANGED vars
      PROVE  LimitInv'
  BY <1>8, <1>9, MidnightLimitStep
     DEF BillingEnvironment, NextMonth, Activate, SetPrefix, ledgerVars, vars
<1>10. ASSUME NEW r \in Requests, Progress(r)
       PROVE  LimitInv'
  <2>1. CASE FailBill(r)
    <3>1. pc[r] # "done" /\ pc[r] # "idle"
      BY <1>10 DEF Progress, AssertCanBill, LoadProducts, CountInvoices, InsertSale, PostBillLine,
                   PostLine, ReadUsage, Posted, CommitSale, CommitVoid
    <3> QED  BY <1>2, <2>1, <3>1
  <2>2. CASE ~FailBill(r)
    BY <1>4, <1>5, <1>6, <1>7, <1>10, <2>2 DEF Progress
  <2> QED  BY <2>1, <2>2
<1>11. ASSUME NEW r \in Requests, AbortBill(r)
       PROVE  LimitInv'
  BY <1>2, <1>11 DEF AbortBill, Busy
<1> QED  BY <1>3, <1>9, <1>10, <1>11 DEF Next, BillingNext, Quiet

\* The guard is checked once, before the counter is written, and nothing locks
\* the counter in between (assert_can_bill): for a tenant whose limit does not
\* change, a month takes at most Workers - 1 bills over it while it lasts and
\* Workers more once it is over.
THEOREM LimitOvershoot ==
  ASSUME OwnLike, NoVoids, FixedPrefix, OneLimit
  PROVE  Spec => []LimitOvershootBounded
<1>1. TypeInv /\ NumberInv /\ CounterInv /\ LimitInv /\ [Next]_vars
        => (TypeInv /\ NumberInv /\ CounterInv /\ LimitInv)'
  BY TypeInvStep, NumberInvStep, CounterInvStep, LimitInvStep
<1>2. TypeInv /\ LimitInv => LimitOvershootBounded
  <2> SUFFICES ASSUME TypeInv, LimitInv, NEW m \in Months, EffectiveLimit # 0
               PROVE  ActiveBills(m) <=
                        EffectiveLimit + (IF month > m THEN 2 * Workers - 1 ELSE Workers - 1)
    BY DEF LimitOvershootBounded
  <2>1. BillsOf(m) \subseteq Promised(m)
    BY DEF BillsOf, Promised
  <2>2. ActiveBills(m) = Cardinality(BillsOf(m))
    BY DEF ActiveBills, BillsOf
  <2>3. /\ Cardinality(BillsOf(m)) \in Nat /\ Cardinality(Promised(m)) \in Nat
        /\ Cardinality(BillsOf(m)) <= Cardinality(Promised(m))
    BY <2>1, SetsFinite, FS_Subset
  <2>4. EffectiveLimit \in Nat /\ Workers \in Nat /\ month \in Nat /\ m \in Nat
    BY LedgerAssumption, BillingAssumption DEF TypeInv, TypeOK, BillingTypeOK, EffectiveLimit, Months
  <2> QED  BY <2>2, <2>3, <2>4 DEF LimitInv, PromisedBounded
<1> QED  BY <1>1, <1>2, TypeInvInit, NumberInvInit, CounterInvInit, LimitInvInit, PTL DEF Spec
=============================================================================
