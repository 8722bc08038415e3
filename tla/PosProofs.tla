------------------------------ MODULE PosProofs ------------------------------
(***************************************************************************)
(* Theorems about the point of sale as a whole, whatever runs side by      *)
(* side: its types, its sales, the stock it shows, the ledger it keeps,    *)
(* what its reversals give back and when its counter drifts.               *)
(***************************************************************************)
EXTENDS Pos, StockProofs

-----------------------------------------------------------------------------
(* Type correctness *)

PosTypeInv == TypeInv /\ StockroomTypeOK

LEMMA PosTypeInit == PosInit => PosTypeInv
BY TypeInvInit DEF PosInit, PosTypeInv, StockroomInit, StockroomTypeOK

LEMMA BillingUnchanged ==
  ASSUME BillingTypeOK, UNCHANGED billVars
  PROVE  BillingTypeOK'
BY DEF BillingTypeOK, billVars

LEMMA StockroomTypeStep ==
  ASSUME PosTypeInv, StockroomStep
  PROVE  PosTypeInv'
<1> USE DEF PosTypeInv, TypeInv, TypeOK
<1>0. BillingTypeOK'
  BY BillingUnchanged DEF StockroomStep
<1>1. ASSUME NEW r \in Requests, StartStockTask(r)
      PROVE  LedgerTypeOK' /\ SessionOK' /\ StockroomTypeOK'
  <2>0. <<>> \in Seq(Line) /\ "posting" \in {"began", "posting"}
    OBVIOUS
  <2>1. ASSUME NEW delivery \in Deliveries, OpenPurchase(r, delivery)
        PROVE  LedgerTypeOK' /\ SessionOK' /\ StockroomTypeOK'
    <3>1. delivery \in Seq(Line)
      BY StockroomAssumption
    <3>2. Open(r, "purchase", r, delivery, delivery, "posting") /\ UNCHANGED purchase_status
      BY <2>1 DEF OpenPurchase
    <3>3. "purchase" \in Operations /\ r \in Requests \cup {None} /\ "purchase" # "void"
      BY DEF Operations
    <3> QED  BY <2>0, <3>1, <3>2, <3>3, OpenType DEF StockroomTypeOK
  <2>2. ASSUME NEW d \in Requests, OpenCancel(r, d)
        PROVE  LedgerTypeOK' /\ SessionOK' /\ StockroomTypeOK'
    <3>1. Opposite(call[d].items) \in Seq(Line)
      BY OppositeType DEF LedgerTypeOK, Calls
    <3>2. Open(r, "cancel", d, <<>>, Opposite(call[d].items), "posting") /\ UNCHANGED purchase_status
      BY <2>2 DEF OpenCancel
    <3>3. "cancel" \in Operations /\ d \in Requests \cup {None} /\ "cancel" # "void"
      BY DEF Operations
    <3> QED  BY <2>0, <3>1, <3>2, <3>3, OpenType DEF StockroomTypeOK
  <2>3. ASSUME NEW p \in Products, NEW delta \in Deltas, OpenAdjust(r, p, delta)
        PROVE  LedgerTypeOK' /\ SessionOK' /\ StockroomTypeOK'
    <3>1. <<[product |-> p, quantity |-> delta]>> \in Seq(Line)
      BY StockroomAssumption DEF Line
    <3>2. /\ Open(r, "adjust", None, <<>>, <<[product |-> p, quantity |-> delta]>>, "posting")
          /\ UNCHANGED purchase_status
      BY <2>3 DEF OpenAdjust
    <3>3. "adjust" \in Operations /\ None \in Requests \cup {None} /\ "adjust" # "void"
      BY DEF Operations
    <3> QED  BY <2>0, <3>1, <3>2, <3>3, OpenType DEF StockroomTypeOK
  <2> QED  BY <1>1, <2>1, <2>2, <2>3 DEF StartStockTask
<1>2. ASSUME NEW r \in Requests, PostStockLine(r)
      PROVE  LedgerTypeOK' /\ SessionOK' /\ StockroomTypeOK'
  <2>1. call[r].op \in Operations /\ PostLine(r) /\ UNCHANGED purchase_status
    BY <1>2 DEF PostStockLine, StockroomOps, Operations
  <2> QED  BY <2>1, PostLineType DEF StockroomTypeOK
<1>3. ASSUME NEW r \in Requests, CommitPurchase(r) \/ CommitCancel(r) \/ CommitAdjust(r)
      PROVE  LedgerTypeOK' /\ SessionOK' /\ StockroomTypeOK'
  <2>1. Commit(r) /\ StockroomTypeOK'
    BY <1>3 DEF CommitPurchase, CommitCancel, CommitAdjust, StockroomTypeOK
  <2> QED  BY <2>1, CommitType
<1>4. ASSUME NEW r \in Requests, AbortStockTask(r)
      PROVE  LedgerTypeOK' /\ SessionOK' /\ StockroomTypeOK'
  BY <1>4, RollBackType DEF AbortStockTask, StockroomTypeOK
<1> QED  BY <1>0, <1>1, <1>2, <1>3, <1>4 DEF StockroomStep, StockroomNext, StockProgress

LEMMA PosTypeStep ==
  ASSUME PosTypeInv, [PosNext]_posVars
  PROVE  PosTypeInv'
<1>1. CASE BillingStep
  BY <1>1, TypeInvStep DEF BillingStep, Next, PosTypeInv, StockroomTypeOK
<1>2. CASE StockroomStep
  BY <1>2, StockroomTypeStep
<1>3. CASE (Quiet /\ UNCHANGED purchase_status) \/ UNCHANGED posVars
  <2>1. UNCHANGED vars /\ UNCHANGED purchase_status
    BY <1>3 DEF Quiet, posVars
  <2> QED  BY <2>1, TypeInvStep DEF PosTypeInv, StockroomTypeOK
<1> QED  BY <1>1, <1>2, <1>3 DEF PosNext

\* Stock, sessions, bills and purchases are well typed, whatever billing and the
\* stock keepers do side by side (create_sale, void_invoice, create_purchase,
\* cancel_purchase, adjust).
THEOREM PosTypeCorrect == PosSpec => []PosTypeOK
<1>1. PosTypeInv => PosTypeOK
  BY DEF PosTypeInv, TypeInv, PosTypeOK
<1> QED  BY <1>1, PosTypeInit, PosTypeStep, PTL DEF PosSpec
-----------------------------------------------------------------------------
(* Sales and reversals beside the stock keepers *)

PurchasesDone == \A d \in Requests : purchase_status[d] # "unsaved" => pc[d] = "done"

StartsStock(r) ==
  \/ \E delivery \in Deliveries : Starts(r, "purchase", r, delivery, delivery)
  \/ \E d \in Requests : /\ purchase_status[d] = "active"
                         /\ Starts(r, "cancel", d, <<>>, Opposite(call[d].items))
  \/ \E p \in Products, delta \in Deltas :
       Starts(r, "adjust", None, <<>>, <<[product |-> p, quantity |-> delta]>>)

WritesStock(r) ==
  /\ Writes(r)
  /\ UNCHANGED sale_status
  /\ \/ call[r].op = "purchase" /\ purchase_status' = [purchase_status EXCEPT ![r] = "active"]
     \/ call[r].op = "cancel" /\ purchase_status' = [purchase_status EXCEPT ![call[r].ref] = "cancelled"]
     \/ call[r].op = "adjust" /\ UNCHANGED purchase_status

LEMMA StockShapes ==
  ASSUME StockroomStep
  PROVE  \E r \in Requests :
           \/ (StartsStock(r) \/ Posts(r) \/ Leaves(r)) /\ UNCHANGED purchase_status
           \/ WritesStock(r)
<1>0. UNCHANGED sale_status
  BY DEF StockroomStep, billVars
<1>1. ASSUME NEW r \in Requests, StartStockTask(r)
      PROVE  StartsStock(r) /\ UNCHANGED purchase_status
  <2>1. ASSUME NEW delivery \in Deliveries, OpenPurchase(r, delivery)
        PROVE  StartsStock(r) /\ UNCHANGED purchase_status
    BY <1>0, <2>1 DEF OpenPurchase, StartsStock, Starts
  <2>2. ASSUME NEW d \in Requests, OpenCancel(r, d)
        PROVE  StartsStock(r) /\ UNCHANGED purchase_status
    BY <1>0, <2>2 DEF OpenCancel, StartsStock, Starts
  <2>3. ASSUME NEW p \in Products, NEW delta \in Deltas, OpenAdjust(r, p, delta)
        PROVE  StartsStock(r) /\ UNCHANGED purchase_status
    <3>1. /\ Starts(r, "adjust", None, <<>>, <<[product |-> p, quantity |-> delta]>>)
          /\ UNCHANGED purchase_status
      BY <1>0, <2>3 DEF OpenAdjust, Starts
    <3> QED  BY <3>1 DEF StartsStock
  <2> QED  BY <1>1, <2>1, <2>2, <2>3 DEF StartStockTask
<1>2. ASSUME NEW r \in Requests, PostStockLine(r)
      PROVE  Posts(r) /\ UNCHANGED purchase_status
  BY <1>0, <1>2 DEF PostStockLine, Posts, StockroomOps, Operations
<1>3. ASSUME NEW r \in Requests, CommitPurchase(r) \/ CommitCancel(r) \/ CommitAdjust(r)
      PROVE  WritesStock(r)
  BY <1>0, <1>3 DEF CommitPurchase, CommitCancel, CommitAdjust, WritesStock, Writes, Posted, Busy
<1>4. ASSUME NEW r \in Requests, AbortStockTask(r)
      PROVE  Leaves(r) /\ UNCHANGED purchase_status
  BY <1>0, <1>4 DEF AbortStockTask, Leaves
<1> QED  BY <1>1, <1>2, <1>3, <1>4 DEF StockroomStep, StockroomNext, StockProgress

LEMMA StockWhole ==
  ASSUME PosTypeInv, WholeInv, PurchasesDone, StockroomStep
  PROVE  WholeInv'
<1> USE DEF PosTypeInv
<1>1. ASSUME NEW r \in Requests, NEW delivery \in Deliveries,
             Starts(r, "purchase", r, delivery, delivery)
      PROVE  WholeInv'
  <2>1. delivery \in Seq(Line)
    BY StockroomAssumption
  <2> QED  BY <1>1, <2>1, StartsWhole
<1>2. ASSUME NEW r \in Requests, NEW d \in Requests, purchase_status[d] = "active",
             Starts(r, "cancel", d, <<>>, Opposite(call[d].items))
      PROVE  WholeInv'
  <2>1. call[d].items \in Seq(Line)
    BY DEF TypeInv, TypeOK, LedgerTypeOK, Calls
  <2>2. pc[d] = "done"
    BY <1>2 DEF PurchasesDone
  <2>3. /\ Opposite(call[d].items) \in Seq(Line)
        /\ \A p \in Products : QuantityIn(Opposite(call[d].items), p) = -QuantityIn(call[d].items, p)
    BY <2>1, OppositeType, QuantityOpposite
  <2> QED  BY <1>2, <2>2, <2>3, StartsWhole
<1>3. ASSUME NEW r \in Requests, NEW p \in Products, NEW delta \in Deltas,
             Starts(r, "adjust", None, <<>>, <<[product |-> p, quantity |-> delta]>>)
      PROVE  WholeInv'
  <2>1. PICK moves : moves = <<[product |-> p, quantity |-> delta]>>
    OBVIOUS
  <2>2. moves \in Seq(Line)
    BY <2>1, StockroomAssumption DEF Line
  <2>3. Starts(r, "adjust", None, <<>>, moves)
    BY <1>3, <2>1
  <2> QED  BY <2>2, <2>3, StartsWhole
<1>4. ASSUME NEW r \in Requests, WritesStock(r)
      PROVE  WholeInv'
  <2>1. Writes(r) /\ call[r].op # "sale" /\ Saved' = Saved
    BY <1>4 DEF WritesStock, Saved
  <2> QED  BY <2>1, WritesWhole
<1>5. PICK r \in Requests : \/ StartsStock(r) \/ Posts(r) \/ Leaves(r)
                            \/ WritesStock(r)
  BY StockShapes
<1>6. StartsStock(r) => WholeInv'
  BY <1>1, <1>2, <1>3 DEF StartsStock
<1>7. Posts(r) \/ Leaves(r) => WholeInv'
  BY PostsWhole, LeavesWhole
<1> QED  BY <1>4, <1>5, <1>6, <1>7

\* Whose step it is, and that what is over stays over.
LEMMA PosShapes ==
  ASSUME [PosNext]_posVars
  PROVE  \/ (BillingNext \/ UNCHANGED vars) /\ UNCHANGED purchase_status
         \/ StockroomStep
BY DEF PosNext, BillingStep, Quiet, posVars

LEMMA ShapesKeepDone ==
  ASSUME PosTypeInv, NEW r \in Requests,
         \/ \E op, ref, items, moves : Starts(r, op, ref, items, moves)
         \/ Goes(r) \/ Posts(r) \/ Leaves(r) \/ Writes(r)
  PROVE  /\ \A q \in Requests : pc[q] = "done" => pc'[q] = "done" /\ call'[q] = call[q]
         /\ \A q \in Requests \ {r} : pc'[q] = pc[q] /\ call'[q] = call[q]
         /\ Writes(r) => pc'[r] = "done"
<1> USE DEF PosTypeInv, TypeInv, TypeOK, LedgerTypeOK
<1>1. ASSUME NEW op, NEW ref, NEW items, NEW moves, Starts(r, op, ref, items, moves)
      PROVE  pc[r] # "done" /\ ~Writes(r)
             /\ \A q \in Requests \ {r} : pc'[q] = pc[q] /\ call'[q] = call[q]
  BY <1>1 DEF Starts, Open, Writes, Busy
<1>2. CASE Goes(r)
  <2>1. pc[r] # "done" /\ \A q \in Requests \ {r} : pc'[q] = pc[q] /\ call'[q] = call[q]
    BY <1>2 DEF Goes, Busy
  <2>2. Writes(r) => pc'[r] = "done"
    BY DEF Writes, Commit
  <2> QED  BY <2>1, <2>2
<1>3. CASE Posts(r)
  <2>1. pc' = pc /\ call' = call /\ pc[r] = "posting"
    BY <1>3 DEF Posts, PostLine
  <2>2. Writes(r) => pc'[r] = "done"
    BY DEF Writes, Commit
  <2> QED  BY <2>1, <2>2
<1>4. CASE Leaves(r)
  <2>1. pc[r] # "done" /\ \A q \in Requests \ {r} : pc'[q] = pc[q] /\ call'[q] = call[q]
    BY <1>4 DEF Leaves, RollBack, Busy
  <2>2. Writes(r) => pc'[r] = "done"
    BY DEF Writes, Commit
  <2> QED  BY <2>1, <2>2
<1>5. CASE Writes(r)
  BY <1>5 DEF Writes, Commit, Busy
<1> QED  BY <1>1, <1>2, <1>3, <1>4, <1>5

LEMMA PurchasesDoneStep ==
  ASSUME PosTypeInv, PurchasesDone, WholeInv, [PosNext]_posVars
  PROVE  PurchasesDone'
<1> USE DEF PosTypeInv
<1>1. ASSUME (BillingNext \/ UNCHANGED vars) /\ UNCHANGED purchase_status
      PROVE  PurchasesDone'
  <2>1. CASE Idles
    BY <1>1, <2>1 DEF Idles, PurchasesDone
  <2>2. CASE ~Idles
    <3>1. \A q \in Requests : pc[q] = "done" => pc'[q] = "done"
      BY <1>1, <2>2, BillShapes, ShapesKeepDone DEF WritesBill
    <3> QED  BY <1>1, <3>1 DEF PurchasesDone
  <2> QED  BY <2>1, <2>2
<1>2. ASSUME StockroomStep
      PROVE  PurchasesDone'
  <2>1. PICK r \in Requests :
          \/ (StartsStock(r) \/ Posts(r) \/ Leaves(r)) /\ UNCHANGED purchase_status
          \/ WritesStock(r)
    BY <1>2, StockShapes
  <2>2. \/ \E op, ref, items, moves : Starts(r, op, ref, items, moves)
        \/ Posts(r) \/ Leaves(r) \/ Writes(r)
    BY <2>1 DEF StartsStock, WritesStock
  <2>3. /\ \A q \in Requests : pc[q] = "done" => pc'[q] = "done"
        /\ Writes(r) => pc'[r] = "done"
    BY <2>2, ShapesKeepDone
  <2>4. CASE UNCHANGED purchase_status
    BY <2>3, <2>4 DEF PurchasesDone
  <2>5. CASE WritesStock(r) /\ call[r].op = "purchase"
    BY <2>3, <2>5 DEF PurchasesDone, WritesStock, StockroomTypeOK
  <2>6. CASE WritesStock(r) /\ call[r].op = "cancel"
    <3>1. pc[call[r].ref] = "done"
      BY <2>6 DEF WholeInv, SessionWhole, Refers
    <3> QED  BY <2>3, <2>6, <3>1 DEF PurchasesDone, WritesStock, StockroomTypeOK
  <2> QED  BY <2>1, <2>4, <2>5, <2>6 DEF WritesStock
<1> QED  BY <1>1, <1>2, PosShapes

PosWhole == PosTypeInv /\ WholeInv /\ PurchasesDone

LEMMA PosWholeInit == PosInit => PosWhole
BY PosTypeInit, WholeInit DEF PosInit, StockroomInit, PurchasesDone, PosWhole

LEMMA PosWholeStep == PosWhole /\ [PosNext]_posVars => PosWhole'
<1> SUFFICES ASSUME PosWhole, [PosNext]_posVars PROVE PosWhole'
  OBVIOUS
<1>1. PosTypeInv /\ WholeInv /\ PurchasesDone
  BY DEF PosWhole
<1>2. PosTypeInv'
  BY <1>1, PosTypeStep
<1>3. WholeInv'
  <2>1. TypeInv
    BY <1>1 DEF PosTypeInv
  <2> QED  BY <1>1, <2>1, PosShapes, BillWhole, StockWhole
<1>4. PurchasesDone'
  BY <1>1, PurchasesDoneStep
<1> QED  BY <1>2, <1>3, <1>4 DEF PosWhole

\* A sale stays whole when stock keepers receive, cancel and adjust beside it
\* (create_sale, "Atomic write").
THEOREM SalesWholeBesideStock == PosSpec => []SaleWrittenWhole
<1>1. PosWhole => SaleWrittenWhole
  BY DEF PosWhole, WholeInv
<1> QED  BY <1>1, PosWholeInit, PosWholeStep, PTL DEF PosSpec

-----------------------------------------------------------------------------
(* The stock a product shows, beside the stock keepers *)

\* schemas/purchase.py: the quantity of a line is greater than zero.
PositiveDeliveries == \A delivery \in Deliveries : \A i \in DOMAIN delivery : delivery[i].quantity > 0

\* schemas/inventory.py accepts a delta of zero, whose row may end a ledger
\* with a balance that a concurrent movement has left behind.
DeltasMove == 0 \notin Deltas

\* What is saved as a purchase, and what is being cancelled, is one.
PurchasesKnown ==
  \A d \in Requests :
    /\ purchase_status[d] # "unsaved" => call[d].op = "purchase"
    /\ call[d].op = "cancel" => purchase_status[call[d].ref] # "unsaved"

LEMMA PurchasesKnownKept ==
  ASSUME PosWhole, PurchasesKnown, NEW r \in Requests,
         \A q \in Requests : pc[q] = "done" => call'[q] = call[q],
         \A q \in Requests \ {r} : call'[q] = call[q],
         \A q \in Requests : purchase_status[q] # "unsaved" => purchase_status'[q] # "unsaved",
         \A q \in Requests \ {r} : purchase_status[q] = "unsaved" => purchase_status'[q] = "unsaved",
         purchase_status'[r] # "unsaved" => call'[r].op = "purchase",
         call'[r].op = "cancel" => \/ purchase_status[call'[r].ref] # "unsaved" /\ call'[r].ref \in Requests
                                   \/ call'[r] = call[r]
  PROVE  PurchasesKnown'
<1>1. ASSUME NEW d \in Requests, call[d].op = "cancel"
      PROVE  call[d].ref \in Requests /\ purchase_status'[call[d].ref] # "unsaved"
  BY <1>1 DEF PurchasesKnown, PosWhole, WholeInv, SessionWhole, Refers
<1> QED  BY <1>1 DEF PurchasesKnown

LEMMA PurchasesKnownStep ==
  ASSUME PosWhole, PurchasesKnown, [PosNext]_posVars
  PROVE  PurchasesKnown'
<1> USE DEF PosWhole, PosTypeInv
<1>0. /\ \A q \in Requests : pc[q] = "done" \/ purchase_status[q] = "unsaved"
      /\ \A q \in Requests : call[q].op = "cancel" => call[q].ref \in Requests
  BY DEF PurchasesDone, WholeInv, SessionWhole, Refers
<1>1. ASSUME NEW r \in Requests, NEW op, NEW ref, NEW items, NEW moves,
             Starts(r, op, ref, items, moves), UNCHANGED purchase_status,
             op = "cancel" => ref \in Requests /\ purchase_status[ref] # "unsaved"
      PROVE  PurchasesKnown'
  <2>1. call'[r] = [op |-> op, ref |-> ref, items |-> items] /\ pc[r] = "idle"
    BY <1>1 DEF Starts, Open, TypeInv, TypeOK, LedgerTypeOK
  <2>2. /\ \A q \in Requests : pc[q] = "done" => call'[q] = call[q]
        /\ \A q \in Requests \ {r} : call'[q] = call[q]
    BY <1>1, ShapesKeepDone
  <2>3. purchase_status'[r] = "unsaved"
    BY <1>0, <1>1, <2>1
  <2> HIDE DEF PosWhole
  <2> QED  BY <1>1, <2>1, <2>2, <2>3, PurchasesKnownKept
<1>2. ASSUME NEW r \in Requests, Goes(r) \/ Posts(r), UNCHANGED purchase_status
      PROVE  PurchasesKnown'
  <2>1. call' = call
    BY <1>2 DEF Goes, Posts, PostLine
  <2> QED  BY <1>2, <2>1 DEF PurchasesKnown
<1>3. ASSUME NEW r \in Requests, Leaves(r), UNCHANGED purchase_status
      PROVE  PurchasesKnown'
  <2>1. r \in Busy /\ call'[r] = NoCall
    BY <1>3 DEF Leaves, RollBack, TypeInv, TypeOK, LedgerTypeOK
  <2>2. /\ \A q \in Requests : pc[q] = "done" => call'[q] = call[q]
        /\ \A q \in Requests \ {r} : call'[q] = call[q]
    BY <1>3, ShapesKeepDone
  <2>3. purchase_status'[r] = "unsaved" /\ call'[r].op # "cancel"
    BY <1>0, <1>3, <2>1 DEF Busy, NoCall
  <2> HIDE DEF PosWhole
  <2> QED  BY <1>3, <2>2, <2>3, PurchasesKnownKept
<1>4. ASSUME NEW r \in Requests, WritesBill(r), UNCHANGED purchase_status
      PROVE  PurchasesKnown'
  BY <1>4 DEF WritesBill, Writes, Commit, PurchasesKnown
<1>5. ASSUME NEW r \in Requests, WritesStock(r)
      PROVE  PurchasesKnown'
  <2>1. call' = call
    BY <1>5 DEF WritesStock, Writes, Commit
  <2>2. CASE call[r].op = "purchase"
    BY <1>0, <1>5, <2>1, <2>2 DEF WritesStock, PurchasesKnown, StockroomTypeOK
  <2>3. CASE call[r].op = "cancel"
    <3>1. PICK d \in Requests : d = call[r].ref /\ purchase_status[d] # "unsaved"
      BY <1>0, <2>3 DEF PurchasesKnown
    <3>2. purchase_status' = [purchase_status EXCEPT ![d] = "cancelled"]
      BY <1>5, <2>3, <3>1 DEF WritesStock
    <3> QED  BY <1>0, <2>1, <3>1, <3>2 DEF PurchasesKnown, StockroomTypeOK
  <2>4. CASE UNCHANGED purchase_status
    BY <2>1, <2>4 DEF PurchasesKnown
  <2> QED  BY <1>5, <2>2, <2>3, <2>4 DEF WritesStock
<1>6. ASSUME (BillingNext \/ UNCHANGED vars) /\ UNCHANGED purchase_status
      PROVE  PurchasesKnown'
  <2>1. CASE Idles
    BY <1>6, <2>1 DEF Idles, PurchasesKnown
  <2>2. ASSUME NEW r \in Requests, NEW cart \in Carts, Starts(r, "sale", r, cart, Opposite(cart))
        PROVE  PurchasesKnown'
    BY <1>1, <1>6, <2>2
  <2>3. ASSUME NEW r \in Requests, NEW s \in Requests, Starts(r, "void", s, <<>>, call[s].items)
        PROVE  PurchasesKnown'
    BY <1>1, <1>6, <2>3
  <2> QED  BY <1>2, <1>3, <1>4, <1>6, <2>1, <2>2, <2>3, BillShapes
<1>7. ASSUME StockroomStep
      PROVE  PurchasesKnown'
  <2>1. PICK r \in Requests :
          \/ (StartsStock(r) \/ Posts(r) \/ Leaves(r)) /\ UNCHANGED purchase_status
          \/ WritesStock(r)
    BY <1>7, StockShapes
  <2>2. CASE StartsStock(r) /\ UNCHANGED purchase_status
    <3>1. PICK op, ref, items, moves :
            /\ Starts(r, op, ref, items, moves)
            /\ op = "cancel" => ref \in Requests /\ purchase_status[ref] # "unsaved"
      <4>1. CASE \E delivery \in Deliveries : Starts(r, "purchase", r, delivery, delivery)
        BY <4>1
      <4>2. CASE \E d \in Requests : /\ purchase_status[d] = "active"
                                     /\ Starts(r, "cancel", d, <<>>, Opposite(call[d].items))
        BY <4>2
      <4>3. CASE \E p \in Products, delta \in Deltas :
                   Starts(r, "adjust", None, <<>>, <<[product |-> p, quantity |-> delta]>>)
        BY <4>3
      <4> QED  BY <2>2, <4>1, <4>2, <4>3 DEF StartsStock
    <3> QED  BY <1>1, <2>2, <3>1
  <2> QED  BY <1>2, <1>3, <1>5, <2>1, <2>2
<1> QED  BY <1>6, <1>7, PosShapes

LEMMA StockroomMirrors ==
  ASSUME PositiveDeliveries, DeltasMove, PosWhole, PurchasesKnown, StockInv, StockroomStep
  PROVE  StockInv'
<1>0. TypeInv
  BY DEF PosWhole, PosTypeInv
<1>1. ASSUME NEW r \in Requests, NEW delivery \in Deliveries,
             Starts(r, "purchase", r, delivery, delivery)
      PROVE  StockInv'
  BY <1>0, <1>1, StartsMirrors DEF PositiveDeliveries
<1>2. ASSUME NEW r \in Requests, NEW d \in Requests, purchase_status[d] = "active",
             Starts(r, "cancel", d, <<>>, Opposite(call[d].items))
      PROVE  StockInv'
  <2>1. PICK lines \in Seq(Line) : lines = call[d].items
    BY <1>0 DEF TypeInv, TypeOK, LedgerTypeOK, Calls
  <2>2. \A i \in DOMAIN lines : lines[i].quantity > 0 /\ lines[i] \in Line
    BY <1>2, <2>1 DEF PurchasesKnown, StockInv, SessionMirrors, PositiveLines
  <2>3. \A i \in DOMAIN Opposite(lines) : Opposite(lines)[i].quantity < 0
    <3>1. \A i \in DOMAIN lines : lines[i].quantity \in Int /\ lines[i].quantity > 0
      BY <2>2 DEF Line
    <3>2. /\ DOMAIN Opposite(lines) = DOMAIN lines
          /\ \A i \in DOMAIN lines : Opposite(lines)[i].quantity = -lines[i].quantity
      BY OppositeLines
    <3> QED  BY <3>1, <3>2
  <2> QED  BY <1>0, <1>2, <2>1, <2>3, StartsMirrors
<1>3. ASSUME NEW r \in Requests, NEW p \in Products, NEW delta \in Deltas,
             Starts(r, "adjust", None, <<>>, <<[product |-> p, quantity |-> delta]>>)
      PROVE  StockInv'
  <2>1. PICK moves : moves = <<[product |-> p, quantity |-> delta]>>
    OBVIOUS
  <2>2. DOMAIN moves = {1} /\ moves[1].quantity = delta
    BY <2>1
  <2>3. delta > 0 \/ delta < 0
    BY StockroomAssumption DEF DeltasMove
  <2>4. Starts(r, "adjust", None, <<>>, moves)
    BY <1>3, <2>1
  <2> QED  BY <1>0, <2>2, <2>3, <2>4, StartsMirrors
<1>4. PICK r \in Requests : StartsStock(r) \/ Posts(r) \/ Leaves(r) \/ WritesStock(r)
  BY StockShapes
<1>5. StartsStock(r) => StockInv'
  BY <1>1, <1>2, <1>3 DEF StartsStock
<1> QED  BY <1>0, <1>4, <1>5, PostsMirrors, LeavesMirrors, WritesMirrors DEF WritesStock

\* docs/06, "current_stock maintained from inventory transactions": sales, voids,
\* deliveries, cancellations and adjustments overwrite each other, and a product
\* still shows the balance of the row committed last for it.
THEOREM StockShownBesideStock ==
  ASSUME PositiveCarts, PositiveDeliveries, DeltasMove
  PROVE  PosSpec => []StockIsLastBalance
<1>1. PosInit => PurchasesKnown /\ StockInv
  BY StockInvInit DEF PosInit, StockroomInit, Init, LedgerInit, NoCall, PurchasesKnown
<1>2. PosWhole => TypeInv /\ WholeInv
  BY DEF PosWhole, PosTypeInv
<1>3. PosWhole /\ PurchasesKnown /\ StockInv /\ [PosNext]_posVars
        => (PosWhole /\ PurchasesKnown /\ StockInv)'
  BY <1>2, PosShapes, PosWholeStep, PurchasesKnownStep, BillMirrors, StockroomMirrors
<1>4. StockInv => StockIsLastBalance
  BY DEF StockInv, ShowsLastRow, StockIsLastBalance
<1> QED  BY <1>1, <1>3, <1>4, PosWholeInit, PTL DEF PosSpec

-----------------------------------------------------------------------------
(* The ledger, whatever runs side by side *)

\* The rows a session has added run on from a balance the product has shown, and
\* the last of them has the stock the session holds.
RowsRunOn(r, p) ==
  LET n == Len(rows[r][p])
  IN  /\ n = 0 => held[r][p] \in Perpetual!Shown(p) \cup {None}
      /\ n > 0 => /\ LoadedStock(r, p) \in Perpetual!Shown(p)
                  /\ \A i \in 2..n : rows[r][p][i].balance_after
                                       = rows[r][p][i - 1].balance_after + rows[r][p][i].quantity
                  /\ held[r][p] = rows[r][p][n].balance_after

LedgerInv ==
  /\ \A r \in Requests, p \in Products : RowsRunOn(r, p)
  /\ \A p \in Products : current_stock[p] \in Perpetual!Shown(p)

LEMMA LedgerInvInit == PosInit => LedgerInv /\ Perpetual!Init
<1> SUFFICES ASSUME PosInit PROVE LedgerInv /\ Perpetual!Init
  OBVIOUS
<1> USE DEF PosInit, Init, LedgerInit
<1>1. \A r \in Requests, p \in Products : RowsRunOn(r, p)
  BY DEF RowsRunOn, NoRows, Nothing
<1>2. \A p \in Products : ledger[p] = <<OpeningRow>> /\ current_stock[p] = OpeningStock
  OBVIOUS
<1>3. \A p \in Products : Len(ledger[p]) = 1 /\ ledger[p][1].balance_after = OpeningStock
  BY <1>2 DEF OpeningRow
<1>4. \A p \in Products : current_stock[p] \in Perpetual!Shown(p)
  BY <1>2, <1>3 DEF Perpetual!Shown
<1> QED  BY <1>1, <1>2, <1>3, <1>4 DEF LedgerInv, Perpetual!Init

\* Balances that have been shown stay in the ledger.
LEMMA RunsOnElsewhere ==
  ASSUME LedgerInv, NEW q \in Requests, held'[q] = held[q], rows'[q] = rows[q], NEW p \in Products,
         Perpetual!Shown(p) \subseteq Perpetual!Shown(p)'
  PROVE  RowsRunOn(q, p)'
BY DEF LedgerInv, RowsRunOn, LoadedStock

LedgerKept == UNCHANGED <<current_stock, ledger>>

\* A step of one session that writes no table.
LEMMA OwnLedgerStep ==
  ASSUME LedgerInv, LedgerKept, NEW r \in Requests,
         \A q \in Requests \ {r} : held'[q] = held[q] /\ rows'[q] = rows[q],
         \A p \in Products : RowsRunOn(r, p)'
  PROVE  LedgerInv'
<1>1. \A p \in Products : Perpetual!Shown(p)' = Perpetual!Shown(p) /\ current_stock'[p] = current_stock[p]
  BY DEF LedgerKept, Perpetual!Shown
<1>2. \A q \in Requests, p \in Products : RowsRunOn(q, p)'
  BY <1>1, RunsOnElsewhere
<1> QED  BY <1>1, <1>2 DEF LedgerInv

LEMMA QuietLedgerStep ==
  ASSUME LedgerInv, LedgerKept, UNCHANGED <<held, rows>>
  PROVE  LedgerInv'
<1>1. \A p \in Products : Perpetual!Shown(p)' = Perpetual!Shown(p) /\ current_stock'[p] = current_stock[p]
  BY DEF LedgerKept, Perpetual!Shown
<1>2. \A q \in Requests, p \in Products : RowsRunOn(q, p)'
  BY <1>1, RunsOnElsewhere
<1> QED  BY <1>1, <1>2 DEF LedgerInv

LEMMA GoesLedger ==
  ASSUME PosTypeInv, LedgerInv, NEW r \in Requests, Goes(r)
  PROVE  LedgerInv' /\ LedgerKept
<1>1. LedgerKept /\ rows' = rows
  BY DEF Goes, LedgerKept
<1>2. CASE held' = held
  BY <1>1, <1>2, QuietLedgerStep
<1>3. CASE LoadsShown(r)
  <2>1. ASSUME NEW p \in Products
        PROVE  RowsRunOn(r, p)'
    <3>1. rows'[r][p] = <<>> /\ held'[r][p] \in Perpetual!Shown(p) \cup {None}
      BY <1>1, <1>3 DEF LoadsShown, NoRows, LedgerInv
    <3>2. Perpetual!Shown(p)' = Perpetual!Shown(p)
      BY <1>1 DEF LedgerKept, Perpetual!Shown
    <3> QED  BY <3>1, <3>2 DEF RowsRunOn
  <2> QED  BY <1>1, <1>3, <2>1, OwnLedgerStep DEF LoadsShown
<1> QED  BY <1>1, <1>2, <1>3 DEF Goes

LEMMA LeavesLedger ==
  ASSUME PosTypeInv, LedgerInv, NEW r \in Requests, Leaves(r)
  PROVE  LedgerInv' /\ LedgerKept
<1> USE DEF PosTypeInv, TypeInv, TypeOK, LedgerTypeOK
<1>1. LedgerKept /\ held' = [held EXCEPT ![r] = Nothing] /\ rows' = [rows EXCEPT ![r] = NoRows]
  BY DEF Leaves, RollBack, CloseSession, LedgerKept
<1>2. \A p \in Products : RowsRunOn(r, p)'
  BY <1>1 DEF RowsRunOn, NoRows, Nothing
<1>3. \A q \in Requests \ {r} : held'[q] = held[q] /\ rows'[q] = rows[q]
  BY <1>1
<1> HIDE DEF PosTypeInv
<1> QED  BY <1>1, <1>2, <1>3, OwnLedgerStep

\* One turn of the item loop: the new row goes on from what the session holds, or
\* from the balance it has just read.
LEMMA PostsLedger ==
  ASSUME PosTypeInv, LedgerInv, NEW r \in Requests, Posts(r)
  PROVE  LedgerInv' /\ LedgerKept
<1> USE DEF PosTypeInv, TypeInv, TypeOK, LedgerTypeOK
<1>1. PICK line \in Line : line = Head(todo[r])
  BY DEF Posts, PostLine
<1>2. PICK p \in Products : p = line.product
  BY DEF Line
<1>3. line.quantity \in Int /\ SeenStock(r, p) \in Int
  BY DEF Line, SeenStock
<1>4. PICK b \in Int : b = SeenStock(r, p) + line.quantity
  BY <1>3
<1>5. PICK row \in Row : row = MovementRow(r, line)
  BY <1>2, <1>3, <1>4 DEF MovementRow, Row, Calls, Posts
<1>6. row.quantity = line.quantity /\ row.balance_after = b
  BY <1>2, <1>4, <1>5 DEF MovementRow
<1>7. /\ held' = [held EXCEPT ![r][p] = b]
      /\ rows' = [rows EXCEPT ![r][p] = Append(rows[r][p], row)]
      /\ LedgerKept
  BY <1>1, <1>2, <1>4, <1>5 DEF Posts, PostLine, LedgerKept
<1>8. RowsRunOn(r, p)'
  <2>1. PICK s \in Seq(Row) : s = rows[r][p]
    OBVIOUS
  <2>2. PICK n \in Nat : n = Len(s)
    BY <2>1
  <2>3. PICK t : t = Append(s, row)
    OBVIOUS
  <2>4. Len(t) = n + 1 /\ t[n + 1] = row /\ \A i \in 1..n : t[i] = s[i]
    BY <2>1, <2>2, <2>3
  <2>5. held'[r][p] = b /\ rows'[r][p] = t
    BY <1>7, <2>1, <2>3
  <2>6. RowsRunOn(r, p) /\ current_stock[p] \in Perpetual!Shown(p) /\ current_stock[p] \in Int
    BY DEF LedgerInv
  <2>7. Perpetual!Shown(p)' = Perpetual!Shown(p)
    BY <1>7 DEF LedgerKept, Perpetual!Shown
  <2>8. n > 0 => b = s[n].balance_after + row.quantity
    <3>1. SUFFICES ASSUME n > 0 PROVE b = s[n].balance_after + row.quantity
      OBVIOUS
    <3>2. held[r][p] = s[n].balance_after /\ s[n] \in Row
      BY <2>1, <2>2, <2>6, <3>1 DEF RowsRunOn
    <3>3. held[r][p] # None
      BY <3>2, LedgerAssumption DEF Row
    <3> QED  BY <1>4, <1>6, <3>2, <3>3 DEF SeenStock
  <2>9. t[1].balance_after - t[1].quantity \in Perpetual!Shown(p)
    <3>1. CASE n = 0
      <4>1. held[r][p] \in Perpetual!Shown(p) \cup {None}
        BY <2>1, <2>2, <2>6, <3>1 DEF RowsRunOn
      <4>2. SeenStock(r, p) \in Perpetual!Shown(p)
        BY <2>6, <4>1 DEF SeenStock
      <4>3. t[1].balance_after - t[1].quantity = SeenStock(r, p)
        BY <1>3, <1>4, <1>6, <2>4, <3>1
      <4> QED  BY <4>2, <4>3
    <3>2. CASE n > 0
      <4>1. 1 \in 1..n
        BY <2>2, <3>2
      <4>2. t[1] = s[1]
        BY <2>4, <4>1
      <4> QED  BY <2>1, <2>2, <2>6, <3>2, <4>2 DEF RowsRunOn, LoadedStock
    <3> QED  BY <2>2, <3>1, <3>2
  <2>10. \A i \in 2..n + 1 : t[i].balance_after = t[i - 1].balance_after + t[i].quantity
    <3> TAKE i \in 2..n + 1
    <3>1. CASE i = n + 1
      <4>1. t[i] = row /\ t[i - 1] = s[n] /\ n > 0
        BY <2>4, <3>1
      <4> QED  BY <1>6, <2>8, <4>1
    <3>2. CASE i # n + 1
      <4>1. i \in 2..n /\ t[i] = s[i] /\ t[i - 1] = s[i - 1]
        BY <2>4, <3>2
      <4> QED  BY <2>1, <2>2, <2>6, <4>1 DEF RowsRunOn
    <3> QED  BY <3>1, <3>2
  <2>11. t[n + 1].balance_after = b
    BY <1>6, <2>4
  <2>12. Len(rows'[r][p]) = n + 1 /\ n + 1 # 0
    BY <2>4, <2>5
  <2>13. LoadedStock(r, p)' = t[1].balance_after - t[1].quantity
    BY <2>5 DEF LoadedStock
  <2> QED  BY <2>5, <2>7, <2>9, <2>10, <2>11, <2>12, <2>13 DEF RowsRunOn
<1>9. ASSUME NEW t \in Products \ {p}
      PROVE  RowsRunOn(r, t)'
  <2>1. rows'[r][t] = rows[r][t] /\ held'[r][t] = held[r][t]
    BY <1>7
  <2>2. RowsRunOn(r, t) /\ Perpetual!Shown(t)' = Perpetual!Shown(t)
    BY <1>7 DEF LedgerInv, LedgerKept, Perpetual!Shown
  <2> QED  BY <2>1, <2>2 DEF RowsRunOn, LoadedStock
<1>10. \A t \in Products : RowsRunOn(r, t)'
  BY <1>8, <1>9
<1>11. \A q \in Requests \ {r} : held'[q] = held[q] /\ rows'[q] = rows[q]
  BY <1>7
<1> HIDE DEF PosTypeInv
<1> QED  BY <1>7, <1>10, <1>11, OwnLedgerStep

\* What a commit does to one product: its rows run on from the balance that the
\* session loaded, and it shows the last of them unless they come back to it.
LEMMA CommitRunsOn ==
  ASSUME PosTypeInv, LedgerInv, NEW r \in Requests, Writes(r), NEW p \in Products
  PROVE  /\ \E b \in Perpetual!Shown(p) : Perpetual!RunsOnFrom(b, p)
         /\ Perpetual!Shown(p) \subseteq Perpetual!Shown(p)'
         /\ current_stock'[p] \in Perpetual!Shown(p)'
         /\ \A i \in Perpetual!NewRows(p) : \E j \in DOMAIN rows[r][p] : ledger'[p][i] = rows[r][p][j]
<1> USE DEF PosTypeInv, TypeInv, TypeOK, LedgerTypeOK
<1>1. PICK s \in Seq(Row), t \in Seq(Row) : s = ledger[p] /\ t = rows[r][p]
  OBVIOUS
<1>2. PICK n \in Nat, k \in Nat : n = Len(s) /\ k = Len(t)
  BY <1>1
<1>3. PICK c : c = s \o t
  OBVIOUS
<1>4. /\ Len(c) = n + k /\ SubSeq(c, 1, n) = s
      /\ \A i \in 1..n : c[i] = s[i]
      /\ \A i \in 1..k : c[n + i] = t[i]
      /\ c \in Seq(Row)
  BY <1>1, <1>2, <1>3, ConcatParts
<1>5. /\ ledger'[p] = c
      /\ current_stock'[p] = IF p \in Dirty(r) THEN held[r][p] ELSE current_stock[p]
  BY <1>1, <1>3 DEF Writes, Commit, WriteMovements
<1>6. DOMAIN s = 1..n /\ DOMAIN c = 1..n + k /\ DOMAIN t = 1..k
  BY <1>1, <1>2, <1>4
<1>7. Perpetual!Shown(p) \subseteq Perpetual!Shown(p)'
  <2>1. Perpetual!Shown(p) = {s[i].balance_after : i \in 1..n}
    BY <1>1, <1>6 DEF Perpetual!Shown
  <2>2. Perpetual!Shown(p)' = {c[i].balance_after : i \in 1..n + k}
    BY <1>5, <1>6 DEF Perpetual!Shown
  <2>3. \A i \in 1..n : i \in 1..n + k /\ c[i] = s[i]
    BY <1>4
  <2> QED  BY <2>1, <2>2, <2>3
<1>8. RowsRunOn(r, p) /\ current_stock[p] \in Perpetual!Shown(p)
  BY DEF LedgerInv
<1>9. PICK b : b = IF k = 0 THEN current_stock[p] ELSE t[1].balance_after - t[1].quantity
  OBVIOUS
<1>10. b \in Perpetual!Shown(p)
  BY <1>1, <1>2, <1>8, <1>9 DEF RowsRunOn, LoadedStock
<1>11. \A i \in 1..k : t[i] \in Row /\ t[i].balance_after \in Int /\ t[i].quantity \in Int
  <2>1. \A i \in 1..k : t[i] \in Row
    BY <1>2
  <2> QED  BY <2>1 DEF Row
<1>12. k > 0 => /\ \A i \in 2..k : t[i].balance_after = t[i - 1].balance_after + t[i].quantity
                /\ held[r][p] = t[k].balance_after
                /\ t[1].balance_after = b + t[1].quantity
  <2>1. SUFFICES ASSUME k > 0
                 PROVE  /\ \A i \in 2..k : t[i].balance_after = t[i - 1].balance_after + t[i].quantity
                        /\ held[r][p] = t[k].balance_after
                        /\ t[1].balance_after = b + t[1].quantity
    OBVIOUS
  <2>2. /\ \A i \in 2..k : t[i].balance_after = t[i - 1].balance_after + t[i].quantity
        /\ held[r][p] = t[k].balance_after
    BY <1>1, <1>2, <1>8, <2>1 DEF RowsRunOn
  <2>3. t[1].balance_after = b + t[1].quantity
    <3>1. 1 \in 1..k /\ k # 0
      BY <2>1
    <3>2. t[1].balance_after \in Int /\ t[1].quantity \in Int
      BY <1>11, <3>1
    <3> QED  BY <1>9, <3>1, <3>2
  <2> QED  BY <2>2, <2>3
<1>13. \A i \in n + 1 .. n + k :
         /\ c[i].balance_after = (IF i = n + 1 THEN b ELSE c[i - 1].balance_after) + c[i].quantity
         /\ \E j \in 1..k : c[i] = t[j]
  <2> TAKE i \in n + 1 .. n + k
  <2>1. i - n \in 1..k /\ c[i] = t[i - n]
    <3>1. i - n \in 1..k /\ i = n + (i - n)
      BY <1>2
    <3> QED  BY <1>4, <3>1
  <2>2. CASE i = n + 1
    BY <1>12, <2>1, <2>2
  <2>3. CASE i # n + 1
    <3>1. i - n \in 2..k /\ c[i - 1] = t[(i - n) - 1]
      <4>1. i - n \in 2..k /\ (i - n) - 1 \in 1..k /\ i - 1 = n + ((i - n) - 1)
        BY <1>2, <2>3
      <4> QED  BY <1>4, <4>1
    <3> QED  BY <1>12, <2>1, <2>3, <3>1
  <2> QED  BY <2>1, <2>2, <2>3
<1>14. k > 0 => c[n + k] = t[k] /\ n + k \in 1..n + k
  BY <1>2, <1>4
<1>15. p \in Dirty(r) <=> k > 0 /\ t[k].balance_after # b
  <2>1. rows[r][p] # <<>> <=> k > 0
    BY <1>1, <1>2, EmptySequence
  <2>2. k > 0 => LoadedStock(r, p) = b
    BY <1>1, <1>9 DEF LoadedStock
  <2> QED  BY <1>12, <2>1, <2>2 DEF Dirty
<1>16. current_stock'[p] = IF n + k = n \/ c[n + k].balance_after = b
                           THEN current_stock[p] ELSE c[n + k].balance_after
  <2>1. n + k = n <=> ~(k > 0)
    BY <1>2
  <2>2. k > 0 => c[n + k].balance_after = t[k].balance_after
    BY <1>14
  <2> QED  BY <1>5, <1>12, <1>15, <2>1, <2>2
<1>17. current_stock'[p] \in Perpetual!Shown(p)'
  <2>1. k > 0 => c[n + k].balance_after \in Perpetual!Shown(p)'
    BY <1>5, <1>6, <1>14 DEF Perpetual!Shown
  <2> QED  BY <1>2, <1>7, <1>8, <1>16, <2>1
<1>18. Len(ledger[p]) = n /\ Len(ledger'[p]) = n + k /\ ledger[p] = s /\ ledger'[p] = c
  BY <1>1, <1>2, <1>4, <1>5
<1>19. Perpetual!RunsOnFrom(b, p)
  <2>1. n + k >= n
    BY <1>2
  <2> QED  BY <1>4, <1>13, <1>16, <1>18, <2>1 DEF Perpetual!RunsOnFrom, Perpetual!NewRows
<1>20. \A i \in Perpetual!NewRows(p) : \E j \in DOMAIN rows[r][p] : ledger'[p][i] = rows[r][p][j]
  <2>1. Perpetual!NewRows(p) = n + 1 .. n + k /\ rows[r][p] = t /\ DOMAIN t = 1..k
    BY <1>1, <1>6, <1>18 DEF Perpetual!NewRows
  <2> TAKE i \in Perpetual!NewRows(p)
  <2>2. PICK j \in 1..k : c[i] = t[j]
    BY <1>13, <2>1
  <2>3. j \in DOMAIN rows[r][p] /\ ledger'[p][i] = rows[r][p][j]
    BY <1>18, <2>1, <2>2
  <2> QED  BY <2>3
<1> QED  BY <1>7, <1>10, <1>17, <1>19, <1>20

LEMMA WritesLedger ==
  ASSUME PosWhole, LedgerInv, NEW r \in Requests, Writes(r)
  PROVE  LedgerInv' /\ Perpetual!Next
<1>1. /\ held' = [held EXCEPT ![r] = Nothing] /\ rows' = [rows EXCEPT ![r] = NoRows]
  BY DEF Writes, Commit, CloseSession
<1>2. PosTypeInv
  BY DEF PosWhole
<1>3. ASSUME NEW p \in Products
      PROVE  /\ \E b \in Perpetual!Shown(p) : Perpetual!RunsOnFrom(b, p)
             /\ Perpetual!Shown(p) \subseteq Perpetual!Shown(p)'
             /\ current_stock'[p] \in Perpetual!Shown(p)'
             /\ \A i \in Perpetual!NewRows(p) : \E j \in DOMAIN rows[r][p] : ledger'[p][i] = rows[r][p][j]
  BY <1>2, CommitRunsOn
<1>4. \A p \in Products : \A i \in Perpetual!NewRows(p) :
        ledger'[p][i].op = call[r].op /\ ledger'[p][i].ref_id = call[r].ref
  BY <1>3 DEF PosWhole, WholeInv, SessionWhole, NamesItsRows
<1>5. Perpetual!Next
  BY <1>3, <1>4 DEF Perpetual!Next, Perpetual!OneDocument
<1>6. ASSUME NEW p \in Products
      PROVE  RowsRunOn(r, p)'
  <2>1. rows'[r][p] = <<>> /\ held'[r][p] = None
    BY <1>1 DEF PosWhole, PosTypeInv, TypeInv, TypeOK, LedgerTypeOK, NoRows, Nothing
  <2> QED  BY <2>1 DEF RowsRunOn
<1>7. \A q \in Requests \ {r} : held'[q] = held[q] /\ rows'[q] = rows[q]
  BY <1>1 DEF PosWhole, PosTypeInv, TypeInv, TypeOK, LedgerTypeOK
<1>8. \A q \in Requests \ {r} : \A p \in Products : RowsRunOn(q, p)'
  BY <1>3, <1>7, RunsOnElsewhere
<1> QED  BY <1>3, <1>5, <1>6, <1>8 DEF LedgerInv

LEMMA LedgerStep ==
  ASSUME PosWhole, LedgerInv, [PosNext]_posVars
  PROVE  LedgerInv' /\ (LedgerKept \/ \E r \in Requests : Writes(r))
<1>0. PosTypeInv /\ TypeInv
  BY DEF PosWhole, PosTypeInv
<1>1. ASSUME NEW r \in Requests, NEW op, NEW ref, NEW items, NEW moves, Starts(r, op, ref, items, moves)
      PROVE  LedgerInv' /\ LedgerKept
  <2>1. LedgerKept /\ UNCHANGED <<held, rows>>
    BY <1>1 DEF Starts, Open, LedgerKept
  <2> QED  BY <2>1, QuietLedgerStep
<1>2. ASSUME Idles
      PROVE  LedgerInv' /\ LedgerKept
  BY <1>2, QuietLedgerStep DEF Idles, LedgerKept
<1>3. ASSUME NEW r \in Requests, Goes(r) \/ Posts(r) \/ Leaves(r)
      PROVE  LedgerInv' /\ LedgerKept
  BY <1>0, <1>3, GoesLedger, PostsLedger, LeavesLedger
<1>4. ASSUME NEW r \in Requests, Writes(r)
      PROVE  LedgerInv'
  BY <1>4, WritesLedger
<1>5. CASE BillingNext \/ UNCHANGED vars
  BY <1>0, <1>1, <1>2, <1>3, <1>4, <1>5, BillShapes DEF WritesBill
<1>6. CASE StockroomStep
  <2>1. PICK r \in Requests : StartsStock(r) \/ Posts(r) \/ Leaves(r) \/ WritesStock(r)
    BY <1>6, StockShapes
  <2>2. StartsStock(r) => LedgerInv' /\ LedgerKept
    BY <1>1 DEF StartsStock
  <2> QED  BY <1>3, <1>4, <2>1, <2>2 DEF WritesStock
<1> QED  BY <1>5, <1>6, PosShapes

\* docs/06, "balance_after gives running balance": whichever sessions overlap,
\* every handler that moves stock appends the rows of one document, which run on
\* from a balance the product has shown, and the product shows the last of them
\* (create_sale, void_invoice, create_purchase, cancel_purchase, adjust).
THEOREM LedgerIsPerpetual == PosSpec => ImplementsPerpetualLedger
<1>1. PosWhole /\ LedgerInv /\ [PosNext]_posVars
        => PosWhole' /\ LedgerInv' /\ [Perpetual!Next]_(Perpetual!LedgerVars)
  BY PosWholeStep, LedgerStep, WritesLedger DEF LedgerKept, Perpetual!LedgerVars
<1>2. PosInit => PosWhole /\ LedgerInv /\ Perpetual!Init
  BY PosWholeInit, LedgerInvInit
<1> QED  BY <1>1, <1>2, PTL DEF PosSpec, ImplementsPerpetualLedger, Perpetual!Spec

-----------------------------------------------------------------------------
(* Which movements are lost *)

\* Rows that run on from b come to what they make of it.
LEMMA RunningTotal ==
  ASSUME NEW t \in Seq(Row), NEW n \in Nat \ {0}, Len(t) = n, NEW b,
         b = t[1].balance_after - t[1].quantity,
         \A i \in 2..n : t[i].balance_after = t[i - 1].balance_after + t[i].quantity
  PROVE  TotalOf(t) = t[n].balance_after - b /\ b \in Int
<1>1. PICK q : q = Quantities(t)
  OBVIOUS
<1>2. DOMAIN t = 1..n /\ \A i \in 1..n : t[i] \in Row
  OBVIOUS
<1>3. \A i \in 1..n : q[i] = t[i].quantity /\ q[i] \in Int
  BY <1>1, <1>2 DEF Quantities, Row
<1>b. b \in Int /\ t[1].balance_after \in Int /\ t[1].quantity \in Int
  BY <1>2 DEF Row
<1> DEFINE Bad == {k \in 1..n : SumFunctionOnSet(q, 1..k) # t[k].balance_after - b}
<1>4. Bad = {}
  <2>1. SUFFICES ASSUME Bad # {} PROVE FALSE
    OBVIOUS
  <2>2. Bad \subseteq Int /\ IsFiniteSet(Bad)
    <3>1. IsFiniteSet(1..n)
      BY FS_Interval
    <3> QED  BY <3>1, FS_Subset
  <2> HIDE DEF Bad
  <2>3. PICK k \in Bad : \A j \in Bad : k <= j
    BY <2>1, <2>2, Least
  <2> USE DEF Bad
  <2>4. k \in 1..n /\ SumFunctionOnSet(q, 1..k) # t[k].balance_after - b
    BY <2>3
  <2>5. CASE k = 1
    <3>1. 1..k = {1} /\ q[1] = t[1].quantity /\ q[1] \in Int
      BY <1>3, <2>4, <2>5
    <3>2. SumFunctionOnSet(q, {1}) = q[1]
      BY <3>1, SumSingle
    <3> QED  BY <1>b, <2>4, <2>5, <3>1, <3>2
  <2>6. CASE k > 1
    <3>1. PICK j \in Nat : j = k - 1
      BY <2>4, <2>6
    <3>2. j \in 1..n /\ k \in 2..n /\ j < k /\ 1..k = (1..j) \cup {k} /\ k \notin 1..j
      BY <2>4, <2>6, <3>1
    <3>3. SumFunctionOnSet(q, 1..j) = t[j].balance_after - b
      <4>1. j \notin Bad
        BY <2>3, <2>4, <3>2
      <4> QED  BY <3>2, <4>1
    <3>4. SumFunctionOnSet(q, (1..j) \cup {k}) = q[k] + SumFunctionOnSet(q, 1..j)
      <4>1. PICK S : S = 1..j
        OBVIOUS
      <4>2. IsFiniteSet(S)
        <5>1. IsFiniteSet(1..j)
          BY FS_Interval
        <5> QED  BY <4>1, <5>1
      <4>3. k \notin S /\ \A i \in S \cup {k} : q[i] \in Int
        BY <1>3, <3>2, <4>1
      <4>4. SumFunctionOnSet(q, S \cup {k}) = q[k] + SumFunctionOnSet(q, S)
        BY <4>2, <4>3, SumAdd
      <4> QED  BY <4>1, <4>4
    <3>5. t[k].balance_after = t[j].balance_after + t[k].quantity
      BY <3>1, <3>2
    <3>6. t[j].balance_after \in Int /\ t[k].quantity \in Int /\ q[k] = t[k].quantity
      BY <1>2, <1>3, <3>2 DEF Row
    <3>7. SumFunctionOnSet(q, 1..k) = t[k].quantity + (t[j].balance_after - b)
      BY <3>2, <3>3, <3>4, <3>6
    <3>8. t[k].balance_after = t[k].quantity + t[j].balance_after
      BY <3>5, <3>6
    <3> QED  BY <1>b, <2>4, <3>6, <3>7, <3>8
  <2> QED  BY <2>4, <2>5, <2>6
<1>5. n \in 1..n
  OBVIOUS
<1>6. SumFunctionOnSet(q, 1..n) = t[n].balance_after - b
  BY <1>4, <1>5
<1> QED  BY <1>1, <1>2, <1>6, <1>b DEF TotalOf

LEMMA TotalConcat ==
  ASSUME NEW s \in Seq(Row), NEW t \in Seq(Row)
  PROVE  TotalOf(s \o t) = TotalOf(s) + TotalOf(t)
<1>1. PICK n \in Nat, k \in Nat : n = Len(s) /\ k = Len(t)
  OBVIOUS
<1>2. PICK c : c = s \o t
  OBVIOUS
<1>3. /\ DOMAIN s = 1..n /\ DOMAIN t = 1..k /\ DOMAIN c = 1..n + k
      /\ \A i \in 1..n : c[i] = s[i]
      /\ \A i \in 1..k : c[n + i] = t[i]
  BY <1>1, <1>2
<1>4. /\ \A i \in 1..n : s[i] \in Row
      /\ \A i \in 1..k : t[i] \in Row
  BY <1>3
<1>5. /\ \A i \in 1..n : s[i].quantity \in Int /\ c[i].quantity = s[i].quantity
      /\ \A i \in 1..k : t[i].quantity \in Int /\ c[n + i].quantity = t[i].quantity
  BY <1>3, <1>4 DEF Row
<1>6. UpTo(1..n, n) /\ UpTo(1..k, k)
  BY DEF UpTo
<1>7. 1..n + k = (1..n) \cup Shifted(n, 1..k)
  <2>1. \A j \in 1..n + k : j \in 1..n \/ \E i \in 1..k : j = n + i
    <3> TAKE j \in 1..n + k
    <3>1. j > n => j - n \in 1..k /\ j = n + (j - n)
      OBVIOUS
    <3> QED  BY <3>1
  <2>2. \A i \in 1..k : n + i \in 1..n + k
    OBVIOUS
  <2>3. \A i \in 1..n : i \in 1..n + k
    OBVIOUS
  <2> QED  BY <2>1, <2>2, <2>3 DEF Shifted
<1>8. /\ StartsWith(Quantities(c), Quantities(s), 1..n)
      /\ GoesOnWith(Quantities(c), n, Quantities(t), 1..k)
  <2>1. \A i \in 1..k : n + i \in 1..n + k
    OBVIOUS
  <2>2. \A i \in 1..n : i \in 1..n + k
    OBVIOUS
  <2>3. /\ \A i \in 1..n : Quantities(s)[i] \in Int /\ Quantities(c)[i] = Quantities(s)[i]
        /\ \A i \in 1..k : Quantities(t)[i] \in Int /\ Quantities(c)[n + i] = Quantities(t)[i]
    BY <1>3, <1>5, <2>1, <2>2 DEF Quantities
  <2> QED  BY <2>3 DEF StartsWith, GoesOnWith
<1>9. SumFunctionOnSet(Quantities(c), (1..n) \cup Shifted(n, 1..k)) = TotalOf(s) + TotalOf(t)
  BY <1>3, <1>6, <1>8, SumConcat DEF TotalOf
<1> QED  BY <1>2, <1>3, <1>7, <1>9 DEF TotalOf

LEMMA DriftIs ==
  \A p : StockDrift(p) = current_stock[p] - TotalOf(ledger[p])
BY DEF StockDrift, TotalOf, Quantities, SumFunction

\* A commit makes stock and movements differ by what others have added to the
\* product since the session loaded it.
LEMMA CommitDrift ==
  ASSUME PosTypeInv, LedgerInv, NEW r \in Requests, Writes(r), NEW p \in Products,
         StockDrift(p)' # StockDrift(p)
  PROVE  /\ Commits(r)
         /\ p \in Dirty(r)
         /\ StockDrift(p)' - StockDrift(p) = LoadedStock(r, p) - current_stock[p]
<1> USE DEF PosTypeInv, TypeInv, TypeOK, LedgerTypeOK
<1>1. PICK s \in Seq(Row), t \in Seq(Row) : s = ledger[p] /\ t = rows[r][p]
  OBVIOUS
<1>2. /\ ledger'[p] = s \o t
      /\ current_stock'[p] = IF p \in Dirty(r) THEN held[r][p] ELSE current_stock[p]
      /\ Commits(r)
  BY <1>1 DEF Writes, Commit, WriteMovements, Commits, Busy
<1>3. /\ TotalOf(s) \in Int /\ TotalOf(t) \in Int /\ current_stock[p] \in Int
      /\ TotalOf(s \o t) = TotalOf(s) + TotalOf(t)
  BY MovedType, TotalConcat
<1>4. /\ StockDrift(p) = current_stock[p] - TotalOf(s)
      /\ StockDrift(p)' = current_stock'[p] - (TotalOf(s) + TotalOf(t))
  <2>1. StockDrift(p)' = current_stock'[p] - TotalOf(ledger'[p])
    BY DEF StockDrift, TotalOf, Quantities, SumFunction
  <2> QED  BY <1>1, <1>2, <1>3, <2>1, DriftIs
<1>5. t # <<>>
  <2>1. SUFFICES ASSUME t = <<>> PROVE FALSE
    OBVIOUS
  <2>2. TotalOf(t) = 0 /\ p \notin Dirty(r)
    BY <1>1, <2>1, NothingMoved DEF Dirty
  <2> QED  BY <1>2, <1>3, <1>4, <2>2
<1>6. PICK n \in Nat : n = Len(t)
  OBVIOUS
<1>7. n \in Nat \ {0} /\ n > 0
  BY <1>5, <1>6, EmptySequence
<1>8. /\ LoadedStock(r, p) = t[1].balance_after - t[1].quantity
      /\ \A i \in 2..n : t[i].balance_after = t[i - 1].balance_after + t[i].quantity
      /\ held[r][p] = t[n].balance_after
  BY <1>1, <1>6, <1>7 DEF LedgerInv, RowsRunOn, LoadedStock
<1>9. TotalOf(t) = held[r][p] - LoadedStock(r, p) /\ LoadedStock(r, p) \in Int
  <2>1. PICK b : b = LoadedStock(r, p)
    OBVIOUS
  <2>2. b = t[1].balance_after - t[1].quantity
    BY <1>8, <2>1
  <2>3. TotalOf(t) = t[n].balance_after - b /\ b \in Int
    BY <1>6, <1>7, <1>8, <2>2, RunningTotal
  <2> QED  BY <1>8, <2>1, <2>3
<1>10. held[r][p] \in Int
  BY <1>1, <1>5, LoadedType
<1>11. p \in Dirty(r) <=> held[r][p] # LoadedStock(r, p)
  BY <1>1, <1>5 DEF Dirty
<1>12. p \in Dirty(r)
  BY <1>2, <1>3, <1>4, <1>9, <1>10, <1>11
<1> QED  BY <1>2, <1>3, <1>4, <1>9, <1>10, <1>12

\* Sessions that overlap lose stock in one way only: a commit overwrites what
\* others have done to the product since the session loaded it, and that is what
\* is lost, to the unit (PostLine, WriteMovements).
THEOREM StockLostOnlySo == PosSpec => StockLostOnlyToStaleLoads
<1> DEFINE Losses == \A p \in Products : StockDrift(p)' # StockDrift(p) =>
                       \E r \in Requests :
                         /\ Commits(r)
                         /\ p \in Dirty(r)
                         /\ StockDrift(p)' - StockDrift(p) = LoadedStock(r, p) - current_stock[p]
<1>1. ASSUME PosWhole, LedgerInv, [PosNext]_posVars
      PROVE  Losses
  <2>1. SUFFICES ASSUME NEW p \in Products, StockDrift(p)' # StockDrift(p)
                 PROVE  \E r \in Requests :
                          /\ Commits(r)
                          /\ p \in Dirty(r)
                          /\ StockDrift(p)' - StockDrift(p) = LoadedStock(r, p) - current_stock[p]
    OBVIOUS
  <2>2. ~LedgerKept
    BY <2>1 DEF LedgerKept, StockDrift
  <2>3. PICK r \in Requests : Writes(r)
    BY <1>1, <2>2, LedgerStep
  <2> QED  BY <1>1, <2>1, <2>3, CommitDrift DEF PosWhole
<1>2. PosWhole /\ LedgerInv /\ [PosNext]_posVars => PosWhole' /\ LedgerInv' /\ [Losses]_posVars
  BY <1>1, PosWholeStep, LedgerStep
<1> QED  BY <1>2, PosWholeInit, LedgerInvInit, PTL DEF PosSpec, StockLostOnlyToStaleLoads

-----------------------------------------------------------------------------
(* What reversals give back: every one of them the whole document, and no   *)
(* more of them than sessions that were open side by side.                  *)

Status(op, d) == IF op = "void" THEN sale_status[d] ELSE purchase_status[d]

ReversedStatus(op) == IF op = "void" THEN "void" ELSE "cancelled"

\* What one reversal of d moves of product p.
GivesBack(op, d, p) == IF op = "void" THEN QuantityIn(call[d].items, p)
                       ELSE -QuantityIn(call[d].items, p)

\* The sessions that have found d active and have still to commit.
Pending(op, d) == {r \in Busy : call[r].op = op /\ call[r].ref = d}

\* While a document is active nobody has reversed it: those who commit were all
\* at work when the first of them did.
ReversedWhole(op, d) ==
  /\ Status(op, d) = ReversedStatus(op) <=> Done(op, d) # {}
  /\ Cardinality(Done(op, d) \cup Pending(op, d)) <= Workers
  /\ \A p \in Products :
       QuantityMoved(op, d, p) = Cardinality(Done(op, d)) * GivesBack(op, d, p)

ReversalInv ==
  /\ WorkersEnough
  /\ \A op \in {"void", "cancel"}, d \in Requests : ReversedWhole(op, d)

LEMMA ReversalSets ==
  ASSUME NEW op, NEW d
  PROVE  /\ IsFiniteSet(Done(op, d)) /\ Cardinality(Done(op, d)) \in Nat
         /\ Cardinality(Done(op, d)) = 0 <=> Done(op, d) = {}
         /\ IsFiniteSet(Done(op, d) \cup Pending(op, d))
         /\ Done(op, d) \cap Busy = {}
<1>1. Done(op, d) \subseteq Requests /\ Pending(op, d) \subseteq Requests
  BY DEF Done, Pending, Busy
<1>2. IsFiniteSet(Done(op, d)) /\ IsFiniteSet(Done(op, d) \cup Pending(op, d))
  <2>1. Done(op, d) \cup Pending(op, d) \subseteq Requests
    BY <1>1
  <2> QED  BY <1>1, <2>1, LedgerAssumption, FS_Subset
<1>3. Done(op, d) \cap Busy = {}
  BY DEF Done, Busy
<1> QED  BY <1>2, <1>3, FS_CardinalityType, FS_EmptySet

LEMMA GivesBackType ==
  ASSUME PosTypeInv, NEW op, NEW d \in Requests, NEW p
  PROVE  GivesBack(op, d, p) \in Int
<1>1. call[d].items \in Seq(Line)
  BY DEF PosTypeInv, TypeInv, TypeOK, LedgerTypeOK, Calls
<1> QED  BY <1>1, QuantityType DEF GivesBack

LEMMA NoTimes == \A x \in Int : 0 * x = 0
OBVIOUS

LEMMA TimesOpposite == \A n \in Nat, x \in Int : n * (-x) = -(n * x)
OBVIOUS

LEMMA OneMore == \A n \in Nat, x \in Int : (n + 1) * x = n * x + x
OBVIOUS

\* A step of one session that commits nothing.
LEMMA ReversalsKept ==
  ASSUME PosWhole, PosWhole', ReversalInv, WorkersEnough', NEW r \in Requests,
         \A q \in Requests : pc[q] = "done" => call'[q] = call[q],
         \A q \in Requests \ {r} : pc'[q] = pc[q] /\ call'[q] = call[q],
         pc[r] # "done", pc'[r] # "done",
         UNCHANGED <<ledger, sale_status, purchase_status>>,
         \A op \in {"void", "cancel"}, d \in Requests :
           r \in Pending(op, d)' => r \in Pending(op, d) \/ Status(op, d) = "active"
  PROVE  ReversalInv'
<1>1. SUFFICES ASSUME NEW op \in {"void", "cancel"}, NEW d \in Requests
               PROVE  ReversedWhole(op, d)'
  BY DEF ReversalInv
<1>2. ReversedWhole(op, d)
  BY DEF ReversalInv
<1>3. Done(op, d)' = Done(op, d)
  BY DEF Done
<1>4. Status(op, d)' = Status(op, d)
  BY DEF Status
<1>5. Cardinality(Done(op, d) \cup Pending(op, d))' <= Workers
  <2> DEFINE after == Done(op, d)' \cup Pending(op, d)'
             before == Done(op, d) \cup Pending(op, d)
  <2>0. /\ IsFiniteSet(Busy') /\ Cardinality(Busy') \in Nat /\ Cardinality(Busy') <= Workers
        /\ IsFiniteSet(before) /\ Cardinality(before) \in Nat /\ Cardinality(before) <= Workers
        /\ Workers \in Nat
    <3>1. Busy' \subseteq Requests
      BY DEF Busy
    <3>2. IsFiniteSet(Busy')
      BY <3>1, LedgerAssumption, FS_Subset
    <3> QED  BY <1>2, <3>2, ReversalSets, LedgerAssumption, FS_CardinalityType DEF WorkersEnough, ReversedWhole
  <2>1. Pending(op, d)' \subseteq Pending(op, d) \cup {r}
    BY DEF Pending, Busy
  <2>2. CASE r \in Pending(op, d)' /\ Status(op, d) = "active"
    <3>1. Done(op, d) = {}
      BY <1>2, <2>2 DEF ReversedWhole, ReversedStatus
    <3>2. after \subseteq Busy'
      BY <1>3, <3>1 DEF Pending
    <3>3. Cardinality(after) \in Nat /\ Cardinality(after) <= Cardinality(Busy')
      BY <2>0, <3>2, FS_Subset, FS_CardinalityType
    <3> QED  BY <2>0, <3>3
  <2>3. CASE ~(r \in Pending(op, d)' /\ Status(op, d) = "active")
    <3>1. after \subseteq before
      BY <1>3, <2>1, <2>3
    <3>2. Cardinality(after) \in Nat /\ Cardinality(after) <= Cardinality(before)
      BY <2>0, <3>1, FS_Subset, FS_CardinalityType
    <3> QED  BY <2>0, <3>2
  <2> QED  BY <2>2, <2>3
<1>6. ASSUME NEW p \in Products
      PROVE  QuantityMoved(op, d, p)' = Cardinality(Done(op, d)') * GivesBack(op, d, p)'
  <2>1. QuantityMoved(op, d, p)' = QuantityMoved(op, d, p)
    BY DEF QuantityMoved
  <2>2. CASE Done(op, d) = {}
    <3>1. Cardinality(Done(op, d)) = 0 /\ Cardinality(Done(op, d)') = 0
      BY <1>3, <2>2, ReversalSets
    <3>2. GivesBack(op, d, p) \in Int /\ GivesBack(op, d, p)' \in Int
      <4>1. GivesBack(op, d, p) \in Int
        BY GivesBackType DEF PosWhole
      <4>2. call'[d].items \in Seq(Line)
        BY DEF PosWhole, PosTypeInv, TypeInv, TypeOK, LedgerTypeOK, Calls
      <4>3. GivesBack(op, d, p)' \in Int
        BY <4>2, QuantityType DEF GivesBack
      <4> QED  BY <4>1, <4>3
    <3> QED  BY <1>2, <2>1, <3>1, <3>2, NoTimes DEF ReversedWhole
  <2>3. CASE Done(op, d) # {}
    <3>1. pc[d] = "done"
      BY <2>3 DEF Done, PosWhole, WholeInv, SessionWhole, Refers
    <3>2. GivesBack(op, d, p)' = GivesBack(op, d, p)
      BY <3>1 DEF GivesBack
    <3> QED  BY <1>2, <1>3, <2>1, <3>2 DEF ReversedWhole
  <2> QED  BY <2>2, <2>3
<1>7. Status(op, d)' = ReversedStatus(op) <=> Done(op, d)' # {}
  BY <1>2, <1>3, <1>4 DEF ReversedWhole
<1> QED  BY <1>5, <1>6, <1>7 DEF ReversedWhole

LEMMA StartsReversal ==
  ASSUME PosWhole, PosWhole', ReversalInv,
         NEW r \in Requests, NEW op, NEW ref, NEW items, NEW moves,
         Starts(r, op, ref, items, moves), UNCHANGED purchase_status,
         op = "void" => sale_status[ref] = "active",
         op = "cancel" => purchase_status[ref] = "active"
  PROVE  ReversalInv'
<1> USE DEF PosWhole, PosTypeInv, TypeInv, TypeOK, LedgerTypeOK
<1>1. /\ UNCHANGED <<ledger, sale_status>>
      /\ call'[r] = [op |-> op, ref |-> ref, items |-> items]
      /\ pc[r] = "idle" /\ pc'[r] \in {"began", "posting"} /\ Cardinality(Busy) < Workers
  BY DEF Starts, Open
<1>2. PosTypeInv
  OBVIOUS
<1>3. /\ \A q \in Requests : pc[q] = "done" => call'[q] = call[q]
      /\ \A q \in Requests \ {r} : pc'[q] = pc[q] /\ call'[q] = call[q]
  BY <1>2, ShapesKeepDone
<1>4. WorkersEnough'
  <2>1. Busy' = Busy \cup {r} /\ r \notin Busy
    BY <1>1, <1>3 DEF Busy
  <2>2. Cardinality(Busy \cup {r}) = Cardinality(Busy) + 1 /\ Cardinality(Busy) \in Nat
    BY <2>1, SetsFinite, FS_AddElement
  <2> QED  BY <1>1, <2>1, <2>2, LedgerAssumption DEF WorkersEnough
<1>5. \A o \in {"void", "cancel"}, d \in Requests : r \in Pending(o, d)' => Status(o, d) = "active"
  BY <1>1 DEF Pending, Status
<1> HIDE DEF PosWhole
<1> QED  BY <1>1, <1>3, <1>4, <1>5, ReversalsKept

LEMMA WorksReversal ==
  ASSUME PosWhole, PosWhole', ReversalInv, NEW r \in Requests, Goes(r) \/ Posts(r) \/ Leaves(r),
         UNCHANGED purchase_status
  PROVE  ReversalInv'
<1>1. PosTypeInv
  BY DEF PosWhole
<1>2. /\ \A q \in Requests : pc[q] = "done" => call'[q] = call[q]
      /\ \A q \in Requests \ {r} : pc'[q] = pc[q] /\ call'[q] = call[q]
  BY <1>1, ShapesKeepDone
<1>3. UNCHANGED <<ledger, sale_status>>
  BY DEF Goes, Posts, PostLine, Leaves, RollBack
<1>4. /\ r \in Busy /\ pc[r] # "done" /\ pc'[r] # "done"
      /\ r \in Busy' => call'[r] = call[r]
  <2> USE DEF PosTypeInv, TypeInv, TypeOK, LedgerTypeOK
  <2>1. CASE Leaves(r)
    BY <1>1, <2>1 DEF Leaves, RollBack, Busy
  <2>2. CASE Goes(r)
    BY <1>1, <2>2 DEF Goes, Busy
  <2>3. CASE Posts(r)
    BY <1>1, <2>3 DEF Posts, PostLine, Busy
  <2> QED  BY <2>1, <2>2, <2>3
<1>5. WorkersEnough'
  <2>1. Busy' \subseteq Busy
    BY <1>2, <1>4 DEF Busy
  <2>2. Cardinality(Busy') \in Nat /\ Cardinality(Busy') <= Cardinality(Busy) /\ Cardinality(Busy) \in Nat
    BY <2>1, SetsFinite, FS_Subset, FS_CardinalityType
  <2> QED  BY <2>2, LedgerAssumption DEF ReversalInv, WorkersEnough
<1>6. \A op \in {"void", "cancel"}, d \in Requests : r \in Pending(op, d)' => r \in Pending(op, d)
  BY <1>4 DEF Pending
<1> QED  BY <1>2, <1>3, <1>4, <1>5, <1>6, ReversalsKept

LEMMA WritesReversal ==
  ASSUME PosWhole, ReversalInv, NEW r \in Requests, Writes(r),
         \/ WritesBill(r) /\ UNCHANGED purchase_status
         \/ WritesStock(r)
  PROVE  ReversalInv'
<1> USE DEF PosWhole, PosTypeInv, TypeInv, TypeOK, LedgerTypeOK
<1>1. r \in Busy /\ call' = call /\ pc' = [pc EXCEPT ![r] = "done"]
  BY DEF Writes, Commit
<1>2. Busy' = Busy \ {r}
  BY <1>1 DEF Busy
<1>3. WorkersEnough'
  <2>1. Cardinality(Busy') \in Nat /\ Cardinality(Busy') <= Cardinality(Busy) /\ Cardinality(Busy) \in Nat
    BY <1>2, SetsFinite, FS_Subset, FS_CardinalityType
  <2> QED  BY <2>1, LedgerAssumption DEF ReversalInv, WorkersEnough
<1>4. /\ Refers(r) /\ AddsItsLines(r)
      /\ sale_status[r] = "unsaved" /\ purchase_status[r] = "unsaved"
  BY <1>1 DEF WholeInv, SessionWhole, PurchasesDone, Busy, Saved
<1>5. SUFFICES ASSUME NEW op \in {"void", "cancel"}, NEW d \in Requests
               PROVE  ReversedWhole(op, d)'
  BY <1>3 DEF ReversalInv
<1> DEFINE mine == op = call[r].op /\ d = call[r].ref
<1>6. ReversedWhole(op, d)
  BY DEF ReversalInv
<1>7. Done(op, d)' = IF mine THEN Done(op, d) \cup {r} ELSE Done(op, d)
  BY <1>1 DEF Done, Busy
<1>8. Cardinality(Done(op, d) \cup Pending(op, d))' <= Workers
  <2> DEFINE after == Done(op, d)' \cup Pending(op, d)'
             before == Done(op, d) \cup Pending(op, d)
  <2>1. Pending(op, d)' \subseteq Pending(op, d) /\ (mine => r \in Pending(op, d))
    BY <1>1, <1>2 DEF Pending
  <2>2. after \subseteq before
    BY <1>7, <2>1
  <2>3. /\ Cardinality(after) \in Nat /\ Cardinality(after) <= Cardinality(before)
        /\ Cardinality(before) \in Nat
    BY <2>2, ReversalSets, FS_Subset, FS_CardinalityType
  <2> QED  BY <1>6, <2>3, LedgerAssumption DEF ReversedWhole
<1>9. Status(op, d)' = ReversedStatus(op) <=> Done(op, d)' # {}
  <2>1. CASE mine
    <3>1. Status(op, d)' = ReversedStatus(op)
      BY <1>4, <2>1 DEF WritesBill, WritesStock, BillingTypeOK, StockroomTypeOK, Status, ReversedStatus
    <3> QED  BY <1>7, <2>1, <3>1
  <2>2. CASE ~mine
    <3>1. Status(op, d)' = ReversedStatus(op) <=> Status(op, d) = ReversedStatus(op)
      BY <1>4, <2>2 DEF WritesBill, WritesStock, BillingTypeOK, StockroomTypeOK, Status, ReversedStatus
    <3> QED  BY <1>6, <1>7, <2>2, <3>1 DEF ReversedWhole
  <2> QED  BY <2>1, <2>2
<1>10. ASSUME NEW p \in Products
       PROVE  QuantityMoved(op, d, p)' = Cardinality(Done(op, d)') * GivesBack(op, d, p)'
  <2>1. /\ QuantityMoved(op, d, p)' = QuantityMoved(op, d, p) + (IF mine THEN Adds(r, p) ELSE 0)
        /\ QuantityMoved(op, d, p) \in Int /\ Adds(r, p) \in Int
    BY CommitMoves
  <2>2. PICK n \in Nat : n = Cardinality(Done(op, d))
    BY ReversalSets
  <2>3. PICK x \in Int : x = GivesBack(op, d, p)
    <3>1. PosTypeInv
      OBVIOUS
    <3> QED  BY <3>1, GivesBackType
  <2>4. QuantityMoved(op, d, p) = n * x /\ GivesBack(op, d, p)' = x
    BY <1>1, <1>6, <2>2, <2>3 DEF ReversedWhole, GivesBack
  <2>5. CASE mine
    <3>1. Adds(r, p) = x
      BY <1>4, <2>3, <2>5 DEF AddsItsLines, GivesBack
    <3>2. Cardinality(Done(op, d)') = n + 1
      <4>1. r \notin Done(op, d) /\ IsFiniteSet(Done(op, d))
        BY <1>1, ReversalSets
      <4>2. Cardinality(Done(op, d) \cup {r}) = Cardinality(Done(op, d)) + 1
        BY <4>1, FS_AddElement
      <4> QED  BY <1>7, <2>2, <2>5, <4>2
    <3>3. QuantityMoved(op, d, p)' = n * x + x
      BY <2>1, <2>4, <2>5, <3>1
    <3> QED  BY <2>4, <3>2, <3>3, OneMore
  <2>6. CASE ~mine
    BY <1>7, <2>1, <2>2, <2>4, <2>6
  <2> QED  BY <2>5, <2>6
<1> QED  BY <1>8, <1>9, <1>10 DEF ReversedWhole

LEMMA ReversalStep ==
  ASSUME PosWhole, PosWhole', ReversalInv, [PosNext]_posVars
  PROVE  ReversalInv'
<1>0. TypeInv
  BY DEF PosWhole, PosTypeInv
<1>1. ASSUME (BillingNext \/ UNCHANGED vars) /\ UNCHANGED purchase_status
      PROVE  ReversalInv'
  <2>1. CASE Idles
    BY <1>1, <2>1 DEF Idles, ReversalInv, ReversedWhole, WorkersEnough, Busy, Status, Done, Pending,
                      QuantityMoved, GivesBack
  <2>2. ASSUME NEW r \in Requests, NEW cart \in Carts, Starts(r, "sale", r, cart, Opposite(cart))
        PROVE  ReversalInv'
    BY <1>1, <2>2, StartsReversal
  <2>3. ASSUME NEW r \in Requests, NEW s \in Requests, sale_status[s] = "active",
               Starts(r, "void", s, <<>>, call[s].items)
        PROVE  ReversalInv'
    BY <1>1, <2>3, StartsReversal
  <2>4. ASSUME NEW r \in Requests, Goes(r) \/ Posts(r) \/ Leaves(r)
        PROVE  ReversalInv'
    BY <1>1, <2>4, WorksReversal
  <2>5. ASSUME NEW r \in Requests, WritesBill(r)
        PROVE  ReversalInv'
    BY <1>1, <2>5, WritesReversal DEF WritesBill
  <2> QED  BY <1>0, <1>1, <2>1, <2>2, <2>3, <2>4, <2>5, BillShapes
<1>2. ASSUME StockroomStep
      PROVE  ReversalInv'
  <2>1. PICK r \in Requests :
          \/ (StartsStock(r) \/ Posts(r) \/ Leaves(r)) /\ UNCHANGED purchase_status
          \/ WritesStock(r)
    BY <1>2, StockShapes
  <2>2. CASE StartsStock(r) /\ UNCHANGED purchase_status
    <3>1. ASSUME NEW delivery \in Deliveries, Starts(r, "purchase", r, delivery, delivery)
          PROVE  ReversalInv'
      BY <2>2, <3>1, StartsReversal
    <3>2. ASSUME NEW d \in Requests, purchase_status[d] = "active",
                 Starts(r, "cancel", d, <<>>, Opposite(call[d].items))
          PROVE  ReversalInv'
      BY <2>2, <3>2, StartsReversal
    <3>3. ASSUME NEW p \in Products, NEW delta \in Deltas,
                 Starts(r, "adjust", None, <<>>, <<[product |-> p, quantity |-> delta]>>)
          PROVE  ReversalInv'
      <4>1. PICK moves : moves = <<[product |-> p, quantity |-> delta]>>
        OBVIOUS
      <4>2. Starts(r, "adjust", None, <<>>, moves)
        BY <3>3, <4>1
      <4> QED  BY <2>2, <4>2, StartsReversal
    <3> QED  BY <2>2, <3>1, <3>2, <3>3 DEF StartsStock
  <2>3. CASE (Posts(r) \/ Leaves(r)) /\ UNCHANGED purchase_status
    BY <2>3, WorksReversal
  <2>4. CASE WritesStock(r)
    BY <2>4, WritesReversal DEF WritesStock
  <2> QED  BY <2>1, <2>2, <2>3, <2>4
<1> QED  BY <1>1, <1>2, PosShapes

LEMMA ReversalInit == PosInit => ReversalInv
<1> SUFFICES ASSUME PosInit PROVE ReversalInv
  OBVIOUS
<1>1. /\ Busy = {}
      /\ \A q \in Requests : pc[q] = "idle" /\ call[q] = NoCall
      /\ \A d \in Requests : sale_status[d] = "unsaved" /\ purchase_status[d] = "unsaved"
  BY DEF PosInit, Init, LedgerInit, BillingInit, StockroomInit, Busy
<1>2. WorkersEnough /\ Workers \in Nat /\ Cardinality({}) = 0
  BY <1>1, FS_EmptySet, LedgerAssumption DEF WorkersEnough
<1>3. ASSUME NEW op \in {"void", "cancel"}, NEW d \in Requests
      PROVE  ReversedWhole(op, d)
  <2>1. Done(op, d) = {} /\ Pending(op, d) = {}
    BY <1>1 DEF Done, Pending
  <2>2. Status(op, d) # ReversedStatus(op)
    BY <1>1 DEF Status, ReversedStatus
  <2>3. ASSUME NEW p \in Products
        PROVE  QuantityMoved(op, d, p) = Cardinality(Done(op, d)) * GivesBack(op, d, p)
    <3>1. PICK t : t = ledger[p]
      OBVIOUS
    <3>2. DOMAIN t = {1} /\ t[1].op = "opening"
      BY <3>1 DEF PosInit, Init, LedgerInit, OpeningRow
    <3>3. About(t, op, d) = {}
      BY <3>2 DEF About
    <3>4. MovedIn(t, op, d) = 0
      BY <3>3, SumEmpty DEF MovedIn
    <3>5. QuantityMoved(op, d, p) = 0
      BY <3>1, <3>4 DEF QuantityMoved, MovedIn, About, Quantities
    <3>6. GivesBack(op, d, p) \in Int
      BY PosTypeInit, GivesBackType
    <3> QED  BY <1>2, <2>1, <3>5, <3>6, NoTimes
  <2>4. Done(op, d) \cup Pending(op, d) = {}
    BY <2>1
  <2> QED  BY <1>2, <2>1, <2>2, <2>3, <2>4 DEF ReversedWhole
<1> QED  BY <1>2, <1>3 DEF ReversalInv

LEMMA ReversalsHold == PosSpec => []ReversalInv
<1>1. PosWhole /\ ReversalInv /\ [PosNext]_posVars => (PosWhole /\ ReversalInv)'
  BY PosWholeStep, ReversalStep
<1> QED  BY <1>1, PosWholeInit, ReversalInit, PTL DEF PosSpec

LEMMA ReversalTimes ==
  ASSUME ReversalInv, NEW op \in {"void", "cancel"}, NEW d \in Requests
  PROVE  /\ Status(op, d) = ReversedStatus(op) <=> Cardinality(Done(op, d)) > 0
         /\ Cardinality(Done(op, d)) <= Workers
<1>1. ReversedWhole(op, d)
  BY DEF ReversalInv
<1>2. Cardinality(Done(op, d)) <= Cardinality(Done(op, d) \cup Pending(op, d))
  BY ReversalSets, FS_Subset
<1>3. /\ Cardinality(Done(op, d)) \in Nat /\ Cardinality(Done(op, d) \cup Pending(op, d)) \in Nat
      /\ Workers \in Nat
  BY ReversalSets, FS_CardinalityType, LedgerAssumption
<1>4. Cardinality(Done(op, d)) > 0 <=> Done(op, d) # {}
  <2>1. PICK n \in Nat : n = Cardinality(Done(op, d))
    BY <1>3
  <2>2. n = 0 <=> Done(op, d) = {}
    BY <2>1, ReversalSets
  <2>3. n > 0 <=> n # 0
    BY <2>1
  <2> QED  BY <2>1, <2>2, <2>3
<1>5. Status(op, d) = ReversedStatus(op) <=> Done(op, d) # {}
  BY <1>1 DEF ReversedWhole
<1>6. Cardinality(Done(op, d) \cup Pending(op, d)) <= Workers
  BY <1>1 DEF ReversedWhole
<1> QED  BY <1>2, <1>3, <1>4, <1>5, <1>6

\* void_invoice, for any number of sessions side by side: a sale is void when a
\* void of it has been committed, every one of them gives back all of its lines,
\* and they are never more than the sessions that can be open at once.
THEOREM VoidsAreWhole == PosSpec => []VoidsReturnWhole
<1>1. ASSUME ReversalInv PROVE VoidsReturnWhole
  <2>1. SUFFICES ASSUME NEW d \in Requests
                 PROVE  LET times == Cardinality(Done("void", d))
                        IN /\ sale_status[d] = "void" <=> times > 0
                           /\ times <= Workers
                           /\ \A p \in Products :
                                QuantityMoved("void", d, p) = times * QuantityIn(call[d].items, p)
    BY DEF VoidsReturnWhole
  <2>2. /\ Status("void", d) = ReversedStatus("void") <=> Cardinality(Done("void", d)) > 0
        /\ Cardinality(Done("void", d)) <= Workers
    BY <1>1, ReversalTimes
  <2>3. ReversedWhole("void", d)
    BY <1>1 DEF ReversalInv
  <2> QED  BY <2>2, <2>3 DEF ReversedWhole, Status, ReversedStatus, GivesBack
<1> QED  BY <1>1, ReversalsHold, PTL

\* FR-7.3 (cancel_purchase), likewise: a purchase is cancelled when a
\* cancellation of it has been committed, and every one takes back all its lines.
THEOREM CancelsAreWhole == PosSpec => []CancelsReverseWhole
<1>1. ASSUME PosTypeInv, ReversalInv PROVE CancelsReverseWhole
  <2>1. SUFFICES ASSUME NEW d \in Requests
                 PROVE  LET times == Cardinality(Done("cancel", d))
                        IN /\ purchase_status[d] = "cancelled" <=> times > 0
                           /\ times <= Workers
                           /\ \A p \in Products :
                                QuantityMoved("cancel", d, p) = -(times * QuantityIn(call[d].items, p))
    BY DEF CancelsReverseWhole
  <2>2. /\ Status("cancel", d) = ReversedStatus("cancel") <=> Cardinality(Done("cancel", d)) > 0
        /\ Cardinality(Done("cancel", d)) <= Workers
    BY <1>1, ReversalTimes
  <2>3. ReversedWhole("cancel", d)
    BY <1>1 DEF ReversalInv
  <2>4. ASSUME NEW p \in Products
        PROVE  QuantityMoved("cancel", d, p) = -(Cardinality(Done("cancel", d)) * QuantityIn(call[d].items, p))
    <3>1. PICK n \in Nat : n = Cardinality(Done("cancel", d))
      BY ReversalSets
    <3>2. call[d].items \in Seq(Line)
      BY <1>1 DEF PosTypeInv, TypeInv, TypeOK, LedgerTypeOK, Calls
    <3>3. PICK x \in Int : x = QuantityIn(call[d].items, p)
      BY <3>2, QuantityType
    <3>4. QuantityMoved("cancel", d, p) = n * (-x)
      BY <2>3, <3>1, <3>3 DEF ReversedWhole, GivesBack
    <3> QED  BY <3>1, <3>3, <3>4, TimesOpposite
  <2> QED  BY <2>2, <2>4 DEF Status, ReversedStatus
<1>2. PosTypeInv /\ [PosNext]_posVars => PosTypeInv'
  BY PosTypeStep
<1> QED  BY <1>1, <1>2, PosTypeInit, ReversalsHold, PTL DEF PosSpec

-----------------------------------------------------------------------------
(* The counter.  A sale counts in the month create_sale dates it, a void    *)
(* takes it back from the month of created_at.                              *)

\* A step after which the counter and the bills of every month are what they were.
LEMMA CountsKept ==
  ASSUME UNCHANGED <<usage, sale_status>>,
         \A q \in Requests : sale_status[q] = "active" => today'[q] = today[q],
         NEW m
  PROVE  Count(m)' = Count(m) /\ ActiveBills(m)' = ActiveBills(m)
<1>1. \A q \in Requests : sale_status'[q] = "active" /\ today'[q] = m
                            <=> sale_status[q] = "active" /\ today[q] = m
  OBVIOUS
<1> QED  BY <1>1 DEF ActiveBills, Count

LEMMA MeterSale ==
  ASSUME PosWhole, NEW r \in Requests, CommitSale(r), ~FailBill(r), ~Miscounts(r),
         NEW m \in Months, Count(m) = ActiveBills(m)
  PROVE  Count(m)' = ActiveBills(m)'
<1> USE DEF PosWhole, PosTypeInv, TypeInv, TypeOK, LedgerTypeOK, BillingTypeOK
<1>1. /\ pc[r] = "metered" /\ call[r].op = "sale"
      /\ usage' = [usage EXCEPT ![today[r]] = Incremented(used[r])]
      /\ sale_status' = [sale_status EXCEPT ![r] = "active"]
      /\ today' = today
  BY DEF CommitSale
<1>2. sale_status[r] # "active" /\ today[r] \in Months
  BY <1>1 DEF WholeInv, Saved
<1>3. used[r] = usage[today[r]]
  BY <1>1 DEF Miscounts, BilledMonth
<1> DEFINE bills == {q \in Requests : sale_status[q] = "active" /\ today[q] = m}
<1>4. IsFiniteSet(bills) /\ ActiveBills(m) = Cardinality(bills) /\ ActiveBills(m) \in Nat
  BY ActiveBillsType DEF ActiveBills
<1>5. CASE m = today[r]
  <2>1. {q \in Requests : sale_status'[q] = "active" /\ today'[q] = m} = bills \cup {r}
    BY <1>1, <1>5
  <2>2. r \notin bills
    BY <1>2
  <2>3. ActiveBills(m)' = ActiveBills(m) + 1
    <3>1. PICK b : b = bills
      OBVIOUS
    <3>2. IsFiniteSet(b) /\ r \notin b
      BY <1>4, <2>2, <3>1
    <3>3. Cardinality(b \cup {r}) = Cardinality(b) + 1
      BY <3>2, FS_AddElement
    <3>4. ActiveBills(m)' = Cardinality(b \cup {r}) /\ ActiveBills(m) = Cardinality(b)
      BY <1>4, <2>1, <3>1 DEF ActiveBills
    <3> QED  BY <3>3, <3>4
  <2>4. usage'[m] = Incremented(usage[m]) /\ usage[m] \in Nat \cup {None} /\ None \notin Nat
    BY <1>1, <1>3, <1>5, LedgerAssumption
  <2>5. Count(m)' = Count(m) + 1
    BY <2>4 DEF Count, Incremented
  <2> QED  BY <2>3, <2>5
<1>6. CASE m # today[r]
  <2>1. {q \in Requests : sale_status'[q] = "active" /\ today'[q] = m} = bills
    BY <1>1, <1>6
  <2>2. Count(m)' = Count(m)
    BY <1>1, <1>6 DEF Count
  <2> QED  BY <2>1, <2>2 DEF ActiveBills
<1> QED  BY <1>5, <1>6

\* A void finds the bill it takes back in the counter: it is not at zero.
LEMMA MeterVoid ==
  ASSUME PosWhole, NEW r \in Requests, CommitVoid(r), ~Miscounts(r),
         NEW m \in Months, Count(m) = ActiveBills(m)
  PROVE  Count(m)' = ActiveBills(m)'
<1> USE DEF PosWhole, PosTypeInv, TypeInv, TypeOK, LedgerTypeOK, BillingTypeOK
<1>1. /\ pc[r] = "metered" /\ call[r].op = "void"
      /\ usage' = IF Decremented(used[r]) = used[r] THEN usage
                  ELSE [usage EXCEPT ![BilledMonth(r)] = Decremented(used[r])]
      /\ sale_status' = [sale_status EXCEPT ![call[r].ref] = "void"]
      /\ today' = today
  BY DEF CommitVoid
<1>2. PICK s \in Requests : s = call[r].ref
  BY <1>1 DEF WholeInv, SessionWhole, Refers
<1>3. sale_status[s] = "active" /\ today[s] = BilledMonth(r) /\ today[s] \in Months
  BY <1>1, <1>2 DEF Miscounts
<1>4. used[r] = usage[today[s]]
  BY <1>3 DEF Miscounts
<1> DEFINE bills == {q \in Requests : sale_status[q] = "active" /\ today[q] = m}
<1>5. IsFiniteSet(bills) /\ ActiveBills(m) = Cardinality(bills) /\ ActiveBills(m) \in Nat
  BY ActiveBillsType DEF ActiveBills
<1>6. CASE m = today[s]
  <2>1. {q \in Requests : sale_status'[q] = "active" /\ today'[q] = m} = bills \ {s}
    BY <1>1, <1>2, <1>6
  <2>2. s \in bills
    BY <1>3, <1>6
  <2>3. ActiveBills(m)' = ActiveBills(m) - 1
    <3>1. PICK b : b = bills
      OBVIOUS
    <3>2. IsFiniteSet(b) /\ s \in b
      BY <1>5, <2>2, <3>1
    <3>3. Cardinality(b \ {s}) = Cardinality(b) - 1
      BY <3>2, FS_RemoveElement
    <3>4. ActiveBills(m)' = Cardinality(b \ {s}) /\ ActiveBills(m) = Cardinality(b)
      BY <1>5, <2>1, <3>1 DEF ActiveBills
    <3> QED  BY <3>3, <3>4
  <2>4. ActiveBills(m) > 0
    <3>1. ActiveBills(m) # 0
      BY <1>5, <2>2, FS_EmptySet
    <3> QED  BY <1>5, <3>1
  <2>5. usage[m] \in Nat \cup {None} /\ None \notin Nat /\ used[r] = usage[m]
    BY <1>4, <1>6, LedgerAssumption
  <2>6. usage[m] \in Nat /\ usage[m] > 0
    BY <2>4, <2>5 DEF Count
  <2>7. Decremented(used[r]) = usage[m] - 1 /\ Decremented(used[r]) # used[r]
    BY <2>5, <2>6 DEF Decremented
  <2>8. usage'[m] = usage[m] - 1
    BY <1>1, <1>3, <1>6, <2>7
  <2>9. Count(m)' = Count(m) - 1
    BY <2>5, <2>6, <2>8, LedgerAssumption DEF Count
  <2> QED  BY <2>3, <2>9
<1>7. CASE m # today[s]
  <2>1. {q \in Requests : sale_status'[q] = "active" /\ today'[q] = m} = bills
    BY <1>1, <1>2, <1>7
  <2>2. Count(m)' = Count(m)
    BY <1>1, <1>3, <1>7 DEF Count
  <2> QED  BY <2>1, <2>2 DEF ActiveBills
<1> QED  BY <1>6, <1>7

\* What a step of billing does to the counter, unless it commits a bill.
LEMMA BillingKeepsCounts ==
  ASSUME PosWhole, BillingNext \/ UNCHANGED vars
  PROVE  \/ /\ UNCHANGED <<usage, sale_status>>
            /\ \A q \in Requests : sale_status[q] = "active" => today'[q] = today[q]
         \/ \E r \in Requests : (CommitSale(r) /\ ~FailBill(r)) \/ CommitVoid(r)
<1> DEFINE Kept == /\ UNCHANGED <<usage, sale_status>>
                   /\ \A q \in Requests : sale_status[q] = "active" => today'[q] = today[q]
<1>0. \A r \in Busy : sale_status[r] # "active"
  BY DEF Busy, PosWhole, WholeInv, Saved
<1>1. ASSUME NEW r \in Requests, r \in Busy, FailBill(r)
      PROVE  Kept
  <2>1. today' = [today EXCEPT ![r] = 1] /\ UNCHANGED <<usage, sale_status>>
    BY <1>1 DEF FailBill, ForgetSale
  <2> QED  BY <1>0, <1>1, <2>1 DEF PosWhole, PosTypeInv, TypeInv, TypeOK, BillingTypeOK
<1>2. ASSUME NEW r \in Requests, StartBill(r)
      PROVE  Kept
  BY <1>2 DEF StartBill, OpenSale, OpenVoid, billVars
<1>3. ASSUME NEW r \in Requests, AssertCanBill(r), ~FailBill(r)
      PROVE  Kept
  <2>1. /\ r \in Busy /\ UNCHANGED <<usage, sale_status>>
        /\ \E m \in began[r]..month : today' = [today EXCEPT ![r] = m]
    BY <1>3 DEF AssertCanBill, Busy
  <2> QED  BY <1>0, <2>1 DEF PosWhole, PosTypeInv, TypeInv, TypeOK, BillingTypeOK
<1>4. ASSUME NEW r \in Requests, ~FailBill(r),
             LoadProducts(r) \/ CountInvoices(r) \/ InsertSale(r) \/ PostBillLine(r) \/ ReadUsage(r)
      PROVE  Kept
  BY <1>4 DEF LoadProducts, CountInvoices, InsertSale, PostBillLine, ReadUsage, billVars
<1>5. ASSUME NEW r \in Requests, Progress(r) \/ AbortBill(r), FailBill(r)
      PROVE  Kept
  <2>1. r \in Busy
    BY <1>5 DEF Progress, AbortBill, AssertCanBill, LoadProducts, CountInvoices, InsertSale, PostBillLine,
                PostLine, ReadUsage, Posted, CommitSale, CommitVoid, Busy
  <2> QED  BY <1>1, <1>5, <2>1
<1>6. ASSUME BillingEnvironment \/ UNCHANGED vars
      PROVE  Kept
  BY <1>6 DEF BillingEnvironment, NextMonth, Activate, SetPrefix, ledgerVars, vars
<1>7. ASSUME NEW r \in Requests, AbortBill(r)
      PROVE  Kept
  BY <1>5, <1>7 DEF AbortBill
<1>8. ASSUME NEW r \in Requests, Progress(r)
      PROVE  Kept \/ (CommitSale(r) /\ ~FailBill(r)) \/ CommitVoid(r)
  BY <1>3, <1>4, <1>5, <1>8 DEF Progress
<1> QED  BY <1>2, <1>6, <1>7, <1>8 DEF BillingNext

LEMMA CountsAgree ==
  ASSUME PosWhole, [PosNext]_posVars, NEW m \in Months, Count(m) = ActiveBills(m),
         Count(m)' # ActiveBills(m)'
  PROVE  \E r \in Requests : Commits(r) /\ Miscounts(r)
<1>1. ~(/\ UNCHANGED <<usage, sale_status>>
        /\ \A q \in Requests : sale_status[q] = "active" => today'[q] = today[q])
  BY CountsKept
<1>2. StockroomStep => UNCHANGED <<usage, sale_status, today>>
  BY DEF StockroomStep, billVars
<1>3. PICK r \in Requests : (CommitSale(r) /\ ~FailBill(r)) \/ CommitVoid(r)
  BY <1>1, <1>2, PosShapes, BillingKeepsCounts
<1>4. Miscounts(r)
  BY <1>3, MeterSale, MeterVoid
<1>5. Commits(r)
  BY <1>3 DEF CommitSale, CommitVoid, Commit, Commits, PosWhole, PosTypeInv, TypeInv, TypeOK, LedgerTypeOK
<1> QED  BY <1>4, <1>5

\* docs/05, "no double counting, no drift" (increment_usage, decrement_usage): the
\* counter of a month stops being the number of its bills only when a session
\* commits that another one has overtaken, or a void across a change of month.
THEOREM CounterDriftsOnlySo == PosSpec => CounterDriftsOnlyIfOvertaken
<1> DEFINE Drifts == \A m \in Months :
                       Count(m) = ActiveBills(m) /\ Count(m)' # ActiveBills(m)' =>
                         \E r \in Requests : Commits(r) /\ Miscounts(r)
<1>1. PosWhole /\ [PosNext]_posVars => PosWhole' /\ [Drifts]_posVars
  BY PosWholeStep, CountsAgree
<1> QED  BY <1>1, PosWholeInit, PTL DEF PosSpec, CounterDriftsOnlyIfOvertaken
=============================================================================
