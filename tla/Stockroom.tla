------------------------------ MODULE Stockroom ------------------------------
(***************************************************************************)
(* Purchases and manual adjustments: purchase_service.create_purchase and  *)
(* cancel_purchase, inventory_service.adjust.  A saved purchase is         *)
(* identified by the request that saved it; its items are the lines of     *)
(* that request.  Every handler reads a product when its turn comes, not   *)
(* all of them at the start as checkout does.                              *)
(***************************************************************************)
EXTENDS StockLedger

CONSTANTS Deliveries,  \* line lists of the purchases the suppliers deliver
          Deltas,      \* amounts a manual adjustment adds or takes
          StockTasks   \* operations the stock keepers send

ASSUME StockroomAssumption ==
  /\ Deliveries \subseteq Seq(Line)
  /\ Deltas \subseteq Int

VARIABLE purchase_status  \* purchases.status of the purchase request r saved

stockroomVars == <<current_stock, ledger, pc, call, todo, held, rows, purchase_status>>

StockroomTypeOK == purchase_status \in [Requests -> {"unsaved", "active", "cancelled"}]

StockroomInit == purchase_status = [r \in Requests |-> "unsaved"]

\* create_purchase: the header, then one line after the other.
OpenPurchase(r, delivery) ==
  /\ Open(r, "purchase", r, delivery, delivery, "posting")
  /\ UNCHANGED purchase_status

\* Mutation: cancel_purchase does not look at the status.
OpenCancelUnchecked(r, d) ==
  /\ purchase_status[d] # "unsaved"
  /\ Open(r, "cancel", d, <<>>, Opposite(call[d].items), "posting")
  /\ UNCHANGED purchase_status

\* cancel_purchase: get_purchase and the status check; a cancelled purchase is
\* refused.  The stock that comes back out is not compared with anything.
OpenCancel(r, d) ==
  /\ purchase_status[d] = "active"
  /\ Open(r, "cancel", d, <<>>, Opposite(call[d].items), "posting")
  /\ UNCHANGED purchase_status

\* adjust: one line, whose row carries no ref_id.
OpenAdjust(r, p, delta) ==
  /\ Open(r, "adjust", None, <<>>, <<[product |-> p, quantity |-> delta]>>, "posting")
  /\ UNCHANGED purchase_status

StockroomOps == {"purchase", "cancel", "adjust"}

PostStockLine(r) ==
  /\ call[r].op \in StockroomOps
  /\ PostLine(r)
  /\ UNCHANGED purchase_status

CommitPurchase(r) ==
  /\ Posted(r)
  /\ call[r].op = "purchase"
  /\ Commit(r)
  /\ purchase_status' = [purchase_status EXCEPT ![r] = "active"]

\* Mutation: the status written is the one of a sale.
CommitCancelVoid(r) ==
  /\ Posted(r)
  /\ call[r].op = "cancel"
  /\ Commit(r)
  /\ purchase_status' = [purchase_status EXCEPT ![call[r].ref] = "void"]

CommitCancel(r) ==
  /\ Posted(r)
  /\ call[r].op = "cancel"
  /\ Commit(r)
  /\ purchase_status' = [purchase_status EXCEPT ![call[r].ref] = "cancelled"]

CommitAdjust(r) ==
  /\ Posted(r)
  /\ call[r].op = "adjust"
  /\ Commit(r)
  /\ UNCHANGED purchase_status

\* Product not found, duplicate product code, database error, process killed.
AbortStockTask(r) ==
  /\ r \in Busy
  /\ call[r].op \in StockroomOps
  /\ RollBack(r)
  /\ UNCHANGED purchase_status

StartStockTask(r) ==
  \/ "purchase" \in StockTasks /\ \E delivery \in Deliveries : OpenPurchase(r, delivery)
  \/ "cancel" \in StockTasks /\ \E d \in Requests : OpenCancel(r, d)
  \/ "adjust" \in StockTasks /\ \E p \in Products, delta \in Deltas : OpenAdjust(r, p, delta)

StockProgress(r) ==
  PostStockLine(r) \/ CommitPurchase(r) \/ CommitCancel(r) \/ CommitAdjust(r)

StockroomNext ==
  \E r \in Requests : StartStockTask(r) \/ StockProgress(r) \/ AbortStockTask(r)
=============================================================================
