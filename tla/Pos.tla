--------------------------------- MODULE Pos ---------------------------------
(***************************************************************************)
(* The point of sale as a whole: cashiers check out and void (Billing)     *)
(* while stock keepers receive, cancel and adjust (Stockroom).  The two    *)
(* share the products, the stock ledger and the pool of sessions           *)
(* (StockLedger), and nothing else.                                        *)
(***************************************************************************)
EXTENDS Billing, Stockroom

posVars == <<vars, purchase_status>>

PosInit == Init /\ StockroomInit

StockroomStep == StockroomNext /\ UNCHANGED billVars

BillingStep == BillingNext /\ UNCHANGED purchase_status

PosNext == BillingStep \/ StockroomStep \/ (Quiet /\ UNCHANGED purchase_status)

PosSpec == PosInit /\ [][PosNext]_posVars

\* As in Billing; a stock task never waits, its thread only has to run.
PosFairness ==
  \A r \in Requests :
    /\ WF_posVars((Progress(r) /\ UNCHANGED purchase_status)
                  \/ (StockProgress(r) /\ UNCHANGED billVars))
    /\ SF_posVars(InsertSale(r) /\ UNCHANGED purchase_status)

FairPosSpec == PosSpec /\ PosFairness

-----------------------------------------------------------------------------
(* Properties *)

\* The variables of both components have their types.
PosTypeOK == TypeOK /\ StockroomTypeOK

\* The requests that have committed an operation on document d.
Done(op, d) == {r \in Requests : pc[r] = "done" /\ call[r].op = op /\ call[r].ref = d}

\* Nothing locks a sale between the status check of void_invoice and its commit
\* ("Idempotent guard against double-void"), so two voids may both go through.
\* What does hold: a sale is void when a void of it has been committed, every
\* one of them gives back all of its lines, and there are never more of them
\* than sessions that were open side by side.
VoidsReturnWhole ==
  \A d \in Requests :
    LET times == Cardinality(Done("void", d))
    IN /\ sale_status[d] = "void" <=> times > 0
       /\ times <= Workers
       /\ \A p \in Products :
            QuantityMoved("void", d, p) = times * QuantityIn(call[d].items, p)

\* The same of purchases (FR-7.3: a cancellation takes the stock back out).
CancelsReverseWhole ==
  \A d \in Requests :
    LET times == Cardinality(Done("cancel", d))
    IN /\ purchase_status[d] = "cancelled" <=> times > 0
       /\ times <= Workers
       /\ \A p \in Products :
            QuantityMoved("cancel", d, p) = -(times * QuantityIn(call[d].items, p))

Commits(r) == pc[r] # "done" /\ pc'[r] = "done"

\* By how much the stock a product shows differs from the movements recorded.
StockDrift(p) ==
  current_stock[p] - SumFunction([i \in DOMAIN ledger[p] |-> ledger[p][i].quantity])

\* Stock is lost in one way only: a session commits a product that others have
\* changed since it was loaded, and what they changed is what is lost, to the
\* unit.  Nothing else makes stock and ledger differ.
StockLostOnlyToStaleLoads ==
  [][\A p \in Products : StockDrift(p)' # StockDrift(p) =>
       \E r \in Requests :
         /\ Commits(r)
         /\ p \in Dirty(r)
         /\ StockDrift(p)' - StockDrift(p) = LoadedStock(r, p) - current_stock[p]]_posVars

\* The bill that r counts or takes back is not counted as it should be: the
\* counter has changed since r read it, another session has voided the sale, or
\* the void goes to another month than the sale was counted in.
Miscounts(r) ==
  \/ used[r] # usage[BilledMonth(r)]
  \/ call[r].op = "void" /\ sale_status[call[r].ref] # "active"
  \/ call[r].op = "void" /\ today[call[r].ref] # BilledMonth(r)

\* docs/05, "no double counting, no drift": the counter of a month that agrees
\* with the month's bills goes on agreeing, whatever overlaps, until a session
\* commits that was overtaken or that crosses into another month.
CounterDriftsOnlyIfOvertaken ==
  [][\A m \in Months :
       Count(m) = ActiveBills(m) /\ Count(m)' # ActiveBills(m)' =>
         \E r \in Requests : Commits(r) /\ Miscounts(r)]_posVars

Perpetual == INSTANCE PerpetualLedger

\* The handlers implement the perpetual ledger, whatever runs side by side:
\* every commit appends the rows of one document, which run on from a balance
\* that the product has shown.
ImplementsPerpetualLedger == Perpetual!Spec
=============================================================================
