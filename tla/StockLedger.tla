----------------------------- MODULE StockLedger -----------------------------
(***************************************************************************)
(* The stock of one tenant as every service that moves it sees it: the     *)
(* column products.current_stock, the inventory_transactions ledger, and   *)
(* the database sessions of the requests that are in flight.               *)
(*                                                                         *)
(* A request runs in one session: one READ COMMITTED transaction that      *)
(* starts with the authentication query and ends with db.commit(), or is   *)
(* rolled back when the session closes on an error.  Reads see what other  *)
(* sessions have committed at the moment of the read; the Product objects  *)
(* a session has loaded keep their values (`held') until the session ends; *)
(* writes wait in the session and reach the tables in the commit.  No      *)
(* read takes a row lock.                                                  *)
(*                                                                         *)
(* The module has no Init and no Next: Billing and Stockroom extend it and *)
(* build their handlers from its operations.                               *)
(***************************************************************************)
EXTENDS Integers, Sequences, FiniteSets

CONSTANTS Products,      \* the tenant's products
          Requests,      \* HTTP requests; a saved sale or purchase has its request as id
          Workers,       \* sessions open at once (connection pool, worker threads)
          OpeningStock,  \* stock of each product when the observation starts
          Carts,         \* line lists a client may send: sequences of Line
          None           \* no value: a column or an object that is absent

Line == [product : Products, quantity : Int]

ASSUME LedgerAssumption ==
  /\ IsFiniteSet(Requests)
  /\ Workers \in Nat \ {0}
  /\ OpeningStock \in Nat
  /\ Carts \subseteq Seq(Line)
  /\ None \notin Int

VARIABLES current_stock,  \* products.current_stock
          ledger,         \* inventory_transactions of each product, in commit order
          pc,             \* where each request stands
          call,           \* what it was asked: operation, the document it is about, its lines
          todo,           \* signed stock movements it has still to post
          held,           \* its identity map: current_stock of the products it has loaded
          rows            \* ledger rows it has added and not committed

ledgerVars == <<current_stock, ledger, pc, call, todo, held, rows>>

Operations == {"sale", "void", "purchase", "cancel", "adjust"}

Row == [quantity : Int, balance_after : Int,
        op : Operations \cup {"opening"}, ref_id : Requests \cup {None}]

NoCall == [op |-> "none", ref |-> None, items |-> <<>>]

Calls == [op : Operations \cup {"none"}, ref : Requests \cup {None}, items : Seq(Line)]

Steps == {"idle", "began", "guarded", "loaded", "numbered", "posting", "metered", "done"}

LedgerTypeOK ==
  /\ current_stock \in [Products -> Int]
  /\ ledger \in [Products -> Seq(Row)]
  /\ pc \in [Requests -> Steps]
  /\ call \in [Requests -> Calls]
  /\ todo \in [Requests -> Seq(Line)]
  /\ held \in [Requests -> [Products -> Int \cup {None}]]
  /\ rows \in [Requests -> [Products -> Seq(Row)]]

Nothing == [p \in Products |-> None]
NoRows == [p \in Products |-> <<>>]

\* Every product was created by an earlier purchase: stock 0, then one IN row.
OpeningRow == [quantity |-> OpeningStock, balance_after |-> OpeningStock,
               op |-> "opening", ref_id |-> None]

LedgerInit ==
  /\ current_stock = [p \in Products |-> OpeningStock]
  /\ ledger = [p \in Products |-> <<OpeningRow>>]
  /\ pc = [r \in Requests |-> "idle"]
  /\ call = [r \in Requests |-> NoCall]
  /\ todo = [r \in Requests |-> <<>>]
  /\ held = [r \in Requests |-> Nothing]
  /\ rows = [r \in Requests |-> NoRows]

-----------------------------------------------------------------------------
(* Sessions *)

Busy == {r \in Requests : pc[r] \notin {"idle", "done"}}

\* A thread takes the request and its session starts a transaction.
Open(r, op, ref, items, moves, step) ==
  /\ pc[r] = "idle"
  /\ Cardinality(Busy) < Workers
  /\ pc' = [pc EXCEPT ![r] = step]
  /\ call' = [call EXCEPT ![r] = [op |-> op, ref |-> ref, items |-> items]]
  /\ todo' = [todo EXCEPT ![r] = moves]
  /\ UNCHANGED <<current_stock, ledger, held, rows>>

\* What the session drops when it closes, however it ends.
CloseSession(r) ==
  /\ todo' = [todo EXCEPT ![r] = <<>>]
  /\ held' = [held EXCEPT ![r] = Nothing]
  /\ rows' = [rows EXCEPT ![r] = NoRows]

\* Mutation: the session commits what it has flushed even when it closes on an error.
RollBackWrites(r) ==
  /\ pc' = [pc EXCEPT ![r] = "idle"]
  /\ call' = [call EXCEPT ![r] = NoCall]
  /\ CloseSession(r)
  /\ current_stock' = [p \in Products |-> IF held[r][p] = None THEN current_stock[p] ELSE held[r][p]]
  /\ ledger' = [p \in Products |-> ledger[p] \o rows[r][p]]

\* get_db closes the session without a commit: a refusal raised by the
\* service, a database error, a killed process.  Nothing was written.
RollBack(r) ==
  /\ pc' = [pc EXCEPT ![r] = "idle"]
  /\ call' = [call EXCEPT ![r] = NoCall]
  /\ CloseSession(r)
  /\ UNCHANGED <<current_stock, ledger>>

-----------------------------------------------------------------------------
(* Stock movements *)

Opposite(lines) == [i \in DOMAIN lines |-> [lines[i] EXCEPT !.quantity = -@]]

\* Mutation: each line reads the table, not the object the session has changed.
SeenStockUncached(r, p) == current_stock[p]

\* The current_stock the handler computes with: the loaded object, else a read.
SeenStock(r, p) == IF held[r][p] = None THEN current_stock[p] ELSE held[r][p]

\* Mutation: the row records the balance the product had before the movement.
MovementRowBefore(r, line) ==
  [quantity |-> line.quantity, balance_after |-> SeenStock(r, line.product),
   op |-> call[r].op, ref_id |-> call[r].ref]

\* The InventoryTransaction of a line, with the balance after it.
MovementRow(r, line) ==
  [quantity |-> line.quantity, balance_after |-> SeenStock(r, line.product) + line.quantity,
   op |-> call[r].op, ref_id |-> call[r].ref]

\* One turn of the item loop: new_balance, p.current_stock = new_balance, and
\* the ledger row that records it.
PostLine(r) ==
  /\ pc[r] = "posting"
  /\ todo[r] # <<>>
  /\ LET line == Head(todo[r])
         p == line.product
     IN /\ held' = [held EXCEPT ![r][p] = SeenStock(r, p) + line.quantity]
        /\ rows' = [rows EXCEPT ![r][p] = Append(@, MovementRow(r, line))]
  /\ todo' = [todo EXCEPT ![r] = Tail(@)]
  /\ UNCHANGED <<current_stock, ledger, pc, call>>

Posted(r) == pc[r] = "posting" /\ todo[r] = <<>>

\* The stock the session had loaded before its first movement of p.
LoadedStock(r, p) == rows[r][p][1].balance_after - rows[r][p][1].quantity

\* The products whose UPDATE the flush emits: the unit of work compares the
\* value with the loaded one and leaves the column alone when they are equal.
Dirty(r) == {p \in Products : rows[r][p] # <<>> /\ held[r][p] # LoadedStock(r, p)}

\* Mutation: UPDATE ... SET current_stock = current_stock + the movement.
WriteRelative(r) ==
  /\ current_stock' = [p \in Products |-> IF p \in Dirty(r)
                         THEN current_stock[p] + held[r][p] - LoadedStock(r, p)
                         ELSE current_stock[p]]
  /\ ledger' = [p \in Products |-> ledger[p] \o rows[r][p]]

\* The UPDATEs and INSERTs of the movements, which the commit makes visible:
\* current_stock is set to the value the session computed.
WriteMovements(r) ==
  /\ current_stock' = [p \in Products |-> IF p \in Dirty(r) THEN held[r][p] ELSE current_stock[p]]
  /\ ledger' = [p \in Products |-> ledger[p] \o rows[r][p]]

Commit(r) ==
  /\ WriteMovements(r)
  /\ CloseSession(r)
  /\ pc' = [pc EXCEPT ![r] = "done"]
  /\ UNCHANGED call

-----------------------------------------------------------------------------
(* Properties of the ledger *)

\* current_stock is the cached balance of the ledger (docs/06: "current_stock
\* maintained from inventory transactions"): the last row committed for a
\* product carries exactly the stock the product shows.
StockIsLastBalance ==
  \A p \in Products : current_stock[p] = ledger[p][Len(ledger[p])].balance_after

\* Each row's balance_after is the previous row's plus its own quantity
\* (docs/06: "balance_after gives running balance").
RunningBalance ==
  \A p \in Products : \A i \in 2..Len(ledger[p]) :
    ledger[p][i].balance_after = ledger[p][i - 1].balance_after + ledger[p][i].quantity
=============================================================================
