------------------------------ MODULE Catalogue ------------------------------
(***************************************************************************)
(* The product catalogue and the two kinds of request that write it: the   *)
(* owner's edit of a product (product_service.update_product) and the      *)
(* pricing side of a purchase (create_purchase with _resolve_product),     *)
(* which refreshes known products and creates new ones inline.             *)
(*                                                                         *)
(* Sessions are those of StockLedger with two things more.  The flush in   *)
(* create_from_purchase sends the session's changes to the database in the *)
(* middle of the request, so row locks and unique keys are held while      *)
(* later lines run.  And an UPDATE carries the columns whose value differs *)
(* from the one the session loaded, and no other.                          *)
(*                                                                         *)
(* Money is in tenths of a paisa: columns hold whole paise, payloads and   *)
(* loaded objects need not.                                                *)
(***************************************************************************)
EXTENDS Gst, FiniteSets, FiniteSetsExt

CONSTANTS Initial,   \* number of products there at the start
          Requests, Workers,
          MaxLines,  \* lines of the longest purchase
          Receipts,  \* purchases the owner enters: sequences of ReceiptLine
          Edits,     \* edits of a product: new markup_amount, new gst_percentage
          OpeningRow,\* what each existing product costs and sells for
          None

\* Existing products are numbered in primary key order; a new one is identified
\* by the request and the line that creates it.
Existing == {None} \X (1..Initial)
NewProducts == Requests \X (1..MaxLines)
Products == Existing \cup NewProducts

\* A product code: PD-00007 is padded, PD-7 is short, any other text is other.
Code == [form : {"padded", "short", "other"}, number : Nat]
AutoCode(n) == [form |-> "padded", number |-> n]

Columns == {"purchase_price", "markup_amount", "selling_price", "gst_percentage"}
Row == [Columns -> Nat]

\* A line restocks a product or, without one, creates it.
ReceiptLine == [product : Existing \cup {None}, code : Code \cup {None},
                purchase_price : Nat, markup_amount : Nat, gst_percentage : Nat]

Edit == [markup_amount : Nat \cup {None}, gst_percentage : Nat \cup {None}]

ASSUME CatalogueAssumption ==
  /\ Initial \in Nat
  /\ None \notin Requests \cup Nat \cup Code \cup Row \cup Existing
  /\ IsFiniteSet(Requests)
  /\ Workers \in Nat \ {0}
  /\ MaxLines \in Nat
  /\ Receipts \subseteq Seq(ReceiptLine)
  /\ \A receipt \in Receipts : Len(receipt) <= MaxLines
  /\ Edits \subseteq Edit
  /\ OpeningRow \in Row

VARIABLES product,  \* the committed rows of products, None where there is none
          code,     \* their product_code
          pc,       \* where each request stands
          task,     \* what it was asked
          turn,     \* the purchase line whose turn it is
          loaded,   \* the column values its UPDATEs are compared with
          mine,     \* the column values of its Product objects
          sent,     \* columns it has flushed and not committed
          moved,    \* products whose stock it has changed and not flushed
          newCode,  \* codes of the products it is creating
          locks,    \* rows it has updated and not committed
          stale     \* history: products a session has updated from an outdated copy

catalogueVars == <<product, code, pc, task, turn, loaded, mine, sent, moved, newCode, locks, stale>>
sessionVars == <<turn, loaded, mine, sent, moved, newCode, locks>>

NoTask == [op |-> "none"]
NoneOf(S) == [x \in S |-> None]

CatalogueTypeOK ==
  /\ product \in [Products -> Row \cup {None}]
  /\ code \in [Products -> Code \cup {None}]
  /\ turn \in [Requests -> 1..(MaxLines + 1)]
  /\ loaded \in [Requests -> [Products -> Row \cup {None}]]
  /\ mine \in [Requests -> [Products -> Row \cup {None}]]
  /\ sent \in [Requests -> [Products -> [Columns -> Nat \cup {None}]]]
  /\ moved \in [Requests -> SUBSET Existing]
  /\ newCode \in [Requests -> [Products -> Code \cup {None}]]
  /\ locks \in [Requests -> SUBSET Existing]
  /\ stale \subseteq Existing

\* Existing products were numbered by earlier purchases.
CatalogueInit ==
  /\ product = [p \in Products |-> IF p \in Existing THEN OpeningRow ELSE None]
  /\ code = [p \in Products |-> IF p \in Existing THEN AutoCode(p[2]) ELSE None]
  /\ pc = [r \in Requests |-> "idle"]
  /\ task = [r \in Requests |-> NoTask]
  /\ turn = [r \in Requests |-> 1]
  /\ loaded = [r \in Requests |-> NoneOf(Products)]
  /\ mine = [r \in Requests |-> NoneOf(Products)]
  /\ sent = [r \in Requests |-> [p \in Products |-> NoneOf(Columns)]]
  /\ moved = [r \in Requests |-> {}]
  /\ newCode = [r \in Requests |-> NoneOf(Products)]
  /\ locks = [r \in Requests |-> {}]
  /\ stale = {}

-----------------------------------------------------------------------------
(* Sessions *)

Busy == {r \in Requests : pc[r] \notin {"idle", "quoted", "done"}}

Start(r, what, step) ==
  /\ pc[r] = "idle"
  /\ Cardinality(Busy) < Workers
  /\ pc' = [pc EXCEPT ![r] = step]
  /\ task' = [task EXCEPT ![r] = what]

CloseSession(r) ==
  /\ turn' = [turn EXCEPT ![r] = 1]
  /\ loaded' = [loaded EXCEPT ![r] = NoneOf(Products)]
  /\ mine' = [mine EXCEPT ![r] = NoneOf(Products)]
  /\ sent' = [sent EXCEPT ![r] = [p \in Products |-> NoneOf(Columns)]]
  /\ moved' = [moved EXCEPT ![r] = {}]
  /\ newCode' = [newCode EXCEPT ![r] = NoneOf(Products)]
  /\ locks' = [locks EXCEPT ![r] = {}]

RollBack(r) ==
  /\ pc' = [pc EXCEPT ![r] = "idle"]
  /\ task' = [task EXCEPT ![r] = NoTask]
  /\ CloseSession(r)
  /\ UNCHANGED <<product, code, stale>>

\* Columns that an UPDATE of p would set now.
Changed(r, p) == IF mine[r][p] = None THEN {}
                 ELSE {c \in Columns : mine[r][p][c] # loaded[r][p][c]}

\* Rows the next flush updates: those with a changed column or a new stock.
DirtyRows(r) == {p \in Existing : p \in moved[r] \/ Changed(r, p) # {}}

FirstRow(r) == CHOOSE p \in DirtyRows(r) : \A q \in DirtyRows(r) : p[2] <= q[2]

\* What a column keeps of a value.
Kept(c, value) == IF c = "gst_percentage" THEN value ELSE 10 * ToColumn(value)

LockedByOther(r, p) == \E q \in Requests \ {r} : p \in locks[q]

\* The UPDATE of one row, in primary key order; it waits while another session
\* has updated the row and not ended.
FlushRow(r) ==
  /\ pc[r] \in {"flushing", "ending"}
  /\ DirtyRows(r) # {}
  /\ LET p == FirstRow(r)
     IN /\ ~LockedByOther(r, p)
        /\ moved' = [moved EXCEPT ![r] = @ \ {p}]
        /\ locks' = [locks EXCEPT ![r] = @ \cup {p}]
        /\ stale' = IF p \in locks[r] \/ loaded[r][p] \in {None, product[p]} THEN stale ELSE stale \cup {p}
        /\ sent' = [sent EXCEPT ![r][p] = [c \in Columns |->
                      IF c \in Changed(r, p) THEN Kept(c, mine[r][p][c]) ELSE @[c]]]
        /\ loaded' = [loaded EXCEPT ![r][p] = mine[r][p]]
  /\ UNCHANGED <<product, code, pc, task, turn, mine, newCode>>

Flushed(r) == DirtyRows(r) = {}

\* The commit makes the flushed columns and the inserted rows visible.
WriteRows(r) ==
  product' = [p \in Products |->
    IF newCode[r][p] # None THEN [c \in Columns |-> Kept(c, mine[r][p][c])]
    ELSE IF p \in locks[r]
    THEN [c \in Columns |-> IF sent[r][p][c] = None THEN product[p][c] ELSE sent[r][p][c]]
    ELSE product[p]]

Commit(r) ==
  /\ pc[r] = "ending"
  /\ Flushed(r)
  /\ WriteRows(r)
  /\ code' = [p \in Products |-> IF newCode[r][p] # None THEN newCode[r][p] ELSE code[p]]
  /\ pc' = [pc EXCEPT ![r] = "done"]
  /\ CloseSession(r)
  /\ UNCHANGED <<task, stale>>

-----------------------------------------------------------------------------
(* update_product *)

\* Mutation: the selling price is left to the next purchase.
EditedWithoutPrice(row, edit) ==
  [row EXCEPT !.markup_amount = IF edit.markup_amount = None THEN @ ELSE edit.markup_amount]

\* The row as the session has it, after the edit: the selling price follows
\* only when the markup is in the payload.
Edited(row, edit) ==
  LET m == IF edit.markup_amount = None THEN row.markup_amount ELSE edit.markup_amount
  IN [row EXCEPT !.markup_amount = m,
        !.gst_percentage = IF edit.gst_percentage = None THEN @ ELSE edit.gst_percentage,
        !.selling_price = IF edit.markup_amount = None THEN @
                          ELSE ComputeSellingPrice(row.purchase_price, m)]

OpenEdit(r, p, edit) ==
  /\ product[p] # None
  /\ Start(r, [op |-> "edit", product |-> p], "ending")
  /\ loaded' = [loaded EXCEPT ![r][p] = product[p]]
  /\ mine' = [mine EXCEPT ![r][p] = Edited(product[p], edit)]
  /\ UNCHANGED <<product, code, turn, sent, moved, newCode, locks, stale>>

-----------------------------------------------------------------------------
(* create_purchase: prices and new products *)

OpenPurchase(r, receipt) ==
  /\ Start(r, [op |-> "purchase", receipt |-> receipt], "line")
  /\ UNCHANGED <<product, code, stale, sessionVars>>

ThisLine(r) == task[r].receipt[turn[r]]
LinesLeft(r) == turn[r] <= Len(task[r].receipt)

\* apply_purchase_pricing: cost, markup, tax and the price derived from them.
Priced(line) ==
  [purchase_price |-> line.purchase_price, markup_amount |-> line.markup_amount,
   selling_price |-> ComputeSellingPrice(line.purchase_price, line.markup_amount),
   gst_percentage |-> line.gst_percentage]

\* A line that names a product: db.get, unless the session holds it already.
RestockLine(r) ==
  /\ pc[r] = "line"
  /\ LinesLeft(r)
  /\ ThisLine(r).product # None
  /\ LET p == ThisLine(r).product
     IN /\ loaded' = [loaded EXCEPT ![r][p] = IF @ = None THEN product[p] ELSE @]
        /\ mine' = [mine EXCEPT ![r][p] = Priced(ThisLine(r))]
        /\ moved' = [moved EXCEPT ![r] = @ \cup {p}]
  /\ turn' = [turn EXCEPT ![r] = @ + 1]
  /\ UNCHANGED <<product, code, pc, task, sent, newCode, locks, stale>>

\* Codes a statement of r sees: the committed ones and its own.
CodesSeen(r) == {code[p] : p \in Products} \cup {newCode[r][p] : p \in Products}

Taken(codes) == codes \ {None}

Numbers(codes) == {c.number : c \in {d \in Taken(codes) : d.form # "other"}}

\* Mutation: the number of PD codes plus one.
NextCodeByCount(codes) == AutoCode(Cardinality(Numbers(codes)) + 1)

\* next_product_code: one more than the highest number of a PD code.
NextCode(codes) == AutoCode(Max(Numbers(codes) \cup {0}) + 1)

\* The code of a new product: the client's or the next one; a code that is in
\* use rejects the purchase.
PickCode(r) ==
  /\ pc[r] = "line"
  /\ LinesLeft(r)
  /\ ThisLine(r).product = None
  /\ LET c == IF ThisLine(r).code = None THEN NextCode(CodesSeen(r)) ELSE ThisLine(r).code
     IN IF c \in CodesSeen(r)
        THEN RollBack(r)
        ELSE /\ pc' = [pc EXCEPT ![r] = "flushing"]
             /\ task' = [task EXCEPT ![r].receipt[turn[r]].code = c]
             /\ UNCHANGED <<product, code, stale, sessionVars>>

\* Another session has inserted the code and not ended.
CodeHeld(r, c) == \E q \in Requests \ {r}, p \in Products : newCode[q][p] = c

\* The session has the product as it inserted it.
AddProduct(r) ==
  LET p == <<r, turn[r]>>
  IN /\ newCode' = [newCode EXCEPT ![r][p] = ThisLine(r).code]
     /\ mine' = [mine EXCEPT ![r][p] = Priced(ThisLine(r))]
     /\ loaded' = [loaded EXCEPT ![r][p] = Priced(ThisLine(r))]
     /\ pc' = [pc EXCEPT ![r] = "line"]
     /\ turn' = [turn EXCEPT ![r] = @ + 1]
     /\ UNCHANGED <<product, code, task, sent, moved, locks, stale>>

\* Mutation: no unique key on the code.
InsertProductWithoutKey(r) == pc[r] = "flushing" /\ Flushed(r) /\ AddProduct(r)

\* Mutation: the INSERT waits for the code to become free, even a committed one.
InsertProductWaits(r) ==
  /\ pc[r] = "flushing"
  /\ ThisLine(r).code \notin CodesSeen(r)
  /\ InsertProductWithoutKey(r)

\* The flush of create_from_purchase, after the updates of the rows changed so
\* far: the INSERT waits for a session that has inserted the same code, and
\* fails when the code has been committed.
InsertProduct(r) ==
  /\ pc[r] = "flushing"
  /\ Flushed(r)
  /\ ~CodeHeld(r, ThisLine(r).code)
  /\ IF ThisLine(r).code \in CodesSeen(r)
     THEN RollBack(r)
     ELSE AddProduct(r)

EndPurchase(r) ==
  /\ pc[r] = "line"
  /\ ~LinesLeft(r)
  /\ pc' = [pc EXCEPT ![r] = "ending"]
  /\ UNCHANGED <<product, code, task, stale, sessionVars>>

-----------------------------------------------------------------------------
(* Failures *)

\* The session whose lock or key the next statement of r needs.
Blockers(r) ==
  IF pc[r] \notin {"flushing", "ending"} THEN {}
  ELSE IF ~Flushed(r)
  THEN {q \in Requests \ {r} : FirstRow(r) \in locks[q]}
  ELSE IF pc[r] = "flushing"
  THEN {q \in Requests \ {r} : \E p \in Products : newCode[q][p] = ThisLine(r).code}
  ELSE {}

\* A circle of sessions, each waiting for the next.
InCircle(r) ==
  \E S \in SUBSET Requests :
    /\ r \in S
    /\ \A q \in S : Blockers(q) \cap S # {} /\ \E s \in S : q \in Blockers(s)

\* PostgreSQL's deadlock detector cancels one of them.
DeadlockVictim(r) == InCircle(r) /\ RollBack(r)

Abort(r) == r \in Busy /\ RollBack(r)
=============================================================================
