--------------------------- MODULE PerpetualLedger ---------------------------
(***************************************************************************)
(* What the stock ledger promises, without sessions: a request appends the *)
(* rows of its document in one step; the rows of a product run on from a   *)
(* balance the product has shown, which is the one it shows now unless     *)
(* another request came in between; and the product shows the balance of   *)
(* the last row.                                                           *)
(***************************************************************************)
EXTENDS Integers, Sequences

CONSTANTS Products, OpeningStock

VARIABLES current_stock, ledger

LedgerVars == <<current_stock, ledger>>

Init ==
  /\ current_stock = [p \in Products |-> OpeningStock]
  /\ \A p \in Products : /\ Len(ledger[p]) = 1
                         /\ ledger[p][1].balance_after = OpeningStock

\* The balances a product has shown.
Shown(p) == {ledger[p][i].balance_after : i \in DOMAIN ledger[p]}

NewRows(p) == Len(ledger[p]) + 1 .. Len(ledger'[p])

\* The rows of p are kept, the new ones run on from balance b, and p shows the
\* last; rows that come back to b leave alone what p shows.
RunsOnFrom(b, p) ==
  LET old == Len(ledger[p])
      new == Len(ledger'[p])
      before(i) == IF i = old + 1 THEN b ELSE ledger'[p][i - 1].balance_after
  IN /\ new >= old
     /\ SubSeq(ledger'[p], 1, old) = ledger[p]
     /\ \A i \in NewRows(p) :
          ledger'[p][i].balance_after = before(i) + ledger'[p][i].quantity
     /\ current_stock'[p] = IF new = old \/ ledger'[p][new].balance_after = b
                            THEN current_stock[p] ELSE ledger'[p][new].balance_after

\* All rows of a step are about one operation on one document.
OneDocument ==
  \A p, q \in Products : \A i \in NewRows(p), j \in NewRows(q) :
    /\ ledger'[p][i].op = ledger'[q][j].op
    /\ ledger'[p][i].ref_id = ledger'[q][j].ref_id

Next == OneDocument /\ \A p \in Products : \E b \in Shown(p) : RunsOnFrom(b, p)

Spec == Init /\ [][Next]_LedgerVars
=============================================================================
