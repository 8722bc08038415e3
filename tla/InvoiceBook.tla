----------------------------- MODULE InvoiceBook -----------------------------
(***************************************************************************)
(* What billing promises about invoices, without sessions: one book per    *)
(* series (prefix and year), in which a sale takes the number after the    *)
(* last one, an invoice is active until it is voided, and nothing is ever  *)
(* removed, renumbered or brought back.                                    *)
(***************************************************************************)
EXTENDS Naturals, Sequences

CONSTANT Series

VARIABLE book   \* book[s][n]: the status of invoice number n of series s

Init == book = [s \in Series |-> <<>>]

Issue(s) == book' = [book EXCEPT ![s] = Append(@, "active")]

Void(s, n) ==
  /\ book[s][n] = "active"
  /\ book' = [book EXCEPT ![s][n] = "void"]

Next == \E s \in Series : Issue(s) \/ \E n \in DOMAIN book[s] : Void(s, n)

Spec == Init /\ [][Next]_book
=============================================================================
