------------------------------- MODULE Reports -------------------------------
(***************************************************************************)
(* Reports, dashboards and the invoice register: what report_service,      *)
(* dashboard_service, list_invoices and the exports of api/reports read    *)
(* while bills are saved and voided.                                       *)
(*                                                                         *)
(* A report is a request of several statements, and every statement sees   *)
(* the bills committed by then (READ COMMITTED).  created_at is the start  *)
(* of the transaction that saves a bill, so bills appear out of order and  *)
(* a day that is over can still gain one.                                  *)
(***************************************************************************)
EXTENDS Gst, FiniteSets

CONSTANTS Sales,     \* requests that save a bill
          Content,   \* what each of them sells, to whom and by whom
          Readers,   \* requests that read, and clients that page
          Kinds,     \* what they ask for
          Windows,   \* <<from, to>> of the auditor's export
          Filters,   \* of the invoice register
          PageLimit,
          RecentLimit, \* bills a cashier's dashboard shows: 6
          MonthDays, \* days in a month
          LastDay,   \* the last day of a run
          None

GST == "WITH_GST"
NonGST == "WITHOUT_GST"
Active == "active"
Void == "void"

\* An owner filters the register by status and billing type; None is any.
Filter == [status : {Active, Void, None}, billing_type : {GST, NonGST, None}]

Order == [lines : Seq(LineInput), bill_discount : Nat, gst_mode : GSTModes,
          place_of_supply : Supplies]

ASSUME ReportsAssumption ==
  /\ None \notin [at : Nat, day : Nat, status : {Active, Void}]
  /\ IsFiniteSet(Sales)
  /\ \A s \in Sales :
       /\ Content[s].order \in Order
       /\ Content[s].billing_type \in {GST, NonGST}
       /\ Content[s].is_gst_customer \in BOOLEAN
       /\ DOMAIN Content[s].goods = DOMAIN Content[s].order.lines
  /\ Filters \subseteq Filter
  /\ PageLimit \in Nat \ {0}
  /\ RecentLimit \in Nat
  /\ MonthDays \in Nat \ {0}
  /\ LastDay \in Nat \ {0}

\* The computed columns of each bill; only its status changes once it is saved.
Bills == [s \in Sales |->
  LET order == Content[s].order
  IN ComputeBill(order.lines, order.bill_discount, order.gst_mode, order.place_of_supply,
                 Content[s].billing_type = GST)]

VARIABLES today,   \* the day
          opened,  \* how many transactions have begun to save a bill
          pending, \* bills in flight: created_at and its day
          sale,    \* saved bills: the same, and their status
          report   \* reports: what was asked, on which day, and the answers so far

vars == <<today, opened, pending, sale, report>>

Init ==
  /\ today = 1
  /\ opened = 0
  /\ pending = [s \in Sales |-> None]
  /\ sale = [s \in Sales |-> None]
  /\ report = [r \in Readers |-> None]

-----------------------------------------------------------------------------
(* Rows a statement selects *)

Saved == {s \in Sales : sale[s] # None}

\* Mutation: voided bills are counted.
SelectedWithVoids(start, end) == {s \in Saved : sale[s].day \in start..end}

\* _NOT_VOID and the window on the day of created_at, both ends included.
Selected(start, end) == {s \in Saved : sale[s].status # Void /\ sale[s].day \in start..end}

IsGst(s) == Content[s].billing_type = GST
IsGstCustomer(s) == Content[s].is_gst_customer
GstBills == {s \in Saved : IsGst(s)}

\* SUM of a field over bills or lines; the sum over no rows is 0 (COALESCE).
Total(S, field(_)) == LET f == [x \in S |-> field(x)] IN SumFunctionOnSet(f, S)

Grand(s) == Bills[s].grand_total
TaxableOf(s) == Bills[s].total_taxable
GstOf(s) == Bills[s].total_gst
DiscountOf(s) == Bills[s].total_discount

\* Lines of bills, by bill and position.
LinesOf(S) == UNION {{<<s, i>> : i \in DOMAIN Content[s].goods} : s \in S}
Computed(x) == Bills[x[1]].lines[x[2]]
Good(x) == Content[x[1]].goods[x[2]]
LineRate(x) == Bills[x[1]].inputs[x[2]].gst_percentage
LineQuantity(x) == Bills[x[1]].inputs[x[2]].quantity
LineTaxable(x) == Computed(x).taxable_value
LineCgst(x) == Computed(x).cgst
LineSgst(x) == Computed(x).sgst
LineIgst(x) == Computed(x).igst
LineGst(x) == LineCgst(x) + LineSgst(x) + LineIgst(x)
LineTotal(x) == Computed(x).line_total

\* How many bills of S are newer.
Rank(s, S) == Cardinality({t \in S : sale[t].at > sale[s].at})

\* ORDER BY created_at DESC
NewestFirst(S) == [i \in 1..Cardinality(S) |-> CHOOSE s \in S : Rank(s, S) = i - 1]

-----------------------------------------------------------------------------
(* report_service *)

SalesSummary(start, end) ==
  LET S == Selected(start, end)
  IN [bills |-> Cardinality(S), gross |-> Total(S, Grand), taxable |-> Total(S, TaxableOf),
      gst |-> Total(S, GstOf), discount |-> Total(S, DiscountOf)]

\* Mutation: the last day of the month is left out.
DayRowsShort(start, end) ==
  LET S == Selected(start, end - 1)
  IN [d \in {sale[s].day : s \in S} |->
        LET D == {s \in S : sale[s].day = d}
        IN [bills |-> Cardinality(D), total |-> Total(D, Grand)]]

\* monthly_sales groups the same bills by day; days without one have no row.
DayRows(start, end) ==
  LET S == Selected(start, end)
  IN [d \in {sale[s].day : s \in S} |->
        LET D == {s \in S : sale[s].day = d}
        IN [bills |-> Cardinality(D), total |-> Total(D, Grand)]]

GstLines(start, end) == LinesOf({s \in Selected(start, end) : IsGst(s)})

\* Lines by rate.
GstSummary(start, end) ==
  LET X == GstLines(start, end)
  IN [rate \in {LineRate(x) : x \in X} |->
        LET L == {x \in X : LineRate(x) = rate}
        IN [taxable |-> Total(L, LineTaxable), cgst |-> Total(L, LineCgst),
            sgst |-> Total(L, LineSgst), igst |-> Total(L, LineIgst),
            total_gst |-> Total(L, LineCgst) + Total(L, LineSgst) + Total(L, LineIgst)]]

\* Mutation: non-GST bills are in the HSN summary as well.
HsnSummaryOfAll(start, end) ==
  LET X == LinesOf(Selected(start, end))
  IN [hsn \in {Good(x).hsn : x \in X} |->
        LET L == {x \in X : Good(x).hsn = hsn}
        IN [quantity |-> Total(L, LineQuantity), taxable |-> Total(L, LineTaxable),
            gst |-> Total(L, LineGst)]]

\* Lines by HSN code.
HsnSummary(start, end) ==
  LET X == GstLines(start, end)
  IN [hsn \in {Good(x).hsn : x \in X} |->
        LET L == {x \in X : Good(x).hsn = hsn}
        IN [quantity |-> Total(L, LineQuantity), taxable |-> Total(L, LineTaxable),
            gst |-> Total(L, LineGst)]]

\* The products sold most, of all bills; which of two that tie is open.
TopProducts(start, end, limit) ==
  LET X == LinesOf(Selected(start, end))
      names == {Good(x).product : x \in X}
      Row(n) == LET L == {x \in X : Good(x).product = n}
                IN [quantity |-> Total(L, LineQuantity), amount |-> Total(L, LineTotal)]
      Best(T) == /\ Cardinality(T) = (IF Cardinality(names) < limit THEN Cardinality(names) ELSE limit)
                 /\ \A n \in T, m \in names \ T : Row(n).quantity >= Row(m).quantity
  IN {[n \in T |-> Row(n)] : T \in {T \in SUBSET names : Best(T)}}

\* The registers: bills of one sort with the totals of the rows.
RegisterRows(start, end, sort) == NewestFirst(Selected(start, end) \cap sort)

GstSalesRegister(start, end) ==
  LET rows == RegisterRows(start, end, GstBills)
  IN [rows |-> rows,
      totals |-> [taxable |-> Total(Range(rows), TaxableOf), gst |-> Total(Range(rows), GstOf),
                  total |-> Total(Range(rows), Grand)]]

NonGstSalesRegister(start, end) ==
  LET rows == RegisterRows(start, end, Saved \ GstBills)
  IN [rows |-> rows, total |-> Total(Range(rows), Grand)]

\* Every bill of a GST customer, of either billing type; "customers" counts bills.
GstCustomerRegister(start, end) ==
  LET rows == RegisterRows(start, end, {s \in Saved : IsGstCustomer(s)})
  IN [rows |-> rows, total |-> Total(Range(rows), Grand), customers |-> Len(rows)]

GstBillingSummary(start, end) ==
  LET S == Selected(start, end)
  IN [total_gst_sales |-> Total({s \in S : IsGst(s)}, Grand),
      total_non_gst_sales |-> Total({s \in S : ~IsGst(s)}, Grand),
      total_gst_customers |-> Cardinality({s \in S : IsGstCustomer(s)})]

-----------------------------------------------------------------------------
(* dashboard_service.cashier_kpis *)

Own(user, day) == {s \in Selected(day, day) : Content[s].created_by = user}

OwnCount(user, day) == Cardinality(Own(user, day))

\* Mutation: what all cashiers have taken.
OwnCollectionOfAll(user, day) == Total(Selected(day, day), Grand)

OwnCollection(user, day) == Total(Own(user, day), Grand)

\* The last few of the cashier, voided ones included.
OwnRecent(user) ==
  LET rows == NewestFirst({s \in Saved : Content[s].created_by = user})
  IN SubSeq(rows, 1, IF Len(rows) < RecentLimit THEN Len(rows) ELSE RecentLimit)

-----------------------------------------------------------------------------
(* list_invoices *)

Matches(s, filter) ==
  /\ filter.status \in {None, sale[s].status}
  /\ filter.billing_type \in {None, Content[s].billing_type}

\* Rows of a sequence after the first n, at most PageLimit of them.
After(rows, n) ==
  SubSeq(rows, n + 1, IF n + PageLimit < Len(rows) THEN n + PageLimit ELSE Len(rows))

\* Mutation: pages count from zero.
PageFromZero(filter, page) ==
  After(NewestFirst({s \in Saved : Matches(s, filter)}), page * PageLimit)

\* OFFSET (page - 1) * limit LIMIT limit
Page(filter, page) ==
  After(NewestFirst({s \in Saved : Matches(s, filter)}), (page - 1) * PageLimit)

-----------------------------------------------------------------------------
(* Bills come and go *)

\* A register without a filter on the status keeps its voided bills.
Unfiltered(asked) == asked.kind = "pages" /\ asked.filter.status = None

\* Reports that have read something notice a change.
Noticed(appeared, gone) ==
  report' = [r \in Readers |->
    IF report[r] = None \/ report[r].answer = <<>> THEN report[r]
    ELSE [report[r] EXCEPT !.changed = TRUE, !.ever = @ \cup appeared,
                           !.always = IF Unfiltered(report[r].asked) THEN @ ELSE @ \ gone]]

\* The transaction begins: now() is its created_at, and here no two begin in the
\* same microsecond; the queries name no second column to tell such bills apart.
\* One that fails is one that never commits.
OpenSale(s) ==
  /\ pending[s] = None /\ sale[s] = None
  /\ opened' = opened + 1
  /\ pending' = [pending EXCEPT ![s] = [at |-> opened + 1, day |-> today]]
  /\ UNCHANGED <<today, sale, report>>

CommitSale(s) ==
  /\ pending[s] # None
  /\ sale' = [sale EXCEPT ![s] =
       [at |-> pending[s].at, day |-> pending[s].day, status |-> Active]]
  /\ pending' = [pending EXCEPT ![s] = None]
  /\ Noticed({s}, {})
  /\ UNCHANGED <<today, opened>>

\* void_invoice
VoidSale(s) ==
  /\ s \in Saved
  /\ sale[s].status = Active
  /\ sale' = [sale EXCEPT ![s].status = Void]
  /\ Noticed({}, {s})
  /\ UNCHANGED <<today, opened, pending>>

Midnight ==
  /\ today < LastDay
  /\ today' = today + 1
  /\ UNCHANGED <<opened, pending, sale, report>>

-----------------------------------------------------------------------------
(* Reports read statement by statement *)

\* The statements of each report about bills, in the order of the code.
Statements ==
  [dashboard |-> <<"month", "days", "day", "top_products">>,
   cashier   |-> <<"count", "collection", "recent">>,
   auditor   |-> <<"summary", "gst-sales-register", "hsn-summary",
                   "gst-customer-register", "gst-summary", "non-gst-sales-register">>]

FirstOfMonth(day) == day - ((day - 1) % MonthDays)
LastOfMonth(day) == FirstOfMonth(day) + MonthDays - 1

Users == {Content[s].created_by : s \in Sales}

\* What a report is asked for; "today" is read once, at its start.
Asked ==
  {[kind |-> "dashboard"]}
  \cup {[kind |-> "cashier", user |-> user] : user \in Users}
  \cup {[kind |-> "auditor", start |-> w[1], end |-> w[2]] : w \in Windows}
  \cup {[kind |-> "pages", filter |-> f] : f \in Filters}

OpenReport(r, asked) ==
  /\ report[r] = None
  /\ asked.kind \in Kinds
  /\ report' = [report EXCEPT ![r] =
       [asked |-> asked, day |-> today, answer |-> <<>>,
        changed |-> FALSE, ever |-> {}, always |-> {}]]
  /\ UNCHANGED <<today, opened, pending, sale>>

\* A client reads the register page by page, until one is not full.
Finished(rep) ==
  LET n == Len(rep.answer)
  IN IF rep.asked.kind = "pages" THEN n > 0 /\ Len(rep.answer[n]) < PageLimit
     ELSE n = Len(Statements[rep.asked.kind])

Statement(rep) ==
  IF rep.asked.kind = "pages" THEN "page" ELSE Statements[rep.asked.kind][Len(rep.answer) + 1]

\* The answers a statement can give.
Answers(rep, what) ==
  LET first == FirstOfMonth(rep.day)
      last == LastOfMonth(rep.day)
  IN CASE what = "month"      -> {SalesSummary(first, last)}
       [] what = "days"       -> {DayRows(first, last)}
       [] what = "day"        -> {SalesSummary(rep.day, rep.day)}
       [] what = "top_products" -> TopProducts(first, rep.day, 5)
       [] what = "count"      -> {OwnCount(rep.asked.user, rep.day)}
       [] what = "collection" -> {OwnCollection(rep.asked.user, rep.day)}
       [] what = "recent"     -> {OwnRecent(rep.asked.user)}
       [] what = "summary"    -> {GstBillingSummary(rep.asked.start, rep.asked.end)}
       [] what = "gst-sales-register" -> {GstSalesRegister(rep.asked.start, rep.asked.end)}
       [] what = "hsn-summary" -> {HsnSummary(rep.asked.start, rep.asked.end)}
       [] what = "gst-customer-register" -> {GstCustomerRegister(rep.asked.start, rep.asked.end)}
       [] what = "gst-summary" -> {GstSummary(rep.asked.start, rep.asked.end)}
       [] what = "non-gst-sales-register" -> {NonGstSalesRegister(rep.asked.start, rep.asked.end)}
       [] what = "page" -> {Page(rep.asked.filter, Len(rep.answer) + 1)}

\* Bills a report is about at this moment.
Concerned(asked) ==
  IF asked.kind = "pages" THEN {s \in Saved : Matches(s, asked.filter)}
  ELSE {s \in Saved : sale[s].status = Active}

\* What a report may see begins with its first statement.
Began(rep) ==
  IF rep.answer # <<>> THEN rep
  ELSE [rep EXCEPT !.ever = Concerned(rep.asked), !.always = Concerned(rep.asked)]

Read(r) ==
  /\ report[r] # None
  /\ ~Finished(report[r])
  /\ \E answer \in Answers(report[r], Statement(report[r])) :
       report' = [report EXCEPT ![r] = [Began(report[r]) EXCEPT !.answer = Append(@, answer)]]
  /\ UNCHANGED <<today, opened, pending, sale>>

-----------------------------------------------------------------------------

Answered == {r \in Readers : report[r] # None /\ Finished(report[r])}

\* The answer is sent; nothing changes it any more, so nothing is lost when it
\* goes before anything else happens.
Deliver(r) ==
  /\ r \in Answered
  /\ report' = [report EXCEPT ![r] = None]
  /\ UNCHANGED <<today, opened, pending, sale>>

SaleStep(s) == OpenSale(s) \/ CommitSale(s) \/ VoidSale(s)

ReadStep(r) == (\E asked \in Asked : OpenReport(r, asked)) \/ Read(r)

Next ==
  \/ \E r \in Readers : Deliver(r)
  \/ /\ Answered = {}
     /\ (\E s \in Sales : SaleStep(s)) \/ (\E r \in Readers : ReadStep(r)) \/ Midnight

Spec == Init /\ [][Next]_vars

-----------------------------------------------------------------------------
(* Properties *)

Has(r, kind) == report[r] # None /\ report[r].asked.kind = kind /\ Finished(report[r])
Undisturbed(r, kind) == Has(r, kind) /\ ~report[r].changed

\* The sum of a field of the rows of a table.
Column(table, field(_)) == SumFunction([k \in DOMAIN table |-> field(table[k])])

\* The month of a dashboard is the sum of its days, and today's figures are the
\* row of the day, unless a bill was saved or voided while it was read.
MonthAddsUp ==
  \A r \in Readers : Undisturbed(r, "dashboard") =>
    LET day == report[r].day
        month == report[r].answer[1]
        days == report[r].answer[2]
        daily == report[r].answer[3]
        top == report[r].answer[4]
    IN /\ month.gross = Column(days, LAMBDA row : row.total)
       /\ month.bills = Column(days, LAMBDA row : row.bills)
       /\ daily.bills = (IF day \in DOMAIN days THEN days[day].bills ELSE 0)
       /\ Column(top, LAMBDA row : row.amount) <= month.gross

\* The sheets of the auditor's package say the same of the same bills, unless
\* one was saved or voided while it was made: the registers against the combined
\* summary, tax by rate against tax by HSN code against the register, and
\* taxable value and tax against the total, to a paisa a line.
AuditorAgrees ==
  \A r \in Readers : Undisturbed(r, "auditor") =>
    LET summary == report[r].answer[1]
        gst == report[r].answer[2].totals
        hsn == report[r].answer[3]
        customers == report[r].answer[4]
        rates == report[r].answer[5]
        others == report[r].answer[6]
        lines == Cardinality(LinesOf(Range(report[r].answer[2].rows)))
    IN /\ gst.total = summary.total_gst_sales
       /\ others.total = summary.total_non_gst_sales
       /\ customers.customers = summary.total_gst_customers
       /\ gst.taxable = Column(rates, LAMBDA row : row.taxable)
       /\ gst.gst = Column(rates, LAMBDA row : row.total_gst)
       /\ gst.taxable = Column(hsn, LAMBDA row : row.taxable)
       /\ gst.gst = Column(hsn, LAMBDA row : row.gst)
       /\ Within(gst.taxable + gst.gst - gst.total, lines)

\* The bills of a window that one sort of register is about.
Due(S, asked, sort(_)) == {s \in S : sale[s].day \in asked.start..asked.end /\ sort(s)}

\* Whatever happens while the package is made, a register holds every bill that
\* was active all the time, and none that was not active at some time; the
\* combined figures lie between the two.
RegistersComplete ==
  \A r \in Readers : Has(r, "auditor") =>
    LET rep == report[r]
        Always(sort(_)) == Due(rep.always, rep.asked, sort)
        Ever(sort(_)) == Due(rep.ever, rep.asked, sort)
        Holds(register, sort(_)) ==
          Always(sort) \subseteq Range(register.rows) /\ Range(register.rows) \subseteq Ever(sort)
    IN /\ Holds(rep.answer[2], IsGst)
       /\ Holds(rep.answer[4], IsGstCustomer)
       /\ Holds(rep.answer[6], LAMBDA s : ~IsGst(s))
       /\ Total(Always(IsGst), Grand) <= rep.answer[1].total_gst_sales
       /\ rep.answer[1].total_gst_sales <= Total(Ever(IsGst), Grand)

\* A cashier's count and takings are of the same bills: of all those of the day
\* that are active and among the recent ones, and of no others as long as fewer
\* than the limit are shown, unless a bill was saved or voided in between.
TakingsMatchBills ==
  \A r \in Readers : Undisturbed(r, "cashier") =>
    LET rep == report[r]
        recent == rep.answer[3]
        own == {s \in Range(recent) : s \in rep.always /\ sale[s].day = rep.day}
    IN /\ Cardinality(own) <= rep.answer[1] /\ Total(own, Grand) <= rep.answer[2]
       /\ Len(recent) < RecentLimit => rep.answer[1] = Cardinality(own) /\ rep.answer[2] = Total(own, Grand)

\* A client that pages through the register until a page is not full has seen
\* every bill that was there when it began, although bills are saved meanwhile,
\* also such as began earlier; voids, which shift the pages of a register that
\* is filtered by status, aside.
NothingSkipped ==
  \A r \in Readers : Has(r, "pages") /\ Unfiltered(report[r].asked) =>
    report[r].always \subseteq UNION {Range(page) : page \in Range(report[r].answer)}
=============================================================================
