------------------------------ MODULE Reports ------------------------------
(***************************************************************************)
(* The reports over the ledger and over the open documents: the views and  *)
(* set-returning functions of the reporting migration, and the statements, *)
(* ageing, registers and reconciliation that apps/reports builds on them.  *)
(*                                                                         *)
(* The state is what the reports read: journal entries with their dates,   *)
(* documents with the columns settlement caches in them, allocation rows,  *)
(* and the value of the stock.  The actions are the postings that write    *)
(* it, each with the lines its journal has, on any date.  Every report is  *)
(* an operator of that state and of the dates it is asked for, so a        *)
(* property can ask for all windows at once.  Currency rates are one here  *)
(* (Settlement has rates); amounts are signed, debit positive.             *)
(***************************************************************************)
EXTENDS Integers, FiniteSets, Functions

CONSTANTS
  PostingDays,  \* dates things carry
  LastDate,     \* the last date anything is posted on
  Horizon,      \* bound: the last date a report is asked for
  Month,        \* the width of an ageing bucket (30 days in the code)
  Things,       \* everything that may be posted, of the kinds below
  Kind,         \* the kind of each thing
  Worth,        \* its total, tax included
  Tax,          \* the tax in it
  Recoverable,  \* whether input tax in it may be reclaimed
  Stocked,      \* whether a bill or a debit note is of a stock product
  FromReceipt,  \* whether a bill is for goods a receipt brought in
  Cost,         \* the cost of the goods an invoice sells or a return restocks
  Lag,          \* days from its document date to its posting date
  Terms,        \* days from its document date to its due date
  CurrencyOf,   \* the currency it is in
  RowIds,       \* what allocations are known by
  Amounts,      \* bound: what may be allocated at once
  Plans         \* bound: the sets of things a behaviour may post

Documents == {x \in Things : Kind[x] \in {"INVOICE", "BILL"}}
Notes == {x \in Things : Kind[x] \in {"CREDIT_NOTE", "DEBIT_NOTE"}}
Returns == {x \in Things : Kind[x] = "SALES_RETURN"}
\* What is owed back: a note, to be applied to documents, or a sales return,
\* which nothing ever applies.
Credits == Notes \cup Returns
Payments == {x \in Things : Kind[x] \in {"RECEIPT", "PAYMENT"}}
Goods == {x \in Things : Kind[x] \in {"GOODS_RECEIPT", "DELIVERY", "ADJUSTMENT"}}
Sides == {"AR", "AP"}
Side(x) ==
  IF Kind[x] \in {"INVOICE", "CREDIT_NOTE", "SALES_RETURN", "RECEIPT"} THEN "AR" ELSE "AP"

ASSUME ReportsAssumption ==
  /\ LastDate \in Nat /\ Horizon \in Nat /\ Month \in Nat \ {0}
  /\ IsFiniteSet(Things) /\ RowIds \cap Things = {}
  /\ PostingDays \subseteq 1 .. LastDate /\ Amounts \subseteq Nat \ {0}
  /\ \A x \in Things : /\ Worth[x] \in Nat \ {0} /\ Tax[x] \in 0 .. Worth[x] - 1
                       /\ Lag[x] \in Nat /\ Terms[x] \in Nat
                       /\ Recoverable[x] \in BOOLEAN /\ Stocked[x] \in BOOLEAN
                       /\ FromReceipt[x] \in BOOLEAN /\ Cost[x] \in Nat
                       /\ \A d \in PostingDays : d + Lag[x] <= LastDate
  /\ Plans \subseteq SUBSET Things

----------------------------------------------------------------------------
(* The chart of accounts: each account with its subtype, and the type the
   subtype belongs to.  Two accounts are contra to their type. *)
SubtypeOf ==
  [cash |-> "CURRENT_ASSET", receivable |-> "CURRENT_ASSET",
   vendorAdvance |-> "CURRENT_ASSET", inventory |-> "CURRENT_ASSET",
   inputTax |-> "CURRENT_ASSET", equipment |-> "NONCURRENT_ASSET",
   payable |-> "CURRENT_LIABILITY", received |-> "CURRENT_LIABILITY",
   customerAdvance |-> "CURRENT_LIABILITY", outputTax |-> "CURRENT_LIABILITY",
   loan |-> "NONCURRENT_LIABILITY", retained |-> "EQUITY",
   sales |-> "REVENUE", salesReturns |-> "REVENUE",
   cogs |-> "COGS", purchases |-> "COGS", purchaseReturns |-> "COGS",
   fees |-> "OPERATING_EXPENSE", gain |-> "OTHER_INCOME",
   lostTax |-> "OTHER_EXPENSE"]
Accounts == DOMAIN SubtypeOf
SubtypesOf ==
  [ASSET |-> {"CURRENT_ASSET", "NONCURRENT_ASSET"},
   LIABILITY |-> {"CURRENT_LIABILITY", "NONCURRENT_LIABILITY"},
   EQUITY |-> {"EQUITY"}, INCOME |-> {"REVENUE", "OTHER_INCOME"},
   EXPENSE |-> {"COGS", "OPERATING_EXPENSE", "OTHER_EXPENSE"}]
TypeOf(a) == CHOOSE t \in DOMAIN SubtypesOf : SubtypeOf[a] \in SubtypesOf[t]
ResultAccounts == {a \in Accounts : TypeOf(a) \in {"INCOME", "EXPENSE"}}
ControlOf == [AR |-> "receivable", AP |-> "payable", INVENTORY |-> "inventory"]

VARIABLES
  plan,       \* the things this behaviour may post
  entries,    \* the journal: [of, reverses, date, lines]
  cancelled,  \* of what the entry has the status REVERSED
  docs,       \* document -> [date, allocated, credited, open]; date 0 is not posted
  rows,       \* allocation rows: [id, source, target, amount, date, reversed]
  stock,      \* the value of the stock balances
  shipped     \* the purchase returns that are posted
reportVars == <<plan, entries, cancelled, docs, rows, stock, shipped>>

Sum(f) == SumFunctionOnSet(f, DOMAIN f)

\* The lines of an entry: what it books on each account, and nothing where it
\* has no line (a line of zero is not written).
NoLines == [a \in Accounts |-> 0]
Entry(of, date, lines) == [of |-> of, reverses |-> FALSE, date |-> date, lines |-> lines]
Original(x) == {e \in entries : e.of = x /\ ~e.reverses}
Booked(x) == Original(x) # {}
EntryOf(x) == CHOOSE e \in Original(x) : TRUE
Net(x) == Worth[x] - Tax[x]

ReportsInit ==
  /\ plan \in Plans
  /\ entries = {}
  /\ cancelled = {}
  /\ docs = [x \in Documents |-> [date |-> 0, allocated |-> 0, credited |-> 0, open |-> 0]]
  /\ rows = {}
  /\ stock = 0
  /\ shipped = {}

----------------------------------------------------------------------------
(* What each posting writes. *)
InputTax(x) == IF Recoverable[x] THEN "inputTax" ELSE "lostTax"
\* A sale, or a sale undone with every amount negative.  The goods are booked
\* out at the cost of the delivery, which booked them out itself.
SaleLines(worth, net, tax, cost) ==
  [NoLines EXCEPT !["receivable"] = worth, !["sales"] = -net, !["outputTax"] = -tax,
                  !["cogs"] = cost, !["inventory"] = -cost]
\* Goods a receipt brought in are taken from what is received and not billed.
Bought(x) ==
  IF ~Stocked[x] THEN "purchases" ELSE IF FromReceipt[x] THEN "received" ELSE "inventory"
DocumentLines(x) ==
  IF Side(x) = "AR"
  THEN SaleLines(Worth[x], Net(x), Tax[x], Cost[x])
  ELSE [NoLines EXCEPT !["payable"] = -Worth[x], ![Bought(x)] = Net(x), ![InputTax(x)] = Tax[x]]
SentBackFrom(x) == IF Stocked[x] THEN "inventory" ELSE "purchaseReturns"
\* A credit note leaves the goods alone; a return books them back in.
Restocked(x) == IF x \in Returns THEN Cost[x] ELSE 0
CreditLines(x) ==
  IF Side(x) = "AR"
  THEN SaleLines(-Worth[x], -Net(x), -Tax[x], -Restocked(x))
  ELSE [NoLines EXCEPT !["payable"] = Worth[x], ![SentBackFrom(x)] = -Net(x),
                       ![InputTax(x)] = -Tax[x]]
\* A receipt keeps back the processor's fee, which stands in Tax here.
PaymentLines(x) ==
  IF Side(x) = "AR"
  THEN [NoLines EXCEPT !["cash"] = Net(x), !["fees"] = Tax[x], !["customerAdvance"] = -Worth[x]]
  ELSE [NoLines EXCEPT !["vendorAdvance"] = Worth[x], !["fees"] = Tax[x], !["cash"] = -(Worth[x] + Tax[x])]
AllocationLines(x, amount) ==
  IF Side(x) = "AR"
  THEN [NoLines EXCEPT !["customerAdvance"] = amount, !["receivable"] = -amount]
  ELSE [NoLines EXCEPT !["payable"] = amount, !["vendorAdvance"] = -amount]
GoodsLines(x) ==
  CASE Kind[x] = "GOODS_RECEIPT" -> [NoLines EXCEPT !["inventory"] = Worth[x], !["received"] = -Worth[x]]
    [] Kind[x] = "DELIVERY" -> [NoLines EXCEPT !["cogs"] = Worth[x], !["inventory"] = -Worth[x]]
    [] Kind[x] = "ADJUSTMENT" -> [NoLines EXCEPT !["inventory"] = Worth[x], !["gain"] = -Worth[x]]
StockEffect(x) == IF Kind[x] = "DELIVERY" THEN -Worth[x] ELSE Worth[x]
\* A journal drawn up by hand: a loan buys equipment.
ManualLines(x) == [NoLines EXCEPT !["equipment"] = Worth[x], !["loan"] = -Worth[x]]

Ready(x, k) == x \in plan \cap k /\ ~Booked(x)

\* An invoice or a bill is posted, some days after its own date.
PostDocument(x, d) ==
  /\ Ready(x, Documents)
  /\ entries' = entries \cup {Entry(x, d + Lag[x], DocumentLines(x))}
  /\ docs' = [docs EXCEPT ![x].date = d, ![x].open = Worth[x]]
  /\ UNCHANGED <<plan, cancelled, rows, stock, shipped>>

PostCredit(x, d) ==
  /\ Ready(x, Notes)
  /\ entries' = entries \cup {Entry(x, d, CreditLines(x))}
  /\ UNCHANGED <<plan, cancelled, docs, rows, stock, shipped>>

\* A sales return writes its journal and moves no stock, whatever it restocks.
PostReturn(x, d) ==
  /\ Ready(x, Returns)
  /\ entries' = entries \cup {Entry(x, d, CreditLines(x))}
  /\ UNCHANGED <<plan, cancelled, docs, rows, stock, shipped>>

\* A purchase return ships goods out and writes no journal.
PostPurchaseReturn(x) ==
  /\ x \in plan \ shipped /\ Kind[x] = "PURCHASE_RETURN"
  /\ stock - Worth[x] >= 0
  /\ stock' = stock - Worth[x]
  /\ shipped' = shipped \cup {x}
  /\ UNCHANGED <<plan, entries, cancelled, docs, rows>>

PostPayment(x, d) ==
  /\ Ready(x, Payments)
  /\ entries' = entries \cup {Entry(x, d, PaymentLines(x))}
  /\ UNCHANGED <<plan, cancelled, docs, rows, stock, shipped>>

PostGoods(x, d) ==
  /\ Ready(x, Goods)
  /\ stock + StockEffect(x) >= 0
  /\ stock' = stock + StockEffect(x)
  /\ entries' = entries \cup {Entry(x, d, GoodsLines(x))}
  /\ UNCHANGED <<plan, cancelled, docs, rows, shipped>>

PostManual(x, d) ==
  /\ Ready(x, {y \in Things : Kind[y] = "MANUAL"})
  /\ entries' = entries \cup {Entry(x, d, ManualLines(x))}
  /\ UNCHANGED <<plan, cancelled, docs, rows, stock, shipped>>

----------------------------------------------------------------------------
(* Settlement, as the reports see it. *)
Live(S) == {r \in S : ~r.reversed}
AmountOf(S) == Sum([r \in S |-> r.amount])
Spent(s) == AmountOf({r \in Live(rows) : r.source = s})
SettledByPayments(doc, x) == [doc EXCEPT !.open = Worth[x] - doc.allocated]
Settled(doc, x) == [doc EXCEPT !.open = Worth[x] - doc.allocated - doc.credited]
Moved(t, s, amount) ==
  LET doc == docs[t]
  IN  [docs EXCEPT ![t] =
         Settled(IF s \in Payments THEN [doc EXCEPT !.allocated = doc.allocated + amount]
                                   ELSE [doc EXCEPT !.credited = doc.credited + amount], t)]

AllocateBeyond(id, s, t, amount, d) ==
  /\ Booked(s) /\ Booked(t) /\ s \notin cancelled
  /\ Side(s) = Side(t) /\ CurrencyOf[s] = CurrencyOf[t]
  /\ \A r \in rows : r.id # id
  /\ amount <= Worth[s] - Spent(s)
  /\ d >= docs[t].date /\ d >= EntryOf(s).date
  /\ rows' = rows \cup {[id |-> id, source |-> s, target |-> t, amount |-> amount,
                         date |-> d, reversed |-> FALSE]}
  /\ docs' = Moved(t, s, amount)
  /\ entries' = IF s \in Payments
                THEN entries \cup {Entry(id, d, AllocationLines(s, amount))}
                ELSE entries
  /\ UNCHANGED <<plan, cancelled, stock, shipped>>
\* A payment is allocated, with a journal; a credit is applied, without one.
Allocate(id, s, t, amount, d) ==
  /\ Booked(s) /\ Booked(t) /\ s \notin cancelled
  /\ Side(s) = Side(t) /\ CurrencyOf[s] = CurrencyOf[t]
  /\ \A r \in rows : r.id # id
  /\ amount <= docs[t].open /\ amount <= Worth[s] - Spent(s)
  /\ d >= docs[t].date /\ d >= EntryOf(s).date
  /\ rows' = rows \cup {[id |-> id, source |-> s, target |-> t, amount |-> amount,
                         date |-> d, reversed |-> FALSE]}
  /\ docs' = Moved(t, s, amount)
  /\ entries' = IF s \in Payments
                THEN entries \cup {Entry(id, d, AllocationLines(s, amount))}
                ELSE entries
  /\ UNCHANGED <<plan, cancelled, stock, shipped>>

\* The journal of x is cancelled by its mirror image on a date of its own:
\* the entry is marked reversed, its lines stay.
Mirror(x, d) ==
  [of |-> x, reverses |-> TRUE, date |-> d,
   lines |-> [a \in Accounts |-> -EntryOf(x).lines[a]]]
Cancel(x, d) ==
  /\ entries' = entries \cup {Mirror(x, d)}
  /\ cancelled' = cancelled \cup {x}

Unallocate(r, d) ==
  /\ r \in Live(rows)
  /\ rows' = (rows \ {r}) \cup {[r EXCEPT !.reversed = TRUE]}
  /\ docs' = Moved(r.target, r.source, -r.amount)
  /\ IF r.source \in Payments THEN Cancel(r.id, d) ELSE UNCHANGED <<entries, cancelled>>
  /\ UNCHANGED <<plan, stock, shipped>>

ReversePayment(x, d) ==
  /\ x \in Payments /\ Booked(x) /\ x \notin cancelled
  /\ \A r \in Live(rows) : r.source # x
  /\ Cancel(x, d)
  /\ UNCHANGED <<plan, docs, rows, stock, shipped>>

UptoStanding(d) == {e \in entries : e.date <= d /\ (e.reverses \/ e.of \notin cancelled)}
\* The balance an account reached by the end of a day.
Upto(d) == {e \in entries : e.date <= d}
Movement(S, a) == Sum([e \in S |-> e.lines[a]])
Balance(a, d) == Movement(Upto(d), a)

\* The year is closed by a journal drawn up outside the program: income and
\* expense as they stand are moved to retained earnings.
ClosingLines(d) ==
  [a \in Accounts |->
     IF a \in ResultAccounts THEN -Balance(a, d)
     ELSE IF a = "retained" THEN Sum([b \in ResultAccounts |-> Balance(b, d)]) ELSE 0]
CloseYear(x, d) ==
  /\ Ready(x, {y \in Things : Kind[y] = "CLOSING"})
  /\ \E a \in ResultAccounts : Balance(a, d) # 0
  /\ entries' = entries \cup {Entry(x, d, ClosingLines(d))}
  /\ UNCHANGED <<plan, cancelled, docs, rows, stock, shipped>>

ReportsNext ==
  \E d \in PostingDays :
    \/ \E x \in Things :
         PostDocument(x, d) \/ PostCredit(x, d) \/ PostReturn(x, d) \/ PostPayment(x, d)
         \/ PostGoods(x, d) \/ PostPurchaseReturn(x) \/ PostManual(x, d)
         \/ ReversePayment(x, d) \/ CloseYear(x, d)
    \/ \E id \in RowIds, s \in plan \cap (Payments \cup Notes), t \in plan \cap Documents :
         \E amount \in Amounts : Allocate(id, s, t, amount, d)
    \/ \E r \in rows : Unallocate(r, d)

ReportsSpec == ReportsInit /\ [][ReportsNext]_reportVars

----------------------------------------------------------------------------
(* The trial balance, and the statements made of it. *)
Larger(n) == IF n > 0 THEN n ELSE 0
Within(from, to) == {e \in Upto(to) : e.date >= from}
EarlierAndOn(from, to) == {e \in Upto(to) : e.date <= from}
Earlier(from, to) == {e \in Upto(to) : e.date < from}
Debits(S, a) == Sum([e \in S |-> Larger(e.lines[a])])
Credited(S, a) == Sum([e \in S |-> Larger(-e.lines[a])])
Contra == {"salesReturns", "purchaseReturns"}
NaturalOfContra(a, debit, credit) ==
  IF (TypeOf(a) \in {"ASSET", "EXPENSE"}) # (a \in Contra) THEN debit - credit ELSE credit - debit
Natural(a, debit, credit) ==
  IF TypeOf(a) \in {"ASSET", "EXPENSE"} THEN debit - credit ELSE credit - debit

Touched(S) == {a \in Accounts : \E e \in S : e.lines[a] # 0}

\* One row for each account some line up to the end of the window touches.
fn_trial_balance(from, to) ==
  [a \in Touched(Upto(to)) |->
     LET opening == Movement(Earlier(from, to), a)
         closing == Movement(Upto(to), a)
     IN  [openingDebit |-> Larger(opening), openingCredit |-> Larger(-opening),
          periodDebit |-> Debits(Within(from, to), a),
          periodCredit |-> Credited(Within(from, to), a),
          closingDebit |-> Larger(closing), closingCredit |-> Larger(-closing)]]

Total(tb, column) == Sum([a \in DOMAIN tb |-> tb[a][column]])
StandingNet(tb, a) == Natural(a, tb[a].closingDebit, tb[a].closingCredit)
PeriodNet(tb, a) == Natural(a, tb[a].periodDebit, tb[a].periodCredit)
ClosingNet(tb, a) == Natural(a, tb[a].closingDebit, tb[a].closingCredit)
Section(tb, amount(_, _), subtype) ==
  Sum([a \in {b \in DOMAIN tb : SubtypeOf[b] = subtype} |-> amount(tb, a)])
TotalFor(tb, type) ==
  Sum([a \in {b \in DOMAIN tb : TypeOf(b) = type} |-> ClosingNet(tb, a)])

NetProfit(from, to) ==
  LET tb == fn_trial_balance(from, to)
      of(subtype) == Section(tb, PeriodNet, subtype)
      grossProfit == of("REVENUE") - of("COGS")
      operatingProfit == grossProfit - of("OPERATING_EXPENSE")
  IN  operatingProfit + of("OTHER_INCOME") - of("OTHER_EXPENSE")

Inception == 0
balance_sheet(asOf) ==
  LET tb == fn_trial_balance(Inception, asOf)
      of(subtype) == Section(tb, ClosingNet, subtype)
      result == TotalFor(tb, "INCOME") - TotalFor(tb, "EXPENSE")
  IN  [assets |-> of("CURRENT_ASSET") + of("NONCURRENT_ASSET"),
       liabilities |-> of("CURRENT_LIABILITY") + of("NONCURRENT_LIABILITY"),
       result |-> result, equity |-> of("EQUITY") + result]

----------------------------------------------------------------------------
(* The open documents at a date, by how overdue they are. *)
Buckets == {"CURRENT", "1-30", "31-60", "61-90", "90+"}
Due(x) == docs[x].date + Terms[x]
BucketOf(x, asOf) ==
  LET late == asOf - Due(x)
  IN  CASE late <= 0 -> "CURRENT"
        [] late \in 1 .. Month -> "1-30"
        [] late \in Month + 1 .. 2 * Month -> "31-60"
        [] late \in 2 * Month + 1 .. 3 * Month -> "61-90"
        [] OTHER -> "90+"
EverSettledAt(x, asOf) ==
  AmountOf({r \in rows : r.target = x /\ r.date <= asOf})
SettledAt(x, asOf) ==
  AmountOf({r \in Live(rows) : r.target = x /\ r.date <= asOf})
CachedOpen(x, asOf) == docs[x].open
OpenAt(x, asOf) == Worth[x] - SettledAt(x, asOf)
fn_ageing(side, asOf) ==
  {x \in Documents : Side(x) = side /\ docs[x].date \in 1 .. asOf /\ OpenAt(x, asOf) > 0}
ageing(side, asOf, currency) ==
  LET wanted == {x \in fn_ageing(side, asOf) : CurrencyOf[x] = currency}
      excluded == fn_ageing(side, asOf) \ wanted
  IN  [buckets |-> [b \in Buckets |->
         Sum([x \in {y \in wanted : BucketOf(y, asOf) = b} |-> OpenAt(x, asOf)])],
       others |-> [c \in {CurrencyOf[x] : x \in excluded} |->
         Cardinality({x \in excluded : CurrencyOf[x] = c})]]
Overdue(report) == Sum([b \in Buckets \ {"CURRENT"} |-> report.buckets[b]])

----------------------------------------------------------------------------
(* The money register, the tax listing and the reconciliation. *)
RegisterFromOpeningDay(from, to) ==
  LET window == Within(from, to)
  IN  [opening |-> Movement({e \in entries : e.date <= from}, "cash"),
       in |-> Debits(window, "cash"), out |-> Credited(window, "cash")]
money_register(from, to) ==
  LET window == Within(from, to)
  IN  [opening |-> Movement({e \in entries : e.date < from}, "cash"),
       in |-> Debits(window, "cash"), out |-> Credited(window, "cash")]
ClosingBalance(r) == r.opening + r.in - r.out

v_tax_transaction(side, from, to) ==
  {x \in Documents : Side(x) = side /\ docs[x].date > 0 /\ docs[x].date \in from .. to}
TaxOf(S) == Sum([x \in S |-> Tax[x]])
TaxReportReclaimingAll(from, to) ==
  LET of(side) == TaxOf(v_tax_transaction(side, from, to))
  IN  [sales |-> of("AR"), purchases |-> of("AP"), nonRecoverable |-> 0,
       netPayable |-> of("AR") - of("AP")]
tax_report(from, to) ==
  LET of(side) == TaxOf(v_tax_transaction(side, from, to))
      lost == TaxOf({x \in v_tax_transaction("AP", from, to) : ~Recoverable[x]})
  IN  [sales |-> of("AR"), purchases |-> of("AP"), nonRecoverable |-> lost,
       netPayable |-> of("AR") - (of("AP") - lost)]

\* A control account is examined when some journal line has touched it.
Examined(control) == ControlOf[control] \in Touched(entries)
GlBalance(control) == Movement(entries, ControlOf[control])
OpenOf(S) == Sum([x \in S |-> docs[x].open])
Subledger(control) ==
  CASE control = "AR" -> OpenOf({x \in Documents : Side(x) = "AR"})
    [] control = "AP" -> -OpenOf({x \in Documents : Side(x) = "AP"})
    [] control = "INVENTORY" -> stock
Difference(control) == GlBalance(control) - Subledger(control)

----------------------------------------------------------------------------
(* The properties. *)

\* The types, among them that no cached remainder of a document is negative,
\* and that every entry balances.
ReportsTypeOK ==
  /\ plan \in Plans /\ stock \in Nat /\ shipped \subseteq plan
  /\ \A x \in Documents : /\ docs[x].date \in PostingDays \cup {0} /\ docs[x].open \in 0 .. Worth[x]
                          /\ docs[x].allocated \in Nat /\ docs[x].credited \in Nat
  /\ \A r \in rows : r.id \in RowIds /\ r.amount > 0 /\ r.target \in Documents
  /\ \A e \in entries : e.lines \in [Accounts -> Int] /\ Sum(e.lines) = 0

Windows == {w \in (Inception .. LastDate) \X (Inception .. LastDate) : w[1] <= w[2]}

\* The trial balance of every window balances in all three columns, moves by
\* its period from its opening to its closing, and closes where the window
\* after it opens (TrialBalance.is_balanced).
TrialBalancesJoin ==
  \A w \in Windows :
    LET tb == fn_trial_balance(w[1], w[2])
        next == fn_trial_balance(w[2] + 1, LastDate + 1)
    IN  /\ Total(tb, "openingDebit") = Total(tb, "openingCredit")
        /\ Total(tb, "periodDebit") = Total(tb, "periodCredit")
        /\ Total(tb, "closingDebit") = Total(tb, "closingCredit")
        /\ \A a \in DOMAIN tb :
             LET row == tb[a]
                 after == next[a]
             IN  /\ row.closingDebit = after.openingDebit
                 /\ row.closingCredit = after.openingCredit
                 /\ row.closingDebit - row.closingCredit
                      = row.openingDebit - row.openingCredit
                        + row.periodDebit - row.periodCredit

\* The balance sheet balances at every date, before a year is closed, after
\* it is closed, and when something is posted into a closed year.
BalanceSheetBalances ==
  \A d \in Inception .. LastDate :
    LET bs == balance_sheet(d) IN bs.assets = bs.liabilities + bs.equity

\* The profit of a window is what the unclosed result on the balance sheet
\* moved by over that window.
ProfitExplainsResult ==
  \A w \in Windows :
    w[1] > Inception =>
      NetProfit(w[1], w[2]) = balance_sheet(w[2]).result - balance_sheet(w[1] - 1).result

\* The register of the money account opens and closes on the balances the
\* trial balance gives its ledger account.
RegisterMatchesLedger ==
  \A w \in Windows :
    LET r == money_register(w[1], w[2])
        tb == fn_trial_balance(w[1], w[2])
    IN  IF "cash" \in DOMAIN tb
        THEN /\ ClosingBalance(r) = ClosingNet(tb, "cash")
             /\ r.opening = tb["cash"].openingDebit - tb["cash"].openingCredit
        ELSE ClosingBalance(r) = 0

\* Asked for a date after everything, the ageing finds in the allocation rows
\* exactly the remainders settlement keeps in the documents, spreads them over
\* the buckets once each, and counts each document of another currency.
AgeingMatchesOpenItems ==
  \A side \in Sides, d \in LastDate .. Horizon :
    LET mine == {x \in Documents : Side(x) = side /\ docs[x].open > 0}
    IN  /\ fn_ageing(side, d) = mine
        /\ \A c \in {CurrencyOf[x] : x \in Documents} :
             LET report == ageing(side, d, c)
                 shown == {x \in mine : CurrencyOf[x] = c}
             IN  /\ Sum(report.buckets) = OpenOf(shown)
                 /\ Overdue(report) = OpenOf({x \in shown : d > Due(x)})
                 /\ Sum(report.others) = Cardinality(mine \ shown)

\* A control account differs from its documents by the credits that are posted
\* and not applied, a sales return among them for good, and the stock account
\* from the stock by what a document books on it beside the movements (goods
\* billed without a receipt or noted back, and the cost an invoice or a sales
\* return books again) and by the purchase returns, which write no journal; one
\* the view leaves out has no documents.
UnappliedCredit(side) ==
  Sum([x \in {y \in Credits : Side(y) = side /\ Booked(y)} |-> Worth[x] - Spent(x)])
PaperStock(x) ==
  CASE Kind[x] = "INVOICE" -> -Cost[x]
    [] Kind[x] = "SALES_RETURN" -> Cost[x]
    [] Kind[x] = "BILL" /\ Stocked[x] /\ ~FromReceipt[x] -> Net(x)
    [] Kind[x] = "DEBIT_NOTE" /\ Stocked[x] -> -Net(x)
    [] OTHER -> 0
OnPaperOnly ==
  Sum([x \in {y \in Documents \cup Credits : Booked(y)} |-> PaperStock(x)])
ShippedOnly == Sum([x \in shipped |-> Worth[x]])
DifferenceIsExplained ==
  /\ Difference("AR") = -UnappliedCredit("AR")
  /\ Difference("AP") = UnappliedCredit("AP")
  /\ Difference("INVENTORY") = OnPaperOnly + ShippedOnly
  /\ \A control \in DOMAIN ControlOf : ~Examined(control) => Subledger(control) = 0

\* Over all time the tax report is payable what the tax accounts hold, the tax
\* that notes and sales returns gave back left out.
TaxGivenBack(side) ==
  TaxOf({x \in Credits : Side(x) = side /\ Booked(x) /\ (side = "AR" \/ Recoverable[x])})
TaxHeld == -(Balance("outputTax", LastDate) + Balance("inputTax", LastDate))
TaxReportIsOfDocuments ==
  tax_report(Inception, LastDate).netPayable
    = TaxHeld + TaxGivenBack("AR") - TaxGivenBack("AP")

\* What is posted later, reversals included, changes no statement of a window
\* that ended before the date it is posted on.
New == entries' \ entries
LedgerPastStands ==
  [][\A w \in Windows :
       (\A e \in New : e.date > w[2]) =>
         fn_trial_balance(w[1], w[2])' = fn_trial_balance(w[1], w[2])]_reportVars

\* An ageing as at a past day stays what it was, whatever is posted and
\* allocated on later days: it changes only when an allocation is taken back
\* (ageing.py).
NothingTakenBack == Live(rows) \subseteq rows'
LaterThan(d) ==
  /\ \A e \in New : e.date > d
  /\ \A r \in rows' \ rows : r.date > d
  /\ \A x \in Documents : docs'[x].date # docs[x].date => docs'[x].date > d
AgeingPastStands ==
  [][\A d \in Inception .. LastDate, side \in Sides :
       NothingTakenBack /\ LaterThan(d) =>
         {<<x, OpenAt(x, d)>> : x \in fn_ageing(side, d)}'
           = {<<x, OpenAt(x, d)>> : x \in fn_ageing(side, d)}]_reportVars

\* The statements balance, join from window to window, and explain each other.
StatementsAgree == ReportsTypeOK /\ TrialBalancesJoin /\ BalanceSheetBalances /\ ProfitExplainsResult

\* Register, ageing, reconciliation and tax report show what the ledger and the
\* open documents hold, and the differences they have are the ones named.
ReportsAgreeWithBooks ==
  /\ RegisterMatchesLedger /\ AgeingMatchesOpenItems
  /\ DifferenceIsExplained /\ TaxReportIsOfDocuments

\* Nothing posted later changes a report of the past, but for an ageing whose
\* allocations are taken back.
PastStands == LedgerPastStands /\ AgeingPastStands
=============================================================================
