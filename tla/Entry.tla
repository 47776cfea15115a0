-------------------------------- MODULE Entry --------------------------------
(***************************************************************************)
(* What becomes of what a clerk types.  A request goes through three       *)
(* programs written apart: the form, which tells the clerk what is wrong;  *)
(* the tables, whose constraints refuse a row; and the poster, which       *)
(* refuses a document with a message or has its journal refused by the     *)
(* constraints of the journal.  What a table refuses nobody catches: the   *)
(* clerk gets a server error.                                              *)
(*                                                                         *)
(* The check of the form and the saving are two steps, for the form reads  *)
(* the database before the transaction that saves.  A ModelForm also tries *)
(* the constraints of which it has every column.                           *)
(*                                                                         *)
(* Lines that are kept keep the places they were typed at.                 *)
(*                                                                         *)
(* A field that may be left blank is a set of at most one value.  Products *)
(* of quantity, price and percentage are in hundredths.  The quantities    *)
(* taken from a delivery or an invoice are typed in tenths of the last     *)
(* digit their column keeps.                                               *)
(*                                                                         *)
(* Every number typed fits its column, for the forms count its digits;     *)
(* what the program makes of two of them need not.                         *)
(***************************************************************************)
EXTENDS Integers, Sequences, FiniteSets, Functions

CONSTANTS
  Clerks,
  Typeable,      \* bound: what may be typed: [form, head, lines]
  AtOnce,        \* bound: those of them two clerks may make at once
  OnHand,        \* what the warehouse has
  Remaining,     \* what is left of the line a document is drafted from
  OnHandThere,   \* what the warehouse has that a transfer goes to
  SameAccount,   \* whether the two keep their stock on one account
  PurchasePrice, AverageCost,  \* of the product an adjustment counts
  ReceivedCost,  \* what a unit was, or is, received at
  TaxPercent, ExchangeRate,    \* of a document
  Largest        \* the largest number a numeric(18,4) holds

ASSUME EntryAssumption ==
  /\ AtOnce \subseteq Typeable
  /\ OnHand \in Nat /\ OnHandThere \in Nat /\ Remaining \in Nat
  /\ SameAccount \in BOOLEAN
  /\ PurchasePrice \in Nat /\ AverageCost \in Nat /\ ReceivedCost \in Nat
  /\ TaxPercent \in Nat /\ ExchangeRate \in Nat /\ Largest \in Nat
  /\ OnHand * AverageCost <= Largest /\ OnHandThere * AverageCost <= Largest

Numbers == -Largest .. Largest

\* What the fields of the forms parse to; a row neither stored nor touched is blank.
ASSUME TypeableAssumption ==
  \A r \in Typeable :
    /\ Len(r.lines) \in Nat /\ r.lines = [i \in 1 .. Len(r.lines) |-> r.lines[i]]
    /\ \A i \in 1 .. Len(r.lines) :
         LET l == r.lines[i]
         IN  /\ r.form \in {"PURCHASE_ORDER", "SALES_ORDER", "BILL", "DEBIT_NOTE"} =>
                  l.quantity \in Numbers /\ l.price \in Numbers /\ l.discount \subseteq Int
             /\ r.form \in {"RETURN", "TRANSFER"} => l.quantity \in Numbers
             /\ r.form = "RECEIPT" => l.received \in Numbers /\ l.rejected \subseteq Numbers
             /\ r.form = "ADJUSTMENT" => l.stored \/ l.touched \/ (~l.product /\ l.delta = {})
             /\ r.form \in {"INVOICE", "CREDIT_NOTE", "SALES_RETURN", "DELIVERY"} => l.tenths \in Int
    /\ r.form = "BILL" => r.head.value \in Int
    /\ r.form = "PAYMENT" => /\ r.head.direction \in {"RECEIPT", "PAYMENT"}
                             /\ r.head.amount \in Numbers /\ r.head.fee \subseteq Numbers

VARIABLES
  req,       \* the request of each clerk
  docs,      \* the documents committed, each with the clerk who typed it
  booked,    \* what posting wrote to the ledger for each line
  increases  \* AdjustmentReason.increases_stock

entryVars == <<req, docs, booked, increases>>

Stages == {"idle", "checked", "told", "saved", "posted", "refused",
           "error", "failed"}   \* a server error, while saving and while posting
NoRequest == [at |-> "idle", form |-> "", head |-> <<>>, lines |-> <<>>]

EntryInit ==
  /\ req = [c \in Clerks |-> NoRequest]
  /\ docs = {}
  /\ booked = [c \in Clerks |-> <<>>]
  /\ increases = TRUE

-----------------------------------------------------------------------------
\* Helpers.

OrZero(field) == IF field = {} THEN 0 ELSE CHOOSE x \in field : TRUE
Every(lines, Ok(_)) == \A i \in DOMAIN lines : Ok(lines[i])
Total(amounts) == SumFunctionOnSet(amounts, DOMAIN amounts)
AmountsOf(lines, F(_)) == [i \in DOMAIN lines |-> F(lines[i])]

Gross(l) == l.quantity * l.price * 100
LineDiscount(l) == l.quantity * l.price * OrZero(l.discount)
Net(l) == l.quantity * l.price * (100 - OrZero(l.discount))
Subtotal(lines) == Total(AmountsOf(lines, Net))

\* The header discount of purchasing, no more than there is to discount.
Reduction(h, whole) ==
  CASE h.kind = "PERCENT" -> (whole * h.value) \div 100
    [] h.kind = "AMOUNT" -> h.value * 100
    [] OTHER -> 0
HeaderDiscount(h, whole) ==
  IF Reduction(h, whole) < whole THEN Reduction(h, whole) ELSE whole
BillTotal(h, lines) == Subtotal(lines) - HeaderDiscount(h, Subtotal(lines))

\* That of sales, of the gross amount and with no such bound.
SalesDiscount(h, lines) ==
  IF h.value <= 0 THEN 0 ELSE Reduction(h, Total(AmountsOf(lines, Gross)))

\* What a line bears of a header discount, in proportion.
Share(discount, part, whole) == IF whole > 0 THEN (discount * part) \div whole ELSE 0
PurchaseNet(h, lines, l) ==
  Net(l) - Share(HeaderDiscount(h, Subtotal(lines)), Net(l), Subtotal(lines))
SalesNet(h, lines, l) ==
  LET net == Net(l) - Share(SalesDiscount(h, lines), Gross(l), Total(AmountsOf(lines, Gross)))
  IN  IF net < 0 THEN 0 ELSE net
WithTax(amount) == amount + (amount * TaxPercent) \div 100

\* A numeric column with four places, given a fifth.
Rounded(tenths) == (tenths + 5) \div 10

-----------------------------------------------------------------------------
\* The forms: what a clerk is not told is wrong.

InPercent(n) == n \in 0 .. 100

PurchaseOrderLineFormUnbounded(l) == l.quantity > 0 /\ l.price >= 0
PurchaseOrderLineForm(l) ==
  l.quantity > 0 /\ l.price >= 0 /\ InPercent(OrZero(l.discount))
PurchaseOrderForm(lines) == lines # <<>> /\ Every(lines, PurchaseOrderLineForm)

SalesOrderLineForm(l) ==
  l.quantity > 0 /\ l.price >= 0 /\ InPercent(OrZero(l.discount))
SalesOrderForm(h, lines) ==
  /\ h.kind = "PERCENT" => InPercent(h.value)
  /\ Every(lines, SalesOrderLineForm)

PurchaseBillLineFormLoose(l) == l.quantity > 0 /\ l.price >= 0
PurchaseBillLineForm(l) ==
  /\ l.quantity > 0 /\ l.price >= 0
  /\ IF l.stock THEN l.product ELSE l.account
Billed(number) == \E d \in docs : d.form = "BILL" /\ d.head.number = number
PurchaseBillForm(h, lines) ==
  /\ h.number # {} /\ ~Billed(h.number)
  /\ h.due
  /\ lines # <<>> /\ Every(lines, PurchaseBillLineForm)

VendorDebitNoteLineForm(l) == l.quantity > 0 /\ l.price # 0 /\ (l.stock => l.product)
VendorDebitNoteForm(h, lines) ==
  h.reason /\ lines # <<>> /\ Every(lines, VendorDebitNoteLineForm)

PurchaseReturnForm(h, lines) ==
  /\ h.reason /\ h.source
  /\ lines # <<>> /\ Every(lines, LAMBDA l : l.quantity > 0)

GoodsReceiptLineForm(l) == l.received > 0 /\ OrZero(l.rejected) <= l.received
GoodsReceiptForm(lines) == lines # <<>> /\ Every(lines, GoodsReceiptLineForm)

StockTransferForm(h, lines) ==
  ~h.same /\ lines # <<>> /\ Every(lines, LAMBDA l : l.quantity > 0)

\* Rows of an adjustment: stored ones, and new ones that were touched or not.
IsBlank(l) == ~l.product /\ l.delta = {}
Counted(l) == l.stored \/ l.touched
WrongWay(l) ==
  ~IsBlank(l) /\ IF increases THEN OrZero(l.delta) <= 0 ELSE OrZero(l.delta) >= 0
StockAdjustmentLineForm(l) ==
  /\ l.delta # {0}
  /\ IsBlank(l) \/ (l.product /\ l.delta # {})
StockAdjustmentForm(lines) ==
  /\ \E i \in DOMAIN lines : Counted(lines[i])
  /\ Every(lines, StockAdjustmentLineForm)
  /\ ~\E i \in DOMAIN lines : WrongWay(lines[i])

PaymentForm(h) ==
  /\ OrZero(h.fee) >= 0 /\ h.amount > 0
  /\ h.direction = "RECEIPT" => OrZero(h.fee) < h.amount /\ h.customer /\ ~h.vendor
  /\ h.direction = "PAYMENT" => h.vendor /\ ~h.customer
  /\ h.needsReference => h.reference
  /\ h.account \/ h.defaultAccount

AllocationFormSet(lines) ==
  /\ \A i, j \in DOMAIN lines : lines[i].target = lines[j].target => i = j
  /\ Every(lines, LAMBDA l : OrZero(l.amount) >= 0)
  /\ \E i \in DOMAIN lines : OrZero(lines[i].amount) > 0

\* The line form of a delivery, and the same again when it is drafted.
DeliveryLineForm(l) ==
  /\ l.text = "number" /\ l.tenths >= 0 /\ l.tenths % 10 = 0
  /\ l.tenths <= Remaining * 10
DeliveryForm(lines) ==
  Every(lines, DeliveryLineForm) /\ \E i \in DOMAIN lines : lines[i].tenths > 0

\* Quantities taken from the request by the view itself.
Picked(l) == l.text = "number" /\ l.tenths > 0
PickForm(h, lines) ==
  /\ \E i \in DOMAIN lines : Picked(lines[i])
  /\ h.reason
  /\ Every(lines, LAMBDA l : Picked(l) => l.tenths <= Remaining * 10)

FormAccepts(r) ==
  CASE r.form = "PURCHASE_ORDER" -> PurchaseOrderForm(r.lines)
    [] r.form = "SALES_ORDER" -> SalesOrderForm(r.head, r.lines)
    [] r.form = "BILL" -> PurchaseBillForm(r.head, r.lines)
    [] r.form = "DEBIT_NOTE" -> VendorDebitNoteForm(r.head, r.lines)
    [] r.form = "RETURN" -> PurchaseReturnForm(r.head, r.lines)
    [] r.form = "RECEIPT" -> GoodsReceiptForm(r.lines)
    [] r.form = "TRANSFER" -> StockTransferForm(r.head, r.lines)
    [] r.form = "ADJUSTMENT" -> StockAdjustmentForm(r.lines)
    [] r.form = "PAYMENT" -> PaymentForm(r.head)
    [] r.form = "ALLOCATION" -> AllocationFormSet(r.lines)
    [] r.form = "DELIVERY" -> DeliveryForm(r.lines)
    [] r.form \in {"INVOICE", "CREDIT_NOTE", "SALES_RETURN"} -> PickForm(r.head, r.lines)

\* Decimal("NaN") parses, and comparing it raises what nobody catches.
ViewFails(r) ==
  /\ r.form \in {"INVOICE", "CREDIT_NOTE", "SALES_RETURN"}
  /\ ~Every(r.lines, LAMBDA l : l.text # "NaN")

-----------------------------------------------------------------------------
\* What of the typed lines is written.

\* A blank new row of an adjustment is marked as deleted, too late for a stored one.
AdjustmentRowsStored(lines) == RestrictValues(lines, LAMBDA l : l.stored)
AdjustmentRows(lines) ==
  RestrictValues(lines, LAMBDA l : l.stored \/ (l.touched /\ ~IsBlank(l)))
RowsOf(r) ==
  CASE r.form = "ADJUSTMENT" -> AdjustmentRows(r.lines)
    [] r.form = "ALLOCATION" -> RestrictValues(r.lines, LAMBDA l : OrZero(l.amount) > 0)
    [] r.form \in {"INVOICE", "CREDIT_NOTE", "SALES_RETURN", "DELIVERY"} ->
         RestrictValues(r.lines, Picked)
    [] OTHER -> r.lines

-----------------------------------------------------------------------------
\* The tables: what the database lets in.

purchase_order_line(l) ==
  l.quantity > 0 /\ l.price >= 0 /\ InPercent(OrZero(l.discount))
sales_order_line(l) ==
  l.quantity > 0 /\ l.price >= 0 /\ InPercent(OrZero(l.discount))

\* pb_line_discount_within_gross: of columns that are not on the form.
purchase_bill_line(l) ==
  /\ l.quantity > 0 /\ l.price >= 0
  /\ l.quantity * l.price * OrZero(l.discount) <= l.quantity * l.price * 100
  /\ IF l.stock THEN l.product ELSE l.account
purchase_billUnkeyed(h, lines) == h.due /\ BillTotal(h, lines) >= 0
purchase_bill(h, lines) == h.due /\ BillTotal(h, lines) >= 0 /\ ~Billed(h.number)

vendor_debit_note(lines) ==
  Subtotal(lines) >= 0 /\ Every(lines, LAMBDA l : l.quantity > 0)

purchase_return(h, lines) ==
  h.reason /\ h.source /\ Every(lines, LAMBDA l : l.quantity > 0)

\* quantity_rejected is not null; the view derives what was accepted.
goods_receipt_line(l) ==
  /\ l.received > 0 /\ l.rejected # {}
  /\ OrZero(l.rejected) >= 0 /\ l.received - OrZero(l.rejected) >= 0

stock_transfer(h, lines) == ~h.same /\ Every(lines, LAMBDA l : l.quantity > 0)
stock_adjustment_line(l) == l.product /\ l.delta # {} /\ l.delta # {0}

payment(h) ==
  /\ h.direction = "RECEIPT" => h.customer /\ ~h.vendor
  /\ h.direction = "PAYMENT" => h.vendor /\ ~h.customer
  /\ h.amount > 0 /\ OrZero(h.fee) >= 0
  /\ h.direction = "PAYMENT" \/ OrZero(h.fee) < h.amount

\* dn_line_qty_positive, si_line_qty_positive, cn_line_..., sr_line_...
drafted_line(l) == Rounded(l.tenths) > 0

Constrained(r) ==
  LET lines == RowsOf(r)
  IN  CASE r.form = "PURCHASE_ORDER" -> Every(lines, purchase_order_line)
        [] r.form = "SALES_ORDER" -> Every(lines, sales_order_line)
        [] r.form = "BILL" -> purchase_bill(r.head, lines) /\ Every(lines, purchase_bill_line)
        [] r.form = "DEBIT_NOTE" -> vendor_debit_note(lines)
        [] r.form = "RETURN" -> purchase_return(r.head, lines)
        [] r.form = "RECEIPT" -> Every(lines, goods_receipt_line)
        [] r.form = "TRANSFER" -> stock_transfer(r.head, lines)
        [] r.form = "ADJUSTMENT" -> Every(lines, stock_adjustment_line)
        [] r.form = "PAYMENT" -> payment(r.head)
        [] r.form = "ALLOCATION" -> Every(lines, LAMBDA l : OrZero(l.amount) > 0)
        [] r.form \in {"INVOICE", "CREDIT_NOTE", "SALES_RETURN", "DELIVERY"} ->
             Every(lines, drafted_line)

-----------------------------------------------------------------------------
\* What is derived from the lines when they are saved, each in a numeric(18,4).

Fits(amount) == -(100 * Largest) <= amount /\ amount <= 100 * Largest

\* An amount of each line, and of the document.
Columns(lines, F(_)) ==
  LET amounts == AmountsOf(lines, F)
  IN  {amounts[i] : i \in DOMAIN amounts} \cup {Total(amounts)}
Converted(amounts) == amounts \cup {a * ExchangeRate : a \in amounts}
TradeColumns(lines, After(_)) ==
  Converted(Columns(lines, Gross) \cup Columns(lines, LineDiscount) \cup Columns(lines, After)
            \cup Columns(lines, LAMBDA l : WithTax(After(l))))

AdjustmentCost(l) ==
  IF OrZero(l.delta) < 0 THEN AverageCost
  ELSE IF OrZero(l.cost) = 0 THEN PurchasePrice ELSE OrZero(l.cost)
AdjustmentValue(l) == OrZero(l.delta) * AdjustmentCost(l)
Accepted(l) == l.received - OrZero(l.rejected)

Derived(form, h, lines) ==
  CASE form \in {"PURCHASE_ORDER", "BILL"} ->
         TradeColumns(lines, LAMBDA l : PurchaseNet(h, lines, l))
         \cup Converted({HeaderDiscount(h, Subtotal(lines))})
    [] form = "SALES_ORDER" ->
         TradeColumns(lines, LAMBDA l : SalesNet(h, lines, l))
         \cup Converted({SalesDiscount(h, lines)})
    [] form = "DEBIT_NOTE" -> TradeColumns(lines, Net)
    [] form = "RETURN" -> Columns(lines, LAMBDA l : 100 * l.quantity * ReceivedCost)
    [] form = "RECEIPT" -> Columns(lines, LAMBDA l : 100 * Accepted(l) * ReceivedCost)
    [] form = "TRANSFER" -> Columns(lines, LAMBDA l : 100 * l.quantity * AverageCost)
    [] form = "ADJUSTMENT" -> Columns(lines, LAMBDA l : 100 * AdjustmentValue(l))
    [] form = "PAYMENT" -> Converted({100 * h.amount, 100 * OrZero(h.fee)})
    [] form = "ALLOCATION" ->
         Converted({100 * OrZero(lines[i].amount) : i \in DOMAIN lines})
    [] OTHER -> {}

\* What nobody catches either: a number that its column cannot hold.
TablesAccept(r) ==
  Constrained(r) /\ \A a \in Derived(r.form, r.head, RowsOf(r)) : Fits(a)

-----------------------------------------------------------------------------
\* The posters, over lines of one product: the amounts they write, whether they refuse, and whether the
\* tables refuse them.

\* What posting carries forward: the stock a movement leaves and its worth, line
\* after line, and the header of the journal of a transfer.
UpTo(lines, i, F(_)) == SumFunctionOnSet(AmountsOf(lines, F), {j \in DOMAIN lines : j <= i})
MovedUpTo(lines, i) == UpTo(lines, i, LAMBDA l : l.quantity)
Balance(quantity, worth) == {100 * quantity, 100 * worth}
There(lines, i) ==
  Balance(OnHandThere + MovedUpTo(lines, i), (OnHandThere + MovedUpTo(lines, i)) * AverageCost)
Carried(form, lines) ==
  CASE form = "RECEIPT" ->
         UNION {Balance(OnHand + UpTo(lines, i, Accepted),
                        OnHand * AverageCost + UpTo(lines, i, Accepted) * ReceivedCost) :
                  i \in DOMAIN lines}
    [] form = "TRANSFER" ->
         UNION {There(lines, i) : i \in DOMAIN lines}
         \cup IF SameAccount THEN {}
               ELSE {200 * Total(AmountsOf(lines, LAMBDA l : l.quantity)) * AverageCost}
    [] form = "ADJUSTMENT" ->
         UNION {Balance(OnHand + UpTo(lines, i, LAMBDA l : OrZero(l.delta)),
                        OnHand * AverageCost + UpTo(lines, i, AdjustmentValue)) :
                  i \in DOMAIN lines}
    [] OTHER -> {}
AllFit(amounts) == \A a \in amounts : Fits(a)

\* journal_line_debit_xor_credit, journal_line_amounts_nonneg; zero lines are skipped.
JournalTakesAny(amounts) == DOMAIN amounts # {}
JournalTakes(amounts) == \A i \in DOMAIN amounts : amounts[i] >= 0
ReturnedWithinBilled(lines) ==
  Every(lines, LAMBDA l : l.ofBill => l.quantity <= Remaining)

post_purchase_bill(h, lines) ==
  LET total == BillTotal(h, lines)
  IN  [refused |-> total = 0, fails |-> ~JournalTakes(<<total>>), amounts |-> <<total>>]
post_vendor_debit_note(lines) ==
  LET nets == AmountsOf(lines, Net)
  IN  [refused |-> Total(nets) = 0,
       fails |-> ~JournalTakes(nets) \/ ~ReturnedWithinBilled(lines), amounts |-> nets]
post_purchase_return(lines) ==
  [refused |-> \/ ~Every(lines, LAMBDA l : l.quantity <= Remaining)
               \/ Total(AmountsOf(lines, LAMBDA l : l.quantity)) > OnHand,
   fails |-> FALSE, amounts |-> <<>>]
post_goods_receipt(lines) ==
  [refused |-> FALSE, fails |-> ~AllFit(Carried("RECEIPT", lines)),
   amounts |-> AmountsOf(lines, Accepted)]

\* A line leaves here before it arrives there, and the next line follows.
BurstsThere(lines) ==
  \E i \in DOMAIN lines : MovedUpTo(lines, i) <= OnHand /\ ~AllFit(There(lines, i))
post_stock_transfer(lines) ==
  [refused |-> /\ Total(AmountsOf(lines, LAMBDA l : l.quantity)) > OnHand
               /\ ~BurstsThere(lines),
   fails |-> ~AllFit(Carried("TRANSFER", lines)), amounts |-> <<>>]

\* The side of the journal is the reason's as it is now, not the sign's.
AdjustmentEntry(total) ==
  LET amount == IF total < 0 THEN -total ELSE total
  IN  <<IF increases THEN amount ELSE -amount>>
post_stock_adjustment(lines) ==
  LET total == Total(AmountsOf(lines, AdjustmentValue))
  IN  [refused |-> \/ DOMAIN lines = {}
                   \/ total = 0 /\ AllFit(Carried("ADJUSTMENT", lines))
                   \/ ~Every(lines, LAMBDA l : AdjustmentCost(l) >= 0)
                   \/ Total(AmountsOf(lines, LAMBDA l : -OrZero(l.delta))) > OnHand,
       fails |-> ~AllFit(Carried("ADJUSTMENT", lines)), amounts |-> AdjustmentEntry(total)]
post_delivery(lines) ==
  [refused |-> Total(AmountsOf(lines, LAMBDA l : Rounded(l.tenths))) > OnHand,
   fails |-> FALSE, amounts |-> <<>>]

Posted == {"BILL", "DEBIT_NOTE", "RETURN", "RECEIPT", "TRANSFER", "ADJUSTMENT", "DELIVERY"}
Posting(d) ==
  CASE d.form = "BILL" -> post_purchase_bill(d.head, d.lines)
    [] d.form = "DEBIT_NOTE" -> post_vendor_debit_note(d.lines)
    [] d.form = "RETURN" -> post_purchase_return(d.lines)
    [] d.form = "RECEIPT" -> post_goods_receipt(d.lines)
    [] d.form = "TRANSFER" -> post_stock_transfer(d.lines)
    [] d.form = "ADJUSTMENT" -> post_stock_adjustment(d.lines)
    [] d.form = "DELIVERY" -> post_delivery(d.lines)

-----------------------------------------------------------------------------
\* Requests.

Typed(c) == [form |-> req[c].form, head |-> req[c].head, lines |-> req[c].lines]
Open(c) ==
  IF \A o \in Clerks \ {c} : req[o].at = "idle" THEN Typeable
  ELSE IF \A o \in Clerks \ {c} : Typed(o) \in AtOnce THEN AtOnce ELSE {}

Check(c) ==
  /\ req[c].at = "idle"
  /\ \E r \in Open(c) : req' = [req EXCEPT ![c] =
         [at |-> IF ViewFails(r) THEN "error"
                 ELSE IF FormAccepts(r) THEN "checked" ELSE "told",
          form |-> r.form, head |-> r.head, lines |-> r.lines]]
  /\ UNCHANGED <<docs, booked, increases>>

Doc(c, lines) == [clerk |-> c, form |-> req[c].form, head |-> req[c].head, lines |-> lines]

\* One transaction, but the header of an invoice is committed before its lines.
LeftBehindAny(c) == {Doc(c, <<>>)}
LeftBehind(c) == IF req[c].form = "INVOICE" THEN {Doc(c, <<>>)} ELSE {}
Save(c) ==
  /\ req[c].at = "checked"
  /\ IF TablesAccept(req[c])
     THEN /\ req' = [req EXCEPT ![c].at = "saved"]
          /\ docs' = docs \cup {Doc(c, RowsOf(req[c]))}
     ELSE /\ req' = [req EXCEPT ![c].at = "error"]
          /\ docs' = docs \cup LeftBehind(c)
  /\ UNCHANGED <<booked, increases>>

PostEagerly(c) ==
  /\ req[c].at = "saved" /\ req[c].form \in Posted
  /\ LET p == Posting(CHOOSE d \in docs : d.clerk = c)
     IN  /\ req' = [req EXCEPT ![c].at = IF p.refused THEN "refused" ELSE "posted"]
         /\ booked' = [booked EXCEPT ![c] = p.amounts]
  /\ UNCHANGED <<docs, increases>>
Post(c) ==
  /\ req[c].at = "saved" /\ req[c].form \in Posted
  /\ LET p == Posting(CHOOSE d \in docs : d.clerk = c)
     IN  /\ req' = [req EXCEPT ![c].at =
                      IF p.refused THEN "refused" ELSE IF p.fails THEN "failed" ELSE "posted"]
         /\ booked' = IF p.refused \/ p.fails THEN booked
                      ELSE [booked EXCEPT ![c] = p.amounts]
  /\ UNCHANGED <<docs, increases>>

\* An administrator changes what a reason does (bound: once).
EditReason ==
  /\ increases /\ increases' = FALSE
  /\ \E c \in Clerks : req[c].form = "ADJUSTMENT"
  /\ UNCHANGED <<req, docs, booked>>

EntryNext == (\E c \in Clerks : Check(c) \/ Save(c) \/ Post(c)) \/ EditReason
EntrySpec == EntryInit /\ [][EntryNext]_entryVars

-----------------------------------------------------------------------------
\* The properties.

\* The types; the ledger holds something only for what was posted.
EntryTypeOK ==
  /\ \A c \in Clerks : req[c].at \in Stages
  /\ \A d \in docs : d.clerk \in Clerks /\ req[d.clerk].form = d.form
  /\ \A c \in Clerks : booked[c] # <<>> => req[c].at = "posted"
  /\ increases \in BOOLEAN

Crashed(c) == req[c].at \in {"error", "failed"}

\* A request of which an amount grows larger than its column, saved or posted.
Outgrown(r) == ~AllFit(Derived(r.form, r.head, RowsOf(r)) \cup Carried(r.form, RowsOf(r)))

\* Seven forms and the constraints of their tables were written apart: what
\* such a form lets through, its table and its poster take or turn away with
\* a message, unless an amount made of what was typed outgrows its column:
\* no form multiplies or adds before it accepts.
FormsCoverTheTables ==
  \A c \in Clerks :
    req[c].form \in {"PURCHASE_ORDER", "SALES_ORDER", "RETURN", "TRANSFER",
                     "PAYMENT", "ALLOCATION", "DELIVERY"} /\ Crashed(c)
      => Outgrown(Typed(c))

\* A bill fails only for a line discount above the whole price, for a number
\* another clerk has billed since the form was checked, or for an amount that
\* outgrows its column.
BillsFailForThreeReasons ==
  \A c \in Clerks :
    req[c].form = "BILL" /\ Crashed(c)
      => \/ \E i \in DOMAIN req[c].lines : OrZero(req[c].lines[i].discount) > 100
         \/ \E d \in docs : d.clerk # c /\ d.head.number = req[c].head.number
         \/ Outgrown(Typed(c))

\* PUR-006: whichever of two clerks saves first, one vendor invoice is billed once.
NumbersBilledOnce ==
  \A d, e \in docs :
    d.form = "BILL" /\ e.form = "BILL" /\ d.head.number = e.head.number => d = e

\* What is posted moves no line backwards, and a bill or a note moves something.
PostedHasValue ==
  \A c \in Clerks :
    req[c].at = "posted" /\ req[c].form \in {"BILL", "DEBIT_NOTE", "RECEIPT"}
      => /\ \A i \in DOMAIN booked[c] : booked[c][i] >= 0
         /\ req[c].form = "RECEIPT" \/ Total(booked[c]) > 0

\* Blank rows go, and nothing else does: each line that was filled in is in
\* the document, as often as it was typed.
NothingTypedIsLost ==
  \A d \in docs :
    LET Filled(l) ==
          CASE d.form = "ADJUSTMENT" -> ~IsBlank(l)
            [] d.form = "ALLOCATION" -> OrZero(l.amount) > 0
            [] d.form \in {"INVOICE", "CREDIT_NOTE", "SALES_RETURN", "DELIVERY"} ->
                 l.text = "number" /\ l.tenths > 0
            [] OTHER -> TRUE
    IN  d \in LeftBehind(d.clerk) \/ d.lines = RestrictValues(req[d.clerk].lines, Filled)

\* A clerk who was told, or whose request failed while it was saved, has left
\* nothing behind: except the header of an invoice.
NothingHalfWritten ==
  \A d \in docs :
    req[d.clerk].at \in {"saved", "posted", "refused", "failed"} \/ d.form = "INVOICE"

\* What a form accepts does not end in a server error, but for the reasons and
\* the forms named; and what does leaves nothing behind but what is named.
ErrorsAreTold == FormsCoverTheTables /\ BillsFailForThreeReasons /\ NothingHalfWritten

\* What was typed is what is kept, once, and what is posted of it is worth
\* something.
TypedIsKept == EntryTypeOK /\ NumbersBilledOnce /\ NothingTypedIsLost /\ PostedHasValue
=============================================================================
