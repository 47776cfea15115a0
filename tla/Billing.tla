------------------------------ MODULE Billing ------------------------------
(***************************************************************************)
(* What documents are worth and what they post: a sales order and the      *)
(* invoice over what was delivered of it; credit notes and returns over    *)
(* the invoice; a purchase bill or a vendor debit note.  Trade has their   *)
(* quantities and races; here every call runs alone and the subject is     *)
(* whether amounts agree from one document to the next and with the        *)
(* ledger.                                                                 *)
(*                                                                         *)
(* Left out: the cost lines of the journals (Stock, Trade), submission and *)
(* approval (Trade), numbers, dates and accounts, which can only refuse.   *)
(***************************************************************************)
EXTENDS Pricing

CONSTANTS
  Forms,      \* bound: what a user may enter: sequences of lines
  Headers,    \* header discounts: [kind, value]
  Quantities, \* bound: what may be taken of a line
  Rates,      \* exchange rates a document may have, RateScale being 1
  Reversals,  \* bound: credit notes and returns that may be drafted
  Absent      \* a document that does not exist

\* What the tables take; a bill may have a line discount below zero.  (Bound:
\* whole percentages, and a debit note's lines as a bill's.)
FormLine == [quantity : Nat \ {0}, price : Nat, off : {n \in Int : n <= Hundred},
             tax : 0 .. Hundred, inclusive : BOOLEAN]
ASSUME BillingAssumption ==
  /\ \A lines \in Forms :
       /\ Len(lines) \in Nat \ {0} /\ lines = [i \in 1 .. Len(lines) |-> lines[i]]
       /\ \A i \in 1 .. Len(lines) : lines[i] \in FormLine
  /\ \A header \in Headers : header.value \in Int
  /\ Rates \subseteq Nat /\ Quantities \subseteq Nat
  /\ IsFiniteSet(Reversals) /\ Reversals \cap {"invoice", "purchase"} = {}

ReversalKinds == {"CREDIT_NOTE", "RETURN"}
PurchaseKinds == {"BILL", "DEBIT_NOTE"}

VARIABLES
  order,     \* the sales order
  invoice,   \* the invoice made from its delivery
  reversal,  \* credit notes and returns of the invoice
  purchase,  \* a bill or a debit note
  journal    \* journals posted, by document: what each account moved by

billingVars == <<order, invoice, reversal, purchase, journal>>

NoDiscount == [kind |-> "NONE", value |-> 0]

BillingInit ==
  /\ order = Absent
  /\ invoice = Absent
  /\ reversal = [n \in Reversals |-> Absent]
  /\ purchase = Absent
  /\ journal = [d \in {"invoice", "purchase"} \cup Reversals |-> Absent]

-----------------------------------------------------------------------------
(* Journals: debits positive, the control account apart from the rest.     *)

Balanced(entry) == entry.control + Total(entry.others) = 0 /\ entry.control # 0

\* The ledger takes a balanced entry and refuses any other: the engine before
\* it writes, the trigger of the direct posters at the commit.
PostAnything(d, entry) ==
  /\ journal[d] = Absent
  /\ journal' = [journal EXCEPT ![d] = entry]
Post(d, entry) ==
  /\ journal[d] = Absent
  /\ Balanced(entry)
  /\ journal' = [journal EXCEPT ![d] = entry]

\* build_sales_invoice_journal: header amounts at the rate.  The rounding line
\* is a debit when the total was rounded up and a credit when it was rounded
\* down.
InvoiceJournal(doc) ==
  LET h == doc.header
      B(x) == InBase(x, h.rate)
  IN  [control |-> B(h.total), others |-> <<-B(h.base), -B(h.tax), B(h.rounding)>>]

\* build_sales_credit_note_journal and build_sales_return_journal: the list
\* price of the invoice line, tax on top of it, and no exchange rate.
ReversalJournal(doc) ==
  LET list == [i \in DOMAIN doc.taken |-> invoice.lines[i].price * doc.taken[i]]
      net == Total(list)
      tax == Nearest(Total([i \in DOMAIN list |-> list[i] * invoice.lines[i].tax]), Hundred)
  IN  [control |-> -(net + tax), others |-> <<net, tax>>]

\* post_purchase_bill and post_vendor_debit_note: every line at the rate,
\* against the header's total at the rate.
BillJournalFromHeader(doc) ==
  LET h == doc.header
      sign == IF doc.kind = "BILL" THEN 1 ELSE -1
      B(x) == InBase(x, h.rate)
      tax == Nearest(h.base * doc.lines[1].tax, Hundred)
  IN  [control |-> -sign * B(h.total), others |-> <<sign * B(h.base), sign * B(tax)>>]
BillJournal(doc) ==
  LET h == doc.header
      sign == IF doc.kind = "BILL" THEN 1 ELSE -1
      B(x) == InBase(x, h.rate)
  IN  [control |-> -sign * B(h.total),
       others |-> [i \in DOMAIN doc.amounts |->
                     sign * (B(doc.amounts[i].base) + B(doc.amounts[i].tax))]]

\* journal_line_debit_xor_credit: no line of a bill may be booked below zero.
OneSided(doc) ==
  \A i \in DOMAIN doc.amounts : doc.amounts[i].base >= 0 /\ doc.amounts[i].tax >= 0

-----------------------------------------------------------------------------
(* Sales.                                                                  *)

\* The order form and recalculate_order.  (Bound: a behaviour follows a sale
\* or a purchase, entered once: saving it again derives everything anew.)
SaveOrder ==
  /\ order = Absent
  /\ purchase = Absent
  /\ \E lines \in Forms, header \in Headers, rate \in Rates :
       /\ \A i \in DOMAIN lines : lines[i].off >= 0
       /\ header.kind = "PERCENT" => header.value \in 0 .. Hundred
       /\ LET amounts == SalesAmounts(lines, header)
          IN  order' = [lines |-> lines, discount |-> header, amounts |-> amounts,
                        header |-> SalesTotals(amounts, rate)]
  /\ UNCHANGED <<invoice, reversal, purchase, journal>>

\* create_invoice_from_delivery: price and tax of the order line, no discount;
\* recalculate_invoice allocates none.
Takings(lines) ==
  {taken \in [DOMAIN lines -> Quantities] :
     /\ \E i \in DOMAIN lines : taken[i] > 0
     /\ \A i \in DOMAIN lines : taken[i] <= lines[i].quantity}
TakenLines(lines, taken) ==
  RestrictValues([i \in DOMAIN lines |-> [lines[i] EXCEPT !.quantity = taken[i], !.off = 0]],
                 LAMBDA l : l.quantity > 0)
CreateInvoice ==
  /\ order # Absent
  /\ invoice = Absent
  /\ \E taken \in Takings(order.lines) :
       LET lines == TakenLines(order.lines, taken)
           amounts == SalesAmounts(lines, NoDiscount)
       IN  invoice' = [lines |-> lines, amounts |-> amounts,
                       header |-> SalesTotals(amounts, order.header.rate)]
  /\ UNCHANGED <<order, reversal, purchase, journal>>

PostInvoice ==
  /\ invoice # Absent
  /\ Post("invoice", InvoiceJournal(invoice))
  /\ UNCHANGED <<order, invoice, reversal, purchase>>

\* remaining_to_credit counts the credit notes of the line, remaining_to_return
\* its returns: each ignores the other.
Of(kind) == {n \in Reversals : reversal[n] # Absent /\ reversal[n].kind = kind}
RemainingToday(kind, i) == invoice.lines[i].quantity
Remaining(kind, i) ==
  invoice.lines[i].quantity - Total([n \in Of(kind) |-> reversal[n].taken[i]])

\* draft_credit_note_from_invoice and draft_return_from_invoice.  A note has
\* totals of its own, a return has none.
NoteTotals(taken) ==
  LET lines == TakenLines(invoice.lines, taken)
  IN  SalesTotals(SalesAmounts(lines, NoDiscount), invoice.header.rate)
DraftReversal(n, kind) ==
  /\ journal["invoice"] # Absent
  /\ reversal[n] = Absent
  /\ \E taken \in Takings(invoice.lines) :
       /\ \A i \in DOMAIN taken : taken[i] <= Remaining(kind, i)
       /\ reversal' = [reversal EXCEPT ![n] =
            [kind |-> kind, taken |-> taken,
             header |-> IF kind = "RETURN" THEN Absent ELSE NoteTotals(taken)]]
  /\ UNCHANGED <<order, invoice, purchase, journal>>

PostReversal(n) ==
  /\ reversal[n] # Absent
  /\ Post(n, ReversalJournal(reversal[n]))
  /\ UNCHANGED <<order, invoice, reversal, purchase>>

-----------------------------------------------------------------------------
(* Purchasing.                                                             *)

\* The bill form with recalculate_bill, the debit-note form with
\* recalculate_debit_note, which knows no header discount.
SavePurchase ==
  /\ order = Absent
  /\ purchase = Absent
  /\ \E kind \in PurchaseKinds, lines \in Forms, header \in Headers, rate \in Rates :
       /\ kind = "DEBIT_NOTE" => header = NoDiscount
       /\ LET amounts == PurchaseAmounts(lines, header)
          IN  purchase' = [kind |-> kind, lines |-> lines, discount |-> header,
                           amounts |-> amounts,
                           header |-> PurchaseTotals(amounts, BillDiscount(lines, header), rate)]
  /\ UNCHANGED <<order, invoice, reversal, journal>>

PostPurchase ==
  /\ purchase # Absent
  /\ OneSided(purchase)
  /\ Post("purchase", BillJournal(purchase))
  /\ UNCHANGED <<order, invoice, reversal, purchase>>

-----------------------------------------------------------------------------
BillingNext ==
  \/ SaveOrder \/ CreateInvoice \/ PostInvoice
  \/ \E n \in Reversals :
       \/ \E kind \in ReversalKinds : DraftReversal(n, kind)
       \/ PostReversal(n)
  \/ SavePurchase \/ PostPurchase

BillingSpec == BillingInit /\ [][BillingNext]_billingVars

-----------------------------------------------------------------------------
(* Properties.                                                             *)

Posted(d) == journal[d] # Absent
PostedOf(kind) == {n \in Of(kind) : Posted(n)}

\* Documents keep their shape; no order or bill totals below zero, and no line
\* is charged less than nothing, but for the fractions of a rounded discount
\* that land on the last line of a bill.
Fits(doc, low) ==
  /\ \A i \in DOMAIN doc.lines : doc.lines[i] \in FormLine
  /\ DOMAIN doc.amounts = DOMAIN doc.lines
  /\ \A i \in DOMAIN doc.amounts :
       doc.amounts[i].gross - doc.amounts[i].off \in Nat /\ doc.amounts[i].net > low
  /\ doc.header.total \in Nat
BillingTypeOK ==
  /\ order # Absent => Fits(order, -1)
  /\ invoice # Absent => Fits(invoice, -1)
  /\ purchase # Absent => Fits(purchase, -Len(purchase.lines))
  /\ \A n \in Reversals : reversal[n] = Absent \/ reversal[n].kind \in ReversalKinds

\* BR-011: the shares of a header discount sum to the discount, to the last
\* unit, so what a document takes off is what its lines take off; only a sales
\* discount beyond what a line has left is lost.
NetOf(doc) == Column(doc.amounts, LAMBDA a : a.net)
LeftOf(doc) == doc.header.subtotal - doc.header.off - doc.header.discount
Clamped(doc) == \E i \in DOMAIN doc.amounts :
  doc.amounts[i].gross - doc.amounts[i].off < doc.amounts[i].share
DiscountsFoot ==
  /\ order # Absent =>
       /\ order.header.discount = SalesDiscount(order.discount, order.header.subtotal)
       /\ NetOf(order) >= LeftOf(order)
       /\ ~Clamped(order) => NetOf(order) = LeftOf(order)
  /\ purchase # Absent => NetOf(purchase) = LeftOf(purchase)

\* BR-006 and GL-011: whatever is posted is balanced, and an invoice, a bill or
\* a debit note moves its control account by the very total it shows, which for
\* an invoice means that its total needed no rounding.
LedgerAgreesWithDocuments ==
  /\ \A d \in DOMAIN journal : Posted(d) => Balanced(journal[d])
  /\ Posted("invoice") =>
       journal["invoice"].control = InBase(invoice.header.total, invoice.header.rate)
  /\ Posted("purchase") =>
       journal["purchase"].control \in
         {x * InBase(purchase.header.total, purchase.header.rate) : x \in {-1, 1}}

\* How far a document's journal is from balance, and so whether it can post: a
\* domestic bill or debit note never is, a foreign one by at most one unit a
\* line; an invoice by twice its rounding.
Gap(entry) == entry.control + Total(entry.others)
Within(n, x) == x \in -n .. n
ImbalanceIsOnlyRounding ==
  /\ purchase # Absent =>
       Within(IF purchase.header.rate = RateScale THEN 0 ELSE Len(purchase.lines),
              Gap(BillJournal(purchase)))
  /\ invoice # Absent =>
       Within(IF invoice.header.rate = RateScale THEN 0 ELSE 2,
              Gap(InvoiceJournal(invoice)) - 2 * InBase(invoice.header.rounding, invoice.header.rate))

\* RET-001, RET-004: however an invoice is credited in parts, credit notes
\* reverse no more of the receivable than the invoice booked, in base currency
\* and with no tax inside the prices, and so do returns (each by itself: the
\* two do not know of one another).  Each line of the invoice and each note
\* rounds its tax, and that is all by which they may differ.
InTheirOwnTerms == invoice.header.rate = RateScale /\ \A i \in DOMAIN invoice.lines :
  ~invoice.lines[i].inclusive
Halves(kind) == Cardinality(PostedOf(kind)) + Cardinality(DOMAIN invoice.lines)
ReversalsStayWithinInvoice ==
  Posted("invoice") /\ InTheirOwnTerms =>
    \A kind \in ReversalKinds :
      -Total([n \in PostedOf(kind) |-> journal[n].control])
        <= journal["invoice"].control + Halves(kind) \div 2

\* From line to header to ledger amounts agree, and where they do not it is by
\* the rounding alone.
AmountsAgree ==
  BillingTypeOK /\ DiscountsFoot /\ LedgerAgreesWithDocuments /\ ImbalanceIsOnlyRounding
=============================================================================
