-------------------------------- MODULE Sales --------------------------------
(***************************************************************************)
(* Orders, deliveries, invoices, returns and credit notes                  *)
(* (apps/sales/services.py): each document takes a quantity from the line  *)
(* of the one before it, and a counter on that line says how much has been *)
(* taken.                                                                  *)
(***************************************************************************)
EXTENDS Stock

VARIABLES
  delivered,  \* SalesOrderLine.quantity_delivered
  invoiced,   \* DeliveryNoteLine.quantity_invoiced
  returned    \* SalesInvoiceLine.quantity_returned

salesVars == <<delivered, invoiced, returned>>

SalesInit ==
  /\ delivered = [o \in Of("SO") |-> 0]
  /\ invoiced = [n \in Of("DN") |-> 0]
  /\ returned = [i \in Of("SI") |-> 0]

-----------------------------------------------------------------------------
(* What is left of a line.  Return and credit lock it before they ask.     *)

RemainingToDeliver(order) == doc[order].qty - delivered[order]
RemainingToInvoice(note) == doc[note].qty - invoiced[note]
IgnoresReturned(invoice) == doc[invoice].qty
RemainingToReturn(invoice) == doc[invoice].qty - returned[invoice]
\* Credited quantities have no counter; the notes are summed, whatever became of them.
Credited(invoice) == QtyOf(From("CN", invoice))
RemainingToCredit(invoice) == doc[invoice].qty - Credited(invoice)

-----------------------------------------------------------------------------
(* Drafts.                                                                 *)

CreateOrder(d) ==
  /\ Kind[d] = "SO"
  /\ \E q \in Quantities : Draft(d, NoDoc, q, 0, "")
  /\ UNCHANGED <<stockVars, salesVars>>

DraftDelivery(d, order) ==
  /\ Kind[d] = "DN"
  /\ order \in Of("SO")
  /\ doc[order].status \in {"APPROVED", "PARTIAL"}
  /\ \E q \in Quantities :
       /\ q <= RemainingToDeliver(order)
       /\ Draft(d, order, q, 0, "")
  /\ UNCHANGED <<stockVars, salesVars>>

DraftInvoice(d, note) ==
  /\ Kind[d] = "SI"
  /\ note \in Of("DN")
  /\ doc[note].status = "POSTED"
  /\ \E q \in Quantities :
       /\ q <= RemainingToInvoice(note)
       /\ Draft(d, note, q, 0, "")
  /\ UNCHANGED <<stockVars, salesVars>>

\* A return takes its quantity when it is drafted.
DraftReturn(d, invoice) ==
  /\ Kind[d] = "SR"
  /\ invoice \in Of("SI")
  /\ doc[invoice].status \in {"POSTED", "PARTIAL", "COMPLETED"}
  /\ \E q \in Quantities, how \in {"RESTOCK", "WRITE_OFF", "NO_STOCK_EFFECT"} :
       /\ q <= RemainingToReturn(invoice)
       /\ Draft(d, invoice, q, doc[doc[invoice].source].cost, how)
       /\ returned' = [returned EXCEPT ![invoice] = @ + q]
  /\ UNCHANGED <<stockVars, delivered, invoiced>>

DraftCredit(d, invoice) ==
  /\ Kind[d] = "CN"
  /\ invoice \in Of("SI")
  /\ doc[invoice].status \in {"POSTED", "PARTIAL", "COMPLETED"}
  /\ \E q \in Quantities :
       /\ q <= RemainingToCredit(invoice)
       /\ Draft(d, invoice, q, 0, "")
  /\ UNCHANGED <<stockVars, salesVars>>

-----------------------------------------------------------------------------
(* Deliveries.                                                             *)

\* post_delivery compares the note with the counter of the order line and
\* hands over to the costing engine, which waits for the balance.
LoadDelivery(c, d) ==
  LET order == doc[d].source
  IN  /\ Kind[d] = "DN"
      /\ Exists(d)
      /\ doc[d].qty <= RemainingToDeliver(order)
      /\ Load(c, "post", d, delivered[order])
      /\ UNCHANGED <<stockVars, salesVars>>

\* _sync_order_fulfilment, after the counter is written.
StaysCompleted(status, qty, taken) ==
  IF taken >= qty \/ status = "COMPLETED" THEN "COMPLETED"
  ELSE IF status \in {"APPROVED", "PARTIAL"} THEN "PARTIAL"
  ELSE status
Fulfilment(status, qty, taken) ==
  IF taken >= qty THEN "COMPLETED"
  ELSE IF status \in {"APPROVED", "COMPLETED", "PARTIAL"} THEN "PARTIAL"
  ELSE status

\* The counter becomes what was read plus the delivered quantity.
PostDelivery(c) ==
  LET d == call[c].doc
      order == doc[d].source
      q == doc[d].qty
      cost == balance[Main].avg
      taken == call[c].read + q
  IN  /\ Posting(c, "DN")
      /\ KeysAreFree(d)
      /\ MoveOut(Main, q)
      /\ gl' = Booked("COGS", "INVENTORY", MoneyOf(q, cost))
      /\ delivered' = [delivered EXCEPT ![order] = taken]
      /\ Post(c, [Posted(d, cost, MoneyOf(q, cost)) EXCEPT ![order].status =
                    Fulfilment(@, doc[order].qty, taken)])
      /\ UNCHANGED <<invoiced, returned>>

-----------------------------------------------------------------------------
(* Invoices, returns and notes: decisions and posts.                       *)

LoadSales(c, step, d) ==
  /\ Kind[d] \in {"SO", "SI", "SR", "CN"}
  /\ Load(c, step, d, 0)
  /\ UNCHANGED <<stockVars, salesVars>>

\* The cost of goods of an entry: the engine answers a repeated key with its
\* first entry and writes nothing.
BooksAgain(d, cost) == MoneyOf(doc[d].qty, cost)
CostBooked(d, cost) == IF KeysAreFree(d) THEN MoneyOf(doc[d].qty, cost) ELSE 0

\* dn_line_invoiced_within_delivered, on a counter added to in the database.
AnyQuantity(note, q) == TRUE
WithinDelivered(note, q) == invoiced[note] + q <= doc[note].qty

\* post_invoice: the status and the counter are written whatever the engine
\* answers.
PostInvoice(c) ==
  LET d == call[c].doc
      note == doc[d].source
      cogs == CostBooked(d, doc[note].cost)
  IN  /\ Posting(c, "SI")
      /\ WithinDelivered(note, doc[d].qty)
      /\ invoiced' = [invoiced EXCEPT ![note] = @ + doc[d].qty]
      /\ gl' = Booked("COGS", "INVENTORY", cogs)
      /\ Post(c, Posted(d, doc[note].cost, doc[d].value + cogs))
      /\ UNCHANGED <<balance, moved, delivered, returned>>

\* post_return: goods put back on the shelf are put back in the ledger, and
\* nowhere else.
PostReturn(c) ==
  LET d == call[c].doc
      cogs == IF doc[d].how = "RESTOCK" THEN CostBooked(d, doc[d].cost) ELSE 0
  IN  /\ Posting(c, "SR")
      /\ gl' = Booked("INVENTORY", "COGS", cogs)
      /\ Post(c, Posted(d, doc[d].cost, doc[d].value + cogs))
      /\ UNCHANGED <<balance, moved, salesVars>>

\* post_credit_note moves money only.
PostCredit(c) ==
  /\ Posting(c, "CN")
  /\ Post(c, Posted(call[c].doc, 0, 0))
  /\ UNCHANGED <<stockVars, salesVars>>
=============================================================================
