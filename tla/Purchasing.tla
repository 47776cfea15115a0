------------------------------ MODULE Purchasing ------------------------------
(***************************************************************************)
(* Orders, receipts, bills, returns and debit notes of vendors             *)
(* (apps/purchases/services.py, and the receipt in inventory/services.py). *)
(* Every posting reads the line it takes from before its transaction and   *)
(* writes back what it read plus its own quantity.                         *)
(***************************************************************************)
EXTENDS Stock

VARIABLES
  received,  \* PurchaseOrderLine.quantity_received
  billed,    \* GoodsReceiptLine.quantity_billed
  sentBack   \* quantity_returned of receipt lines and of bill lines

purchaseVars == <<received, billed, sentBack>>

PurchasingInit ==
  /\ received = [o \in Of("PO") |-> 0]
  /\ billed = [r \in Of("GR") |-> 0]
  /\ sentBack = [s \in Of("GR") \cup Of("PB") |-> 0]

-----------------------------------------------------------------------------
(* Drafts.  The forms compare no quantity with the document behind it.     *)

CreatePurchaseOrder(d) ==
  /\ Kind[d] = "PO"
  /\ \E q \in Quantities : Draft(d, NoDoc, q, 0, "")
  /\ UNCHANGED <<stockVars, purchaseVars>>

\* The documents a draft of each kind may refer to.  A bill prefilled from an
\* order names no receipt line, as one entered by hand.
Origins(kind) ==
  CASE kind = "GR" -> {NoDoc} \cup
         {o \in Of("PO") : doc[o].status \in {"APPROVED", "PARTIAL", "COMPLETED"}}
    [] kind = "PB" -> {NoDoc} \cup {r \in Of("GR") : doc[r].status = "POSTED"}
    [] kind = "PR" -> {s \in Of("GR") \cup Of("PB") : doc[s].status = "POSTED"}
    [] kind = "DBN" -> {s \in Of("PR") \cup Of("PB") : doc[s].status = "POSTED"}
    [] OTHER -> {}

\* cost is the price of the line; how is what a return does to stock.
DraftPurchase(d, source) ==
  /\ Kind[d] \in {"GR", "PB", "PR", "DBN"}
  /\ source \in Origins(Kind[d])
  /\ \E q \in Quantities, price \in Costs,
        how \in IF Kind[d] = "PR" THEN {"RESTOCK", "NO_STOCK_EFFECT"} ELSE {""} :
       Draft(d, source, q, IF Kind[d] = "PR" THEN 0 ELSE price, how)
  /\ UNCHANGED <<stockVars, purchaseVars>>

-----------------------------------------------------------------------------
(* Requests.                                                               *)

\* The counter of the line behind the document, as the lines are listed.
CounterBehind(d) ==
  LET source == doc[d].source
  IN  CASE Kind[d] = "GR" /\ source # NoDoc -> received[source]
        [] Kind[d] = "PB" /\ source # NoDoc -> billed[source]
        [] Kind[d] = "PR" -> sentBack[source]
        [] Kind[d] = "DBN" /\ source \in Of("PB") -> sentBack[source]
        [] OTHER -> 0

LoadPurchase(c, step, d) ==
  /\ Kind[d] \in {"PO", "GR", "PB", "PR", "DBN"}
  /\ Exists(d)
  /\ Kind[d] = "PR" => doc[d].qty <= doc[doc[d].source].qty - sentBack[doc[d].source]
  /\ Load(c, step, d, CounterBehind(d))
  /\ UNCHANGED <<stockVars, purchaseVars>>

\* What the counter of the line behind it becomes.
Taken(counter, c) ==
  LET d == call[c].doc
  IN  IF doc[d].source \in DOMAIN counter
      THEN [counter EXCEPT ![doc[d].source] = call[c].read + doc[d].qty]
      ELSE counter
\* The constraints of the database on a counter.
Within(counter) == \A s \in DOMAIN counter : counter[s] > 0 => counter[s] <= doc[s].qty

\* post_goods_receipt: in at the price, against what is received and not billed.
PostReceipt(c) ==
  LET d == call[c].doc
      amount == MoneyOf(doc[d].qty, doc[d].cost)
  IN  /\ Posting(c, "GR")
      /\ KeysAreFree(d)
      /\ MoveIn(Main, doc[d].qty, doc[d].cost)
      /\ gl' = Booked("INVENTORY", "GOODS_IN_TRANSIT", amount)
      /\ received' = Taken(received, c)
      /\ Post(c, Posted(d, doc[d].cost, amount))
      /\ UNCHANGED <<billed, sentBack>>

\* A bill line clears the accrual of its receipt, or is inventory when it has none.
AlwaysInventory(source) == "INVENTORY"
BillAccount(source) == IF source = NoDoc THEN "INVENTORY" ELSE "GOODS_IN_TRANSIT"

\* post_purchase_bill.
PostBill(c) ==
  LET d == call[c].doc
      amount == MoneyOf(doc[d].qty, doc[d].cost)
  IN  /\ Posting(c, "PB")
      /\ KeysAreFree(d)
      /\ amount > 0
      /\ gl' = Booked(BillAccount(doc[d].source), "ACCOUNTS_PAYABLE", amount)
      /\ billed' = Taken(billed, c)
      /\ Within(billed')
      /\ Post(c, Posted(d, doc[d].cost, amount))
      /\ UNCHANGED <<balance, moved, received, sentBack>>

\* post_purchase_return: out at the average and no journal; nothing moves, and
\* no key stands in the way, when it has no effect on stock.
PostPurchaseReturn(c) ==
  LET d == call[c].doc
      cost == balance[Main].avg
  IN  /\ Posting(c, "PR")
      /\ \/ /\ doc[d].how = "NO_STOCK_EFFECT"
            /\ Post(c, Posted(d, 0, 0))
            /\ UNCHANGED <<balance, moved>>
         \/ /\ doc[d].how = "RESTOCK"
            /\ KeysAreFree(d)
            /\ MoveOut(Main, doc[d].qty)
            /\ Post(c, Posted(d, cost, MoneyOf(doc[d].qty, cost)))
      /\ sentBack' = Taken(sentBack, c)
      /\ UNCHANGED <<gl, received, billed>>

\* post_vendor_debit_note: out of inventory at the price of the note, and out
\* of what the bill may still return when no return did that.
PostDebitNote(c) ==
  LET d == call[c].doc
      amount == MoneyOf(doc[d].qty, doc[d].cost)
  IN  /\ Posting(c, "DBN")
      /\ KeysAreFree(d)
      /\ amount > 0
      /\ gl' = Booked("ACCOUNTS_PAYABLE", "INVENTORY", amount)
      /\ sentBack' = Taken(sentBack, c)
      /\ Within(sentBack')
      /\ Post(c, Posted(d, doc[d].cost, amount))
      /\ UNCHANGED <<balance, moved, received, billed>>
=============================================================================
