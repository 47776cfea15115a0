-------------------------------- MODULE Trade --------------------------------
(***************************************************************************)
(* Selling and buying over one stock: the users of both sides draft        *)
(* documents, decide on them and post them, two requests at a time.        *)
(***************************************************************************)
EXTENDS Sales, Purchasing

tradeVars == <<docVars, stockVars, salesVars, purchaseVars>>

TradeInit == DocumentsInit /\ StockInit /\ SalesInit /\ PurchasingInit

Begin(c, step, d) ==
  \/ LoadSales(c, step, d) /\ UNCHANGED purchaseVars
  \/ LoadPurchase(c, step, d) /\ UNCHANGED salesVars
  \/ step = "post" /\ LoadDelivery(c, d) /\ UNCHANGED purchaseVars
  \/ /\ Kind[d] \in {"ST", "SA"}
     /\ Load(c, step, d, 0)
     /\ UNCHANGED <<stockVars, salesVars, purchaseVars>>

Enter(d) ==
  \/ /\ \/ CreateOrder(d)
        \/ \E source \in Entered : DraftDelivery(d, source) \/ DraftInvoice(d, source)
                                   \/ DraftReturn(d, source) \/ DraftCredit(d, source)
     /\ UNCHANGED purchaseVars
  \/ /\ CreatePurchaseOrder(d) \/ \E source \in Entered \cup {NoDoc} : DraftPurchase(d, source)
     /\ UNCHANGED salesVars
  \/ /\ DraftTransfer(d) \/ DraftAdjustment(d)
     /\ UNCHANGED <<salesVars, purchaseVars>>

Write(c) ==
  \/ Decide(c) /\ UNCHANGED <<stockVars, salesVars, purchaseVars>>
  \/ /\ PostDelivery(c) \/ PostInvoice(c) \/ PostReturn(c) \/ PostCredit(c)
     /\ UNCHANGED purchaseVars
  \/ /\ PostReceipt(c) \/ PostBill(c) \/ PostPurchaseReturn(c) \/ PostDebitNote(c)
     /\ UNCHANGED salesVars
  \/ /\ PostAdjustment(c) \/ \E to \in Warehouses : PostTransfer(c, to)
     /\ UNCHANGED <<salesVars, purchaseVars>>

TradeNext ==
  \/ \E d \in {d \in Docs : doc[d] = Blank} : Enter(d)
  \/ \E c \in Callers, step \in Steps, d \in Entered : Begin(c, step, d)
  \/ \E c \in Callers : Write(c)
  \/ \E c \in Callers : Abandon(c) /\ UNCHANGED <<stockVars, salesVars, purchaseVars>>

TradeSpec == TradeInit /\ [][TradeNext]_tradeVars
-----------------------------------------------------------------------------
(* Properties.                                                             *)

\* Rows, balances, counters and requests have their types; stock goes below
\* zero only where the warehouse allows it (StockBalance, StockDocumentBase).
TradeTypeOK ==
  /\ doc \in [Docs -> Document \cup {Blank, Unused}]
  /\ written \subseteq Docs
  /\ \A c \in Callers : call[c] = Idle \/
       call[c] \in [step : Steps, doc : {d \in Docs : Exists(d)}, read : Nat]
  /\ \A w \in Warehouses : balance[w] \in [qty : Int, value : Int, avg : Nat]
  /\ \A w \in Warehouses \ Negative : balance[w].qty >= 0
  /\ gl \in [Accounts -> Int]
  /\ delivered \in [Of("SO") -> Nat] /\ invoiced \in [Of("DN") -> Nat]
  /\ returned \in [Of("SI") -> Nat] /\ received \in [Of("PO") -> Nat]
  /\ billed \in [Of("GR") -> Nat] /\ sentBack \in [Of("GR") \cup Of("PB") -> Nat]

\* A balance holds what the movements of its warehouse explain
\* (post_stock_movement): the quantity exactly and, where stock stays at or above
\* zero, the value up to the rounding of the average each shipment was costed at,
\* and nothing once it is empty.
BalanceFollowsMovements ==
  \A w \in Warehouses :
    LET b == balance[w]
        m == moved[w]
        drift == b.value - (m.receivedValue - m.shippedValue)
        size == IF drift < 0 THEN -drift ELSE drift
    IN  /\ b.qty = m.received - m.shipped
        /\ w \notin Negative =>
             /\ b.qty = 0 => b.value = 0
             /\ 2 * Scale * size <= Scale * m.shipments + m.shipped

PostedOf(kind, source) == {d \in From(kind, source) : d \in written}

\* However many drafts and calls overlap, the posted invoices of a delivery
\* never bill more than it delivered (SAL-006, create_invoice_from_delivery and
\* post_invoice).
NothingInvoicedTwice ==
  \A n \in {n \in Of("DN") : Exists(n)} :
    /\ QtyOf(PostedOf("SI", n)) <= invoiced[n]
    /\ invoiced[n] <= doc[n].qty

\* Returns and credit notes of an invoice, rejected ones included, each stay
\* within the invoice (RET-001, RET-004), whoever drafts them together.
ReturnsStayWithinInvoice ==
  \A i \in {i \in Of("SI") : Exists(i)} :
    /\ QtyOf(From("SR", i)) = returned[i]
    /\ returned[i] <= doc[i].qty
    /\ Credited(i) <= doc[i].qty

\* An order is completed only by a counter that covers it (SAL-005,
\* _sync_order_fulfilment), although calls overwrite the counter.
CompletedMeansDelivered ==
  \A o \in {o \in Of("SO") : Exists(o)} :
    doc[o].status = "COMPLETED" => delivered[o] >= doc[o].qty

\* What separates the inventory accounts from the movements, in full: invoices
\* book the cost of a delivery again and restocked returns take it back, bills
\* without a receipt debit goods that no movement brought, and vendor returns
\* move goods that only a debit note, at its own price, takes out of the ledger.
InventoryInLedger == SumOver(InventoryAccounts, LAMBDA a : gl[a])
NetMoved == SumOver(Warehouses, LAMBDA w : moved[w].receivedValue - moved[w].shippedValue)
WrittenOf(kind) == Of(kind) \cap written
InventoryDifferenceIsExplained ==
  InventoryInLedger - NetMoved =
    ValueOf(WrittenOf("SR")) - ValueOf(WrittenOf("SI"))
    + ValueOf({b \in WrittenOf("PB") : doc[b].source = NoDoc})
    + ValueOf(WrittenOf("PR")) - ValueOf(WrittenOf("DBN"))

\* Goods received and not billed: the accrual is what receipts booked less what
\* the bills of those receipts booked (PUR-008, post_goods_receipt and
\* post_purchase_bill), and nothing else touches it.
AccrualIsReceiptsLessBills ==
  -gl["GOODS_IN_TRANSIT"] =
    ValueOf(WrittenOf("GR")) - ValueOf({b \in WrittenOf("PB") : doc[b].source # NoDoc})

\* Every unit that moved was moved by one posted document, and by it once
\* (the idempotency keys of StockMovement), however often its posting was called.
StockMovesWithDocuments ==
  LET shipping == WrittenOf("DN") \cup WrittenOf("ST")
        \cup {d \in WrittenOf("PR") : doc[d].how # "NO_STOCK_EFFECT"}
        \cup {d \in WrittenOf("SA") : doc[d].how = "decrease"}
      receiving == WrittenOf("GR") \cup WrittenOf("ST")
        \cup {d \in WrittenOf("SA") : doc[d].how = "increase"}
  IN  /\ SumOver(Warehouses, LAMBDA w : moved[w].shipped) = QtyOf(shipping)
      /\ SumOver(Warehouses, LAMBDA w : moved[w].received)
           = OpeningStock + QtyOf(receiving)

\* What a document was posted at never changes: a second call that overtakes
\* the status writes no second entry (PostingEngine.post, post_stock_movement).
PostedValuesStand == [][\A d \in written :
  doc'[d].value = doc[d].value /\ doc'[d].cost = doc[d].cost]_tradeVars

\* Stock is explained: by its movements, and they by posted documents
\* (post_stock_movement).
StockIsExplained == TradeTypeOK /\ BalanceFollowsMovements /\ StockMovesWithDocuments

\* No document takes more from its source line than the line has, on any of the
\* counters that calls are kept apart on (the services of apps/sales).
QuantitiesStayWithinSource ==
  NothingInvoicedTwice /\ ReturnsStayWithinInvoice /\ CompletedMeansDelivered

\* Ledger and stock differ by what is named, to the last unit.
LedgerExplainsStock == InventoryDifferenceIsExplained /\ AccrualIsReceiptsLessBills
=============================================================================
