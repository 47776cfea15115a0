------------------------------ MODULE MCReports ------------------------------
(* Two invoices in two currencies, three bills (of no stock, of stock without a
   receipt, of received stock), notes and returns of both sides, a receipt and a
   payment, goods, a hand-made journal and a closing entry. *)
EXTENDS Reports, TLC

MCDays == 1 .. 2
MCKind ==
  [i1 |-> "INVOICE", i2 |-> "INVOICE", b1 |-> "BILL", b2 |-> "BILL", b3 |-> "BILL",
   cn |-> "CREDIT_NOTE", dn |-> "DEBIT_NOTE", ds |-> "DEBIT_NOTE",
   sr |-> "SALES_RETURN", pr |-> "PURCHASE_RETURN", rc |-> "RECEIPT", pv |-> "PAYMENT",
   gr |-> "GOODS_RECEIPT", dl |-> "DELIVERY", ad |-> "ADJUSTMENT",
   loan |-> "MANUAL", close |-> "CLOSING"]
MCThings == DOMAIN MCKind
MCWorth == [x \in MCThings |-> IF x \in {"cn", "dn", "ds", "sr", "rc", "dl", "ad", "pr"} THEN 2 ELSE 3]
MCTax == [x \in MCThings |->
            IF MCKind[x] \in {"INVOICE", "BILL", "CREDIT_NOTE", "DEBIT_NOTE", "SALES_RETURN", "RECEIPT"}
            THEN 1 ELSE 0]
MCRecoverable == [x \in MCThings |-> x # "b2"]
MCStocked == [x \in MCThings |-> x \in {"b2", "b3", "ds"}]
MCFromReceipt == [x \in MCThings |-> x = "b3"]
MCCost == [x \in MCThings |-> IF x = "i1" THEN 2 ELSE IF x = "sr" THEN 1 ELSE 0]
MCLag == [x \in MCThings |-> IF x \in {"i1", "b2"} THEN 1 ELSE 0]
MCTerms == [x \in MCThings |-> IF x = "i2" THEN 0 ELSE 1]
MCCurrency == [x \in MCThings |-> IF x = "i2" THEN "EUR" ELSE "USD"]
MCPlans ==
  {{"i1", "cn", "rc"}, {"i1", "i2", "cn"}, {"i1", "sr", "gr", "dl"}, {"b1", "pv"},
   {"b1", "b2", "dn"}, {"gr", "b3", "pr", "ds"}, {"gr", "dl", "ad", "loan"},
   {"i1", "gr", "close"}, {"b2", "dl", "gr", "close"}}
=============================================================================
