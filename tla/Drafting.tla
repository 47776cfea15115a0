------------------------------- MODULE Drafting -------------------------------
(***************************************************************************)
(* The life of one document between its forms and its posting: the views   *)
(* that create, edit, submit, approve, reject and post it, the services    *)
(* they call, and the audit trail they leave (apps/core/audit.py).         *)
(*                                                                         *)
(* A request first loads the row and tests its status, then writes in a    *)
(* transaction.  Most views write the whole row they loaded; some write    *)
(* the columns of the decision alone; payments are locked and read again.  *)
(*                                                                         *)
(* Documents do not meet in this module, so a behaviour has one.           *)
(***************************************************************************)
EXTENDS Naturals

CONSTANTS
  Users,
  Kinds,     \* bound: the kinds of document whose life is looked at
  Terms,     \* what the header says that is not derived: dates, parties, rates
  Amounts,   \* what the lines add up to
  Together,  \* bound: kinds of which two requests overlap
  NoTerms,
  Idle


VARIABLES
  kind,    \* of the document
  row,     \* its header
  lines,   \* what its lines add up to
  ledger,  \* what was booked under the keys its posting uses, 0 if nothing
  signed,  \* what the lines were when the request that approved it read them
  trail,   \* what the audit events, read from first to last, say
  call     \* the request each user has under way

vars == <<kind, row, lines, ledger, signed, trail, call>>

OrderKinds == {"SO", "PO"}
FormKinds == {"PO", "PB", "PR", "DBN", "GR", "ST", "SA"}
NoteKinds == {"DN", "SI", "SR", "CN"}
AllKinds == {"SO", "PAY"} \cup FormKinds \cup NoteKinds

Statuses == {"ABSENT", "DRAFT", "SUBMITTED", "APPROVED", "REJECTED", "POSTED"}
EditableUntilPosted == {"DRAFT", "SUBMITTED", "REJECTED", "APPROVED"}
EDITABLE_STATES == {"DRAFT", "SUBMITTED", "REJECTED"}
Steps == {"edit", "submit", "approve", "reject", "post", "record"}

Headers == [status : Statuses, terms : Terms \cup {NoTerms}, total : Amounts \cup {0}]
Requests == [step : Steps, row : Headers, lines : Amounts \cup {0}]

ASSUME DraftingAssumption ==
  /\ Kinds \subseteq AllKinds
  /\ Amounts \subseteq Nat \ {0}
  /\ NoTerms \notin Terms
  /\ Idle \notin Requests

TypeOK ==
  /\ kind \in Kinds
  /\ row \in Headers
  /\ lines \in Amounts \cup {0}
  /\ ledger \in Amounts \cup {0}
  /\ signed \in Amounts \cup {0}
  /\ trail \in [terms : Terms \cup {NoTerms}, total : Amounts \cup {0},
                status : Statuses, named : BOOLEAN]
  /\ call \in [Users -> Requests \cup {Idle}]

Init ==
  /\ kind \in Kinds
  /\ row = [status |-> "ABSENT", terms |-> NoTerms, total |-> 0]
  /\ lines = 0 /\ ledger = 0 /\ signed = 0
  /\ trail = [terms |-> NoTerms, total |-> 0, status |-> "ABSENT", named |-> TRUE]
  /\ call = [u \in Users |-> Idle]

-----------------------------------------------------------------------------
\* The audit trail.

\* record_update: the fields that differ between the two snapshots.
Changes(before, after) ==
  [terms |-> IF before.terms # after.terms THEN after.terms ELSE trail.terms,
   total |-> IF before.total # after.total THEN after.total ELSE trail.total,
   status |-> trail.status, named |-> trail.named]

\* record_create: the whole row.
Created(after, user) ==
  [terms |-> after.terms, total |-> after.total, status |-> after.status,
   named |-> user]

\* record_action: the decision, by whoever the request or the argument names.
DecidedByNobody(status, user) ==
  [trail EXCEPT !.status = status, !.named = FALSE]
Decided(status, user) ==
  [trail EXCEPT !.status = status, !.named = @ /\ user]

-----------------------------------------------------------------------------
\* Requests.

Alone == kind \in Together \/ \A v \in Users : call[v] = Idle

\* get_object_or_404 and the first test of the status.
Request(u, step, states) ==
  /\ row.status \in states
  /\ call[u] = Idle
  /\ Alone
  /\ call' = [call EXCEPT ![u] = [step |-> step, row |-> row, lines |-> lines]]
  /\ UNCHANGED <<kind, row, lines, ledger, signed, trail>>

\* A form without a primary key: one transaction, the row is nobody else's yet.
Create(content, user) ==
  /\ row.status = "ABSENT"
  /\ \E t \in Terms, a \in Amounts :
       LET new == [status |-> "DRAFT", terms |-> t, total |-> a]
       IN  /\ row' = new
           /\ lines' = a
           /\ trail' = IF content THEN Created(new, user) ELSE Decided("DRAFT", user)
  /\ UNCHANGED <<kind, ledger, signed, call>>

PurchaseOrderFormView(u) ==
  kind = "PO" /\ (Create(TRUE, TRUE) \/ Request(u, "edit", EDITABLE_STATES))
PurchaseBillFormView(u) ==
  kind = "PB" /\ (Create(TRUE, TRUE) \/ Request(u, "edit", {"DRAFT"}))
PurchaseReturnFormView(u) ==
  kind = "PR" /\ (Create(TRUE, TRUE) \/ Request(u, "edit", {"DRAFT"}))
VendorDebitNoteFormView(u) ==
  kind = "DBN" /\ (Create(TRUE, TRUE) \/ Request(u, "edit", {"DRAFT"}))
GoodsReceiptFormView(u) ==
  kind = "GR" /\ (Create(TRUE, TRUE) \/ Request(u, "edit", {"DRAFT"}))
StockTransferFormView(u) ==
  kind = "ST" /\ (Create(TRUE, TRUE) \/ Request(u, "edit", {"DRAFT"}))
StockAdjustmentFormView(u) ==
  kind = "SA" /\ (Create(TRUE, TRUE) \/ Request(u, "edit", EDITABLE_STATES))

SalesOrderCreateView == kind = "SO" /\ Create(TRUE, TRUE)
SalesOrderUpdateView(u) == kind = "SO" /\ Request(u, "edit", EDITABLE_STATES)
PaymentCreateView == kind = "PAY" /\ Create(TRUE, TRUE)
PaymentUpdateView(u) == kind = "PAY" /\ Request(u, "edit", {"DRAFT"})

\* Notes are drafted from another document and have no form of their own.
SalesInvoiceCreateView == kind = "SI" /\ Create(TRUE, TRUE)
DeliveryNoteCreateView == kind = "DN" /\ Create(TRUE, TRUE)
SalesReturnCreateView == kind = "SR" /\ Create(FALSE, FALSE)
CreditNoteCreateView == kind = "CN" /\ Create(FALSE, FALSE)

SubmitView(u) ==
  \/ kind \in {"SO", "PO", "SA", "SR", "CN"} /\ Request(u, "submit", {"DRAFT", "REJECTED"})
  \/ kind = "SI" /\ Request(u, "submit", {"DRAFT", "SUBMITTED"})
ApproveView(u) ==
  \/ kind \in {"SO", "PO", "SR", "CN"} /\ Request(u, "approve", {"SUBMITTED"})
  \/ kind = "SA" /\ Request(u, "approve", EDITABLE_STATES)
RejectView(u) ==
  kind \in {"SO", "PO", "SA", "SR", "CN"} /\ Request(u, "reject", {"SUBMITTED"})

Postable ==
  [PB |-> {"DRAFT"}, PR |-> {"DRAFT"}, DBN |-> {"DRAFT"}, GR |-> {"DRAFT"},
   ST |-> {"DRAFT"}, DN |-> {"DRAFT"}, SA |-> {"APPROVED"}, SI |-> {"SUBMITTED"},
   SR |-> {"SUBMITTED"}, CN |-> {"SUBMITTED"}, PAY |-> {"DRAFT", "POSTED"}]
PostView(u) ==
  kind \notin OrderKinds /\ Request(u, "post", Postable[kind])

-----------------------------------------------------------------------------
\* Transactions.

Under(u, step, k) == kind = k /\ call[u] # Idle /\ call[u].step = step
Answer(u) == call' = [call EXCEPT ![u] = Idle]

\* The line formset writes the lines that differ from those it loaded.
Appended(read, a) == lines + a
Written(read, a) == IF a = read.lines THEN lines ELSE a

\* What the update event is compared with: the row as loaded, or the instance
\* after the form has written its fields into it.
Bound(read, t) == [read.row EXCEPT !.terms = t]
Loaded(read, t) == read.row

\* form.save(), the formset, the recalculation from the lines now in the
\* database, and the event: the header goes back as it was loaded.
SaveForm(u) ==
  LET read == call[u]
  IN  /\ kind \in FormKinds /\ read # Idle /\ read.step = "edit"
      /\ \E t \in Terms, a \in Amounts :
           LET new == [read.row EXCEPT !.terms = t, !.total = Written(read, a)]
           IN  /\ lines' = Written(read, a)
               /\ row' = new
               /\ trail' = Changes(Loaded(read, t), new)
      /\ Answer(u)
      /\ UNCHANGED <<kind, ledger, signed>>

\* The same, but the snapshot is taken when the form has already written its
\* fields into the instance.
SaveSalesOrder(u) ==
  LET read == call[u]
  IN  /\ Under(u, "edit", "SO")
      /\ \E t \in Terms, a \in Amounts :
           LET new == [read.row EXCEPT !.terms = t, !.total = Written(read, a)]
           IN  /\ lines' = Written(read, a)
               /\ row' = new
               /\ trail' = Changes(Bound(read, t), new)
      /\ Answer(u)
      /\ UNCHANGED <<kind, ledger, signed>>

\* update_draft_payment: locked and read again; its view takes the snapshot
\* too late as well, so that only derived amounts are seen to change.
UpdatePayment(u) ==
  LET read == call[u]
  IN  /\ Under(u, "edit", "PAY")
      /\ \E t \in Terms, a \in Amounts :
           LET new == [row EXCEPT !.terms = t, !.total = a]
           IN  /\ lines' = a
               /\ row' = new
               /\ trail' = Changes(Bound(read, t), new)
      /\ Answer(u)
      /\ UNCHANGED <<kind, ledger, signed>>
update_draft_payment(u) == row.status = "DRAFT" /\ UpdatePayment(u)

Outcome(step) ==
  CASE step = "submit" -> "SUBMITTED" [] step = "approve" -> "APPROVED"
    [] step = "reject" -> "REJECTED"  [] step = "post" -> "POSTED"
    [] OTHER -> "DRAFT"

\* A decision: header is the row it is written into, the current one when the
\* columns of the decision are saved alone.
Decide(u, header, status) ==
  /\ row' = [header EXCEPT !.status = status]
  /\ signed' = IF status = "APPROVED" THEN call[u].lines ELSE signed
  /\ UNCHANGED <<kind, lines, ledger>>

\* Orders are approved at once when the company asks for no approval, and
\* adjustments when their reason does not.
Straight(status) ==
  IF status = "SUBMITTED" THEN {"SUBMITTED", "APPROVED"} ELSE {status}

DecidePurchaseOrder(u) ==
  /\ call[u] # Idle /\ kind = "PO" /\ call[u].step \in {"submit", "approve", "reject"}
  /\ \E status \in Straight(Outcome(call[u].step)) :
       Decide(u, row, status) /\ trail' = Decided(status, TRUE)
  /\ Answer(u)

DecideStockAdjustment(u) ==
  /\ call[u] # Idle /\ kind = "SA" /\ call[u].step \in {"submit", "approve", "reject"}
  /\ \E status \in Straight(Outcome(call[u].step)) :
       Decide(u, call[u].row, status) /\ trail' = Decided(status, TRUE)
  /\ Answer(u)

\* The sales services save the decision and record it afterwards, in a
\* transaction of its own and for no user.
DecideSales(u) ==
  /\ call[u] # Idle /\ kind \in {"SO", "SI", "SR", "CN"}
  /\ call[u].step \in {"submit", "approve", "reject"}
  /\ Decide(u, row, Outcome(call[u].step))
  /\ call' = [call EXCEPT ![u] = [call[u] EXCEPT !.step = "record", !.row = row']]
  /\ UNCHANGED trail

RecordSales(u) ==
  /\ call[u] # Idle /\ call[u].step = "record"
  /\ trail' = Decided(call[u].row.status, FALSE)
  /\ Answer(u)
  /\ UNCHANGED <<kind, row, lines, ledger, signed>>

\* The direct posters book what they loaded and save the row they loaded; the
\* key of what they book is unique.
Book(u) ==
  /\ ledger' = call[u].lines
  /\ row' = [call[u].row EXCEPT !.status = "POSTED"]
  /\ trail' = Decided("POSTED", TRUE)
PostDirect(u) ==
  /\ call[u] # Idle /\ kind \in (FormKinds \cup {"DN"}) \ {"PO"} /\ call[u].step = "post"
  /\ IF ledger = 0 THEN Book(u) ELSE UNCHANGED <<ledger, row, trail>>
  /\ Answer(u)
  /\ UNCHANGED <<kind, lines, signed>>

\* The engine answers a repeated key with the entry it wrote the first time.
PostByEngine(u) ==
  /\ call[u] # Idle /\ kind \in {"SI", "SR", "CN"} /\ call[u].step = "post"
  /\ ledger' = IF ledger = 0 THEN lines ELSE ledger
  /\ row' = [row EXCEPT !.status = "POSTED"]
  /\ trail' = Decided("POSTED", TRUE)
  /\ Answer(u)
  /\ UNCHANGED <<kind, lines, signed>>

PostPaymentUnlocked(u) ==
  /\ Under(u, "post", "PAY") /\ call[u].row.status = "DRAFT"
  /\ ledger' = call[u].lines
  /\ row' = [call[u].row EXCEPT !.status = "POSTED"]
  /\ trail' = Decided("POSTED", TRUE)
  /\ Answer(u)
  /\ UNCHANGED <<kind, lines, signed>>
post_payment(u) ==
  /\ Under(u, "post", "PAY")
  /\ \/ /\ row.status = "DRAFT"
        /\ ledger' = lines
        /\ row' = [row EXCEPT !.status = "POSTED"]
     \/ row.status # "DRAFT" /\ UNCHANGED <<ledger, row>>
  /\ trail' = Decided("POSTED", TRUE)
  /\ Answer(u)
  /\ UNCHANGED <<kind, lines, signed>>

\* The form is refused, a check fails, or the worker dies: what is not
\* committed is gone.
Drop(u) ==
  /\ call[u] # Idle
  /\ Answer(u)
  /\ UNCHANGED <<kind, row, lines, ledger, signed, trail>>

Views(u) ==
  \/ PurchaseOrderFormView(u) \/ PurchaseBillFormView(u) \/ PurchaseReturnFormView(u)
  \/ VendorDebitNoteFormView(u) \/ GoodsReceiptFormView(u) \/ StockTransferFormView(u)
  \/ StockAdjustmentFormView(u)
  \/ SalesOrderCreateView \/ SalesOrderUpdateView(u)
  \/ PaymentCreateView \/ PaymentUpdateView(u)
  \/ SalesInvoiceCreateView \/ DeliveryNoteCreateView
  \/ SalesReturnCreateView \/ CreditNoteCreateView
  \/ SubmitView(u) \/ ApproveView(u) \/ RejectView(u) \/ PostView(u)

Transactions(u) ==
  \/ SaveForm(u) \/ SaveSalesOrder(u) \/ update_draft_payment(u)
  \/ DecidePurchaseOrder(u) \/ DecideStockAdjustment(u)
  \/ DecideSales(u) \/ RecordSales(u)
  \/ PostDirect(u) \/ PostByEngine(u) \/ post_payment(u)

Next == \E u \in Users : Views(u) \/ Transactions(u) \/ Drop(u)

Spec == Init /\ [][Next]_vars

-----------------------------------------------------------------------------
\* Properties.

\* A posted document is never edited, decided upon again or un-posted by a
\* form, a button or a late request (BR-004, sales/views.py:322).
PostedStaysPosted ==
  [][row.status = "POSTED" => row' = row /\ lines' = lines /\ ledger' = ledger]_vars

\* What was booked is what the posted document shows, and nothing is booked
\* for a document that still looks open.
LedgerBooksWhatIsShown ==
  IF row.status = "POSTED" THEN ledger = lines /\ row.total = lines ELSE ledger = 0

\* An approved document is what its approver's request read: it was not edited
\* since, and a resubmission was approved anew; an adjustment is posted so.
ApprovedIsWhatWasSigned ==
  row.status = "APPROVED" \/ (kind = "SA" /\ row.status = "POSTED") => lines = signed

\* Where the form takes its snapshot before it touches the instance, the trail
\* read from its beginning says what the header says (ACC-005).
TrailTellsContent ==
  kind \in FormKinds /\ row.status # "ABSENT"
    => trail.terms = row.terms /\ trail.total = row.total

\* Where a decision and its event are one transaction, the last decision on
\* record is the state of the document, and somebody's.
DecisionsAreOnRecord ==
  kind \in FormKinds \cup {"PAY", "DN"} => trail.status = row.status /\ trail.named

\* What is booked is what is shown, and what is approved is what was read.
BookedIsSigned == TypeOK /\ LedgerBooksWhatIsShown /\ ApprovedIsWhatWasSigned

\* The audit trail tells the document: what it says and what was decided
\* (record_update, record_action).
TrailTellsTheDocument == TrailTellsContent /\ DecisionsAreOnRecord
=============================================================================
