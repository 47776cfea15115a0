---------------------------- MODULE DraftingProofs ----------------------------
(***************************************************************************)
(* Proofs about what users type: documents and the requests over them, and *)
(* what the forms let through.                                             *)
(***************************************************************************)
EXTENDS Drafting, Entry, Sums, TLAPS

-----------------------------------------------------------------------------
(***************************************************************************)
(* What is booked is what was shown and signed, a posted document stays as *)
(* it is, and the audit trail tells the document, for any number of users, *)
(* headers and contents.                                                   *)
(*                                                                         *)
(* A request decides on what it loaded and writes what it loaded, so the   *)
(* invariant says how far that is still true of the row when it writes.    *)
(* Where views write whole rows this takes that no other request is under  *)
(* way; payments are read again under their lock, and a delivery has no    *)
(* form, so that what two requests over it load can only differ in the     *)
(* status.                                                                 *)
(***************************************************************************)

\* Two requests overlap over payments and deliveries alone: for the other
\* kinds an overlap loses updates.
OthersOneAtATime == Together \subseteq {"PAY", "DN"}

Decisions == {"submit", "approve", "reject"}
Trails == [terms : Terms \cup {NoTerms}, total : Amounts \cup {0},
           status : Statuses, named : BOOLEAN]

Types ==
  /\ kind \in Kinds
  /\ row \in Headers
  /\ lines \in Amounts \cup {0}
  /\ ledger \in Amounts \cup {0}
  /\ signed \in Amounts \cup {0}
  /\ trail \in Trails
  /\ call \in [Users -> Requests \cup {Idle}]

\* What the status said when the request was let in.
LetIn ==
  \A u \in Users : call[u] # Idle =>
    /\ row.status # "ABSENT" /\ call[u].row.status # "ABSENT"
    /\ call[u].step \in {"edit"} \cup Decisions => call[u].row.status \in EDITABLE_STATES
    /\ call[u].step = "post" /\ kind = "SA" => call[u].row.status = "APPROVED"
    /\ call[u].step = "record" => kind \notin FormKinds
    /\ kind = "PAY" => call[u].step \in {"edit", "post"}
    /\ kind = "DN" => call[u].step = "post" /\ call[u].row.status = "DRAFT"

\* Two headers say the same, whatever their statuses.
SameContent(a, b) == a.terms = b.terms /\ a.total = b.total

\* What a request loaded is so still: of every kind but payments, and of a
\* delivery but for its status.
StillSo ==
  \A u \in Users : call[u] # Idle =>
    /\ kind # "PAY" => call[u].lines = lines /\ SameContent(call[u].row, row)
    /\ kind \notin {"PAY", "DN"} => call[u].row.status = row.status

\* One request at a time, where two may not overlap.
OneAtATime ==
  kind \notin {"PAY", "DN"} =>
    \A u, v \in Users : call[u] # Idle /\ call[v] # Idle => u = v

\* The header shows what its lines add up to, and a document has lines.
Footed == row.total = lines /\ (row.status # "ABSENT" => lines # 0)

\* Payments and deliveries are never submitted.
PlainStatus == kind \in {"PAY", "DN"} => row.status \in {"ABSENT", "DRAFT", "POSTED"}

RequestsInv == LetIn /\ StillSo /\ OneAtATime
DraftInv ==
  /\ Types
  /\ RequestsInv
  /\ Footed /\ PlainStatus
  /\ LedgerBooksWhatIsShown /\ ApprovedIsWhatWasSigned
  /\ TrailTellsContent /\ DecisionsAreOnRecord

-----------------------------------------------------------------------------
\* Constants, records and the statuses each button asks for.

LEMMA NoAmountIsZero == \A a \in Amounts : a # 0 /\ a \in Amounts \cup {0}
BY DraftingAssumption

LEMMA KindsOfForms == FormKinds \subseteq AllKinds /\ FormKinds \cap {"PAY", "DN", "SO"} = {}
                      /\ FormKinds \cap NoteKinds = {}
BY DEF FormKinds, AllKinds, NoteKinds

LEMMA PostableStates ==
  /\ \A k \in AllKinds \ OrderKinds : Postable[k] \subseteq Statuses \ {"ABSENT"}
  /\ Postable["SA"] = {"APPROVED"} /\ Postable["DN"] = {"DRAFT"}
BY DEF Postable, AllKinds, OrderKinds, FormKinds, NoteKinds, Statuses

LEMMA RequestFields ==
  \A c \in Requests : /\ c.step \in Steps /\ c.row \in Headers /\ c.lines \in Amounts \cup {0}
BY DEF Requests

LEMMA HeaderFields ==
  \A h \in Headers : /\ h.status \in Statuses /\ h.terms \in Terms \cup {NoTerms}
                     /\ h.total \in Amounts \cup {0}
BY DEF Headers

LEMMA SameHeader ==
  \A h, g \in Headers : SameContent(h, g) /\ h.status = g.status => h = g
BY DEF Headers, SameContent

\* The header after a decision, after an edit, and bound to a form.
Edited(h, t, a) == [h EXCEPT !.terms = t, !.total = a]
Retermed(h, t) == [h EXCEPT !.terms = t]

LEMMA DecidedHeader ==
  \A h \in Headers, s \in Statuses :
    LET new == [h EXCEPT !.status = s]
    IN  new \in Headers /\ new.status = s /\ SameContent(new, h)
BY DEF Headers, SameContent

LEMMA EditedHeader ==
  \A h \in Headers, t \in Terms, a \in Amounts \cup {0} :
    LET new == Edited(h, t, a)
    IN  new \in Headers /\ new.status = h.status /\ new.terms = t /\ new.total = a
BY DEF Headers, Edited

LEMMA RetermedHeader == \A h \in Headers, t \in Terms : Retermed(h, t) \in Headers
BY DEF Headers, Retermed

-----------------------------------------------------------------------------
\* What the events leave on the trail.

LEMMA CreatedTrail ==
  \A h \in Headers, b \in BOOLEAN :
    LET new == Created(h, b)
    IN  /\ new \in Trails /\ new.terms = h.terms /\ new.total = h.total
        /\ new.status = h.status /\ new.named = b
BY DEF Created, Trails, Headers

LEMMA ChangedTrail ==
  Types => \A h, g \in Headers :
    LET new == Changes(h, g)
    IN  /\ new \in Trails /\ new.status = trail.status /\ new.named = trail.named
        /\ SameContent(trail, h) => SameContent(new, g)
BY DEF Changes, Trails, Types, Headers, SameContent

LEMMA DecidedTrail ==
  Types => \A s \in Statuses, b \in BOOLEAN :
    LET new == Decided(s, b)
    IN  /\ new \in Trails /\ SameContent(new, trail) /\ new.status = s
        /\ new.named = (trail.named /\ b)
BY DEF Decided, Trails, Types, SameContent

-----------------------------------------------------------------------------
\* Requests: a new document, or one let in by its button.

Recorded(content, user) == kind \in FormKinds \cup {"PAY", "DN"} => content /\ user

Asks(u, step, states) ==
  /\ Request(u, step, states)
  /\ step \in Steps \ {"record"}
  /\ states \subseteq Statuses \ {"ABSENT"}
  /\ step \in {"edit"} \cup Decisions => states \subseteq EDITABLE_STATES
  /\ step = "post" /\ kind = "SA" => states = {"APPROVED"}
  /\ kind = "PAY" => step \in {"edit", "post"}
  /\ kind = "DN" => step = "post" /\ states = {"DRAFT"}

Creates == \E content, user \in BOOLEAN : Create(content, user) /\ Recorded(content, user)

LEMMA ViewsAre ==
  ASSUME Types, NEW u \in Users, Views(u)
  PROVE  Creates \/ \E step \in Steps, states \in SUBSET Statuses : Asks(u, step, states)
<1> DEFINE Goal == Creates \/ \E step \in Steps, states \in SUBSET Statuses : Asks(u, step, states)
<1>1. ASSUME NEW k, kind = k, k \in FormKinds \cup {"PAY", "SO", "SI", "DN"}, Create(TRUE, TRUE)
      PROVE  Goal
  BY <1>1 DEF Creates, Recorded
<1>2. ASSUME kind \in {"SR", "CN"}, Create(FALSE, FALSE) PROVE Goal
  BY <1>2 DEF Creates, Recorded, FormKinds
<1>3. ASSUME NEW states, states \subseteq EDITABLE_STATES, kind # "DN", Request(u, "edit", states)
      PROVE  Goal
  <2>1. Asks(u, "edit", states) /\ "edit" \in Steps /\ states \in SUBSET Statuses
    BY <1>3 DEF Asks, EDITABLE_STATES, Statuses, Steps, Decisions
  <2> QED BY <2>1
<1>4. ASSUME NEW step \in Decisions, NEW states, states \subseteq EDITABLE_STATES,
             kind \notin {"PAY", "DN"}, Request(u, step, states)
      PROVE  Goal
  <2>1. Asks(u, step, states) /\ step \in Steps /\ states \in SUBSET Statuses
    BY <1>4 DEF Asks, EDITABLE_STATES, Statuses, Steps, Decisions
  <2> QED BY <2>1
<1>5. ASSUME PostView(u) PROVE Goal
  <2> DEFINE states == Postable[kind]
  <2>1. Request(u, "post", states) /\ kind \in AllKinds \ OrderKinds
    BY <1>5, DraftingAssumption DEF PostView, Types
  <2>2. /\ states \subseteq Statuses \ {"ABSENT"}
        /\ kind = "SA" => states = {"APPROVED"}
        /\ kind = "DN" => states = {"DRAFT"}
    BY <2>1, PostableStates
  <2> HIDE DEF states
  <2>3. Asks(u, "post", states) /\ "post" \in Steps /\ states \in SUBSET Statuses
    BY <2>1, <2>2 DEF Asks, Steps, Decisions
  <2> QED BY <2>3
<1>6. EDITABLE_STATES \subseteq EDITABLE_STATES /\ {"DRAFT"} \subseteq EDITABLE_STATES
      /\ {"DRAFT", "REJECTED"} \subseteq EDITABLE_STATES
      /\ {"DRAFT", "SUBMITTED"} \subseteq EDITABLE_STATES /\ {"SUBMITTED"} \subseteq EDITABLE_STATES
  BY DEF EDITABLE_STATES
<1>7. "submit" \in Decisions /\ "approve" \in Decisions /\ "reject" \in Decisions
  BY DEF Decisions
<1> HIDE DEF Goal
<1>8. ASSUME \/ PurchaseOrderFormView(u) \/ PurchaseBillFormView(u) \/ PurchaseReturnFormView(u)
             \/ VendorDebitNoteFormView(u) \/ GoodsReceiptFormView(u) \/ StockTransferFormView(u)
             \/ StockAdjustmentFormView(u)
      PROVE  Goal
  <2>1. kind \in FormKinds /\ kind # "DN"
    BY <1>8 DEF FormKinds, PurchaseOrderFormView, PurchaseBillFormView, PurchaseReturnFormView,
       VendorDebitNoteFormView, GoodsReceiptFormView, StockTransferFormView,
       StockAdjustmentFormView
  <2>2. Create(TRUE, TRUE) \/ Request(u, "edit", EDITABLE_STATES) \/ Request(u, "edit", {"DRAFT"})
    BY <1>8 DEF PurchaseOrderFormView, PurchaseBillFormView, PurchaseReturnFormView,
       VendorDebitNoteFormView, GoodsReceiptFormView, StockTransferFormView,
       StockAdjustmentFormView
  <2> QED BY <2>1, <2>2, <1>1, <1>3, <1>6
<1>9. ASSUME \/ SalesOrderCreateView \/ SalesOrderUpdateView(u)
             \/ PaymentCreateView \/ PaymentUpdateView(u)
             \/ SalesInvoiceCreateView \/ DeliveryNoteCreateView
             \/ SalesReturnCreateView \/ CreditNoteCreateView
      PROVE  Goal
  <2>1. \/ kind \in {"SO", "PAY", "SI", "DN"} /\ Create(TRUE, TRUE)
        \/ kind \in {"SR", "CN"} /\ Create(FALSE, FALSE)
        \/ kind \in {"SO", "PAY"} /\ Request(u, "edit", EDITABLE_STATES)
        \/ kind \in {"SO", "PAY"} /\ Request(u, "edit", {"DRAFT"})
    BY <1>9 DEF SalesOrderCreateView, SalesOrderUpdateView, PaymentCreateView, PaymentUpdateView,
       SalesInvoiceCreateView, DeliveryNoteCreateView, SalesReturnCreateView, CreditNoteCreateView
  <2> QED BY <2>1, <1>1, <1>2, <1>3, <1>6
<1>10. ASSUME SubmitView(u) \/ ApproveView(u) \/ RejectView(u) PROVE Goal
  <2>1. kind \notin {"PAY", "DN"}
    BY <1>10 DEF SubmitView, ApproveView, RejectView
  <2>2. \/ Request(u, "submit", {"DRAFT", "REJECTED"}) \/ Request(u, "submit", {"DRAFT", "SUBMITTED"})
        \/ Request(u, "approve", {"SUBMITTED"}) \/ Request(u, "approve", EDITABLE_STATES)
        \/ Request(u, "reject", {"SUBMITTED"})
    BY <1>10 DEF SubmitView, ApproveView, RejectView
  <2> QED BY <2>1, <2>2, <1>4, <1>6, <1>7
<1>11. Goal
  BY <1>5, <1>8, <1>9, <1>10 DEF Views
<1> QED BY <1>11 DEF Goal

\* A new document: no request is under way over a row that is not there.
LEMMA CreateKeeps == DraftInv /\ Creates => DraftInv'
<1> SUFFICES ASSUME DraftInv, NEW content \in BOOLEAN, NEW user \in BOOLEAN,
                    Create(content, user), Recorded(content, user)
             PROVE  DraftInv'
  BY DEF Creates
<1> USE DEF DraftInv
<1>1. PICK t \in Terms, a \in Amounts :
        /\ row' = [status |-> "DRAFT", terms |-> t, total |-> a] /\ lines' = a
        /\ trail' = IF content THEN Created([status |-> "DRAFT", terms |-> t, total |-> a], user)
                               ELSE Decided("DRAFT", user)
  BY DEF Create
<1>2. row.status = "ABSENT" /\ UNCHANGED <<kind, ledger, signed, call>>
  BY DEF Create
<1>3. \A u \in Users : call'[u] = Idle
  BY <1>2 DEF RequestsInv, LetIn
<1>4. row' \in Headers /\ row'.status = "DRAFT" /\ row'.terms = t /\ row'.total = a /\ a # 0
      /\ lines' \in Amounts \cup {0}
  BY <1>1, NoAmountIsZero DEF Headers, Statuses
<1>5. /\ trail' \in Trails
      /\ content => trail'.terms = t /\ trail'.total = a /\ trail'.status = "DRAFT"
                    /\ trail'.named = user
  <2>1. CASE content
    BY <2>1, <1>1, <1>4, CreatedTrail
  <2>2. CASE ~content
    BY <2>2, <1>1, DecidedTrail DEF Statuses
  <2> QED BY <2>1, <2>2
<1>6. Types'
  BY <1>2, <1>4, <1>5 DEF Types
<1>7. RequestsInv'
  BY <1>3 DEF RequestsInv, LetIn, StillSo, OneAtATime
<1>8. Footed' /\ PlainStatus' /\ ApprovedIsWhatWasSigned'
  BY <1>1, <1>4 DEF Footed, PlainStatus, ApprovedIsWhatWasSigned
<1>9. LedgerBooksWhatIsShown'
  BY <1>2, <1>4 DEF LedgerBooksWhatIsShown
<1>10. TrailTellsContent' /\ DecisionsAreOnRecord'
  BY <1>2, <1>4, <1>5 DEF TrailTellsContent, DecisionsAreOnRecord, Recorded
<1> QED BY <1>6, <1>7, <1>8, <1>9, <1>10

\* A request is let in on what it loads.
LEMMA RequestKeeps ==
  ASSUME OthersOneAtATime, DraftInv, NEW u \in Users, NEW step \in Steps,
         NEW states \in SUBSET Statuses, Asks(u, step, states)
  PROVE  DraftInv'
<1> USE DEF DraftInv
<1> DEFINE new == [step |-> step, row |-> row, lines |-> lines]
<1>1. /\ row.status \in states /\ call[u] = Idle /\ Alone
      /\ UNCHANGED <<kind, row, lines, ledger, signed, trail>>
      /\ call' = [call EXCEPT ![u] = new]
  BY DEF Asks, Request
<1>2. new \in Requests /\ new # Idle /\ new.step = step /\ new.row = row /\ new.lines = lines
  <2>1. new \in Requests
    BY DEF Types, Requests
  <2> QED BY <2>1, DraftingAssumption
<1> HIDE DEF new
<1>3. call' \in [Users -> Requests \cup {Idle}] /\ call'[u] = new
      /\ \A v \in Users \ {u} : call'[v] = call[v]
  BY <1>1, <1>2 DEF Types
<1>4. Types'
  BY <1>1, <1>3 DEF Types
<1>5. LetIn'
  <2> SUFFICES ASSUME NEW v \in Users, call'[v] # Idle
               PROVE  (/\ row.status # "ABSENT" /\ call[v].row.status # "ABSENT"
                       /\ call[v].step \in {"edit"} \cup Decisions => call[v].row.status \in EDITABLE_STATES
                       /\ call[v].step = "post" /\ kind = "SA" => call[v].row.status = "APPROVED"
                       /\ call[v].step = "record" => kind \notin FormKinds
                       /\ kind = "PAY" => call[v].step \in {"edit", "post"}
                       /\ kind = "DN" => call[v].step = "post" /\ call[v].row.status = "DRAFT")'
    BY DEF LetIn
  <2>1. CASE v = u
    BY <2>1, <1>1, <1>2, <1>3 DEF Asks
  <2>2. CASE v # u
    BY <2>2, <1>1, <1>3 DEF RequestsInv, LetIn
  <2> QED BY <2>1, <2>2
<1>6. StillSo'
  <2> SUFFICES ASSUME NEW v \in Users, call'[v] # Idle
               PROVE  (/\ kind # "PAY" => call[v].lines = lines /\ SameContent(call[v].row, row)
                       /\ kind \notin {"PAY", "DN"} => call[v].row.status = row.status)'
    BY DEF StillSo
  <2>1. CASE v = u
    BY <2>1, <1>1, <1>2, <1>3 DEF SameContent
  <2>2. CASE v # u
    BY <2>2, <1>1, <1>3 DEF RequestsInv, StillSo, SameContent
  <2> QED BY <2>1, <2>2
<1>7. OneAtATime'
  BY <1>1, <1>3 DEF OneAtATime, Alone, OthersOneAtATime
<1>8. (Footed /\ PlainStatus /\ LedgerBooksWhatIsShown /\ ApprovedIsWhatWasSigned
       /\ TrailTellsContent /\ DecisionsAreOnRecord)'
  BY <1>1 DEF Footed, PlainStatus, LedgerBooksWhatIsShown, ApprovedIsWhatWasSigned,
     TrailTellsContent, DecisionsAreOnRecord
<1> QED BY <1>4, <1>5, <1>6, <1>7, <1>8 DEF RequestsInv

-----------------------------------------------------------------------------
\* Transactions.

\* Who was answered has no request any more; what the others loaded is so
\* still, where others there may be.
LEMMA AnswerKeeps ==
  ASSUME DraftInv, NEW u \in Users, Answer(u), UNCHANGED kind, row'.status # "ABSENT",
         call[u] # Idle, kind = "DN" => lines' = lines /\ SameContent(row', row)
  PROVE  call' \in [Users -> Requests \cup {Idle}] /\ RequestsInv'
<1> USE DEF DraftInv
<1>1. call' \in [Users -> Requests \cup {Idle}] /\ call'[u] = Idle
      /\ \A v \in Users \ {u} : call'[v] = call[v]
  BY DEF Answer, Types
<1>2. \A v \in Users : call'[v] # Idle => v # u /\ call'[v] = call[v] /\ call[v] # Idle
  BY <1>1
<1>3. LetIn'
  BY <1>2 DEF RequestsInv, LetIn
<1>4. OneAtATime'
  BY <1>2 DEF RequestsInv, OneAtATime
<1>5. StillSo'
  <2> SUFFICES ASSUME NEW v \in Users, call'[v] # Idle, kind # "PAY"
               PROVE  /\ call[v].lines = lines' /\ SameContent(call[v].row, row')
                      /\ kind \notin {"PAY", "DN"} => call[v].row.status = row'.status
    BY <1>2 DEF StillSo
  <2>1. CASE kind = "DN"
    <3>1. call[v].lines = lines /\ SameContent(call[v].row, row)
      BY <1>2, <2>1 DEF RequestsInv, StillSo
    <3> QED BY <2>1, <3>1 DEF SameContent
  <2>2. CASE kind # "DN"
    BY <1>2, <2>2 DEF RequestsInv, OneAtATime
  <2> QED BY <2>1, <2>2
<1> QED BY <1>1, <1>3, <1>4, <1>5 DEF RequestsInv

\* What was loaded when nobody else is at work is the row.
LEMMA LoadedIsRow ==
  ASSUME DraftInv, NEW u \in Users, call[u] # Idle, kind \notin {"PAY", "DN"}
  PROVE  call[u].row = row /\ call[u].lines = lines
<1>1. call[u] \in Requests /\ row \in Headers
  BY DEF DraftInv, Types
<1>2. call[u].row \in Headers
  BY <1>1, RequestFields
<1>3. call[u].lines = lines /\ SameContent(call[u].row, row) /\ call[u].row.status = row.status
  BY DEF DraftInv, RequestsInv, StillSo
<1> QED BY <1>1, <1>2, <1>3, SameHeader

\* An edit: header and lines are written together, and only while the document
\* is neither approved nor posted.
LEMMA EditKeeps ==
  ASSUME DraftInv, NEW u \in Users, call[u] # Idle, kind # "DN", NEW h \in Headers,
         row.status = h.status, row.status \in EDITABLE_STATES,
         NEW t \in Terms, NEW a \in Amounts \cup {0}, a # 0,
         row' = Edited(h, t, a), lines' = a,
         NEW before \in Headers, trail' = Changes(before, row'),
         kind \in FormKinds => SameContent(before, row),
         Answer(u), UNCHANGED <<kind, ledger, signed>>
  PROVE  DraftInv'
<1> USE DEF DraftInv
<1>1. row' \in Headers /\ row'.status = row.status /\ row'.terms = t /\ row'.total = a
  BY EditedHeader
<1>2. row.status \notin {"ABSENT", "APPROVED", "POSTED"}
  BY DEF EDITABLE_STATES
<1>3. /\ trail' \in Trails /\ trail'.status = trail.status /\ trail'.named = trail.named
      /\ SameContent(trail, before) => SameContent(trail', row')
  BY <1>1, ChangedTrail
<1>4. call' \in [Users -> Requests \cup {Idle}] /\ RequestsInv'
  BY <1>1, <1>2, AnswerKeeps
<1>5. Types'
  BY <1>1, <1>3, <1>4 DEF Types
<1>6. Footed' /\ PlainStatus' /\ ApprovedIsWhatWasSigned' /\ LedgerBooksWhatIsShown'
  BY <1>1, <1>2 DEF Footed, PlainStatus, ApprovedIsWhatWasSigned, LedgerBooksWhatIsShown
<1>7. TrailTellsContent'
  <2> SUFFICES ASSUME kind \in FormKinds PROVE SameContent(trail', row')
    BY DEF TrailTellsContent, SameContent
  <2>1. SameContent(trail, row)
    BY <1>2 DEF TrailTellsContent, SameContent
  <2>2. SameContent(trail, before)
    BY <2>1 DEF SameContent
  <2> QED BY <1>3, <2>2
<1>8. DecisionsAreOnRecord'
  BY <1>1, <1>3 DEF DecisionsAreOnRecord
<1> QED BY <1>4, <1>5, <1>6, <1>7, <1>8

LEMMA SaveFormKeeps == ASSUME DraftInv, NEW u \in Users, SaveForm(u) PROVE DraftInv'
<1>1. /\ kind \in FormKinds /\ call[u] # Idle /\ call[u].step = "edit"
      /\ Answer(u) /\ UNCHANGED <<kind, ledger, signed>>
  BY DEF SaveForm
<1>2. call[u].row = row /\ call[u].lines = lines
  BY <1>1, LoadedIsRow, KindsOfForms
<1>3. row.status \in EDITABLE_STATES /\ row \in Headers
  BY <1>1, <1>2 DEF DraftInv, RequestsInv, LetIn, Types
<1>4. PICK t \in Terms, a \in Amounts :
        /\ lines' = Written(call[u], a)
        /\ row' = Edited(call[u].row, t, Written(call[u], a))
        /\ trail' = Changes(call[u].row, row')
  BY Zenon DEF SaveForm, Loaded, Edited
<1>5. Written(call[u], a) = a /\ a # 0 /\ a \in Amounts \cup {0}
  BY <1>2, NoAmountIsZero DEF Written
<1>7. lines' = a /\ row' = Edited(row, t, a) /\ trail' = Changes(row, row')
  BY <1>2, <1>4, <1>5
<1>6. kind # "DN" /\ SameContent(row, row)
  BY <1>1, KindsOfForms DEF SameContent
<1> QED BY <1>1, <1>3, <1>5, <1>6, <1>7, EditKeeps

LEMMA SaveOrderKeeps == ASSUME DraftInv, NEW u \in Users, SaveSalesOrder(u) PROVE DraftInv'
<1>1. /\ kind = "SO" /\ call[u] # Idle /\ call[u].step = "edit"
      /\ Answer(u) /\ UNCHANGED <<kind, ledger, signed>>
  BY DEF SaveSalesOrder, Under
<1>2. call[u].row = row /\ call[u].lines = lines
  BY <1>1, LoadedIsRow
<1>3. row.status \in EDITABLE_STATES /\ row \in Headers
  BY <1>1, <1>2 DEF DraftInv, RequestsInv, LetIn, Types
<1>4. PICK t \in Terms, a \in Amounts :
        /\ lines' = Written(call[u], a)
        /\ row' = Edited(call[u].row, t, Written(call[u], a))
        /\ trail' = Changes(Retermed(call[u].row, t), row')
  BY Zenon DEF SaveSalesOrder, Bound, Edited, Retermed
<1>5. Written(call[u], a) = a /\ a # 0 /\ a \in Amounts \cup {0}
  BY <1>2, NoAmountIsZero DEF Written
<1>6. lines' = a /\ row' = Edited(row, t, a) /\ trail' = Changes(Retermed(row, t), row')
  BY <1>2, <1>4, <1>5
<1>7. kind \notin FormKinds /\ kind # "DN" /\ Retermed(row, t) \in Headers
  BY <1>1, <1>3, KindsOfForms, RetermedHeader
<1> QED BY <1>1, <1>3, <1>5, <1>6, <1>7, EditKeeps

LEMMA UpdatePaymentKeeps == ASSUME DraftInv, NEW u \in Users, update_draft_payment(u) PROVE DraftInv'
<1>1. /\ kind = "PAY" /\ call[u] # Idle /\ row.status = "DRAFT"
      /\ Answer(u) /\ UNCHANGED <<kind, ledger, signed>>
  BY DEF update_draft_payment, UpdatePayment, Under
<1>2. call[u].row \in Headers /\ row \in Headers
  BY <1>1, RequestFields DEF DraftInv, Types
<1>3. PICK t \in Terms, a \in Amounts :
        /\ lines' = a
        /\ row' = Edited(row, t, a)
        /\ trail' = Changes(Retermed(call[u].row, t), row')
  BY Zenon DEF update_draft_payment, UpdatePayment, Bound, Edited, Retermed
<1>4. a # 0 /\ a \in Amounts \cup {0} /\ row.status \in EDITABLE_STATES
  BY <1>1, NoAmountIsZero DEF EDITABLE_STATES
<1>5. kind \notin FormKinds /\ kind # "DN" /\ Retermed(call[u].row, t) \in Headers
  BY <1>1, <1>2, KindsOfForms, RetermedHeader
<1> QED BY <1>1, <1>2, <1>3, <1>4, <1>5, EditKeeps

\* A decision: over the row as it is, from a status that is neither approved
\* nor posted.
LEMMA DecisionKeeps ==
  ASSUME DraftInv, NEW u \in Users, call[u] # Idle, call[u].step \in Decisions,
         kind \notin {"PAY", "DN"}, NEW status \in {"SUBMITTED", "APPROVED", "REJECTED"},
         Decide(u, row, status)
  PROVE  /\ row' \in Headers /\ row'.status = status /\ SameContent(row', row)
         /\ signed' \in Amounts \cup {0} /\ UNCHANGED <<kind, lines, ledger>>
         /\ (Footed /\ PlainStatus /\ LedgerBooksWhatIsShown /\ ApprovedIsWhatWasSigned)'
<1> USE DEF DraftInv
<1>1. call[u].row = row /\ call[u].lines = lines
  BY LoadedIsRow
<1>2. row \in Headers /\ status \in Statuses /\ lines \in Amounts \cup {0} /\ signed \in Amounts \cup {0}
  BY DEF Types, Statuses
<1>3. row.status \in EDITABLE_STATES
  BY <1>1 DEF RequestsInv, LetIn
<1>4. row.status \notin {"ABSENT", "APPROVED", "POSTED"}
  BY <1>3 DEF EDITABLE_STATES
<1>5. row' = [row EXCEPT !.status = status] /\ UNCHANGED <<kind, lines, ledger>>
      /\ signed' = IF status = "APPROVED" THEN lines ELSE signed
  BY <1>1 DEF Decide
<1>6. row' \in Headers /\ row'.status = status /\ SameContent(row', row)
  BY <1>2, <1>5, DecidedHeader
<1>7. Footed' /\ PlainStatus'
  BY <1>4, <1>5, <1>6 DEF Footed, PlainStatus, SameContent
<1>8. LedgerBooksWhatIsShown'
  BY <1>4, <1>5, <1>6 DEF LedgerBooksWhatIsShown
<1>9. ApprovedIsWhatWasSigned'
  BY <1>5, <1>6 DEF ApprovedIsWhatWasSigned
<1> QED BY <1>2, <1>5, <1>6, <1>7, <1>8, <1>9

LEMMA RecordedDecision ==
  ASSUME DraftInv, NEW u \in Users, call[u] # Idle, call[u].step \in Decisions,
         kind \notin {"PAY", "DN"}, NEW status \in {"SUBMITTED", "APPROVED", "REJECTED"},
         Decide(u, row, status), trail' = Decided(status, TRUE), Answer(u)
  PROVE  DraftInv'
<1>1. /\ row' \in Headers /\ row'.status = status /\ SameContent(row', row)
      /\ signed' \in Amounts \cup {0} /\ UNCHANGED <<kind, lines, ledger>>
      /\ (Footed /\ PlainStatus /\ LedgerBooksWhatIsShown /\ ApprovedIsWhatWasSigned)'
  BY DecisionKeeps
<1>2. /\ trail' \in Trails /\ SameContent(trail', trail) /\ trail'.status = status
      /\ trail'.named = trail.named
  <2>1. status \in Statuses /\ trail.named \in BOOLEAN
    BY DEF Statuses, DraftInv, Types, Trails
  <2> QED BY <2>1, DecidedTrail DEF DraftInv
<1>3. call' \in [Users -> Requests \cup {Idle}] /\ RequestsInv'
  BY <1>1, AnswerKeeps
<1>4. Types'
  BY <1>1, <1>2, <1>3 DEF DraftInv, Types
<1>5. row.status # "ABSENT"
  BY DEF DraftInv, RequestsInv, LetIn
<1>6. TrailTellsContent'
  BY <1>1, <1>2, <1>5 DEF DraftInv, TrailTellsContent, SameContent
<1>7. DecisionsAreOnRecord'
  BY <1>1, <1>2 DEF DraftInv, DecisionsAreOnRecord
<1> QED BY <1>1, <1>3, <1>4, <1>6, <1>7 DEF DraftInv

LEMMA Outcomes ==
  \A step \in Decisions :
    Straight(Outcome(step)) \cup {Outcome(step)} \subseteq {"SUBMITTED", "APPROVED", "REJECTED"}
BY DEF Straight, Outcome, Decisions

LEMMA DecidePurchaseKeeps ==
  ASSUME DraftInv, NEW u \in Users, DecidePurchaseOrder(u) PROVE DraftInv'
<1>1. PICK status \in Straight(Outcome(call[u].step)) :
        Decide(u, row, status) /\ trail' = Decided(status, TRUE)
  BY DEF DecidePurchaseOrder
<1>2. call[u] # Idle /\ kind = "PO" /\ call[u].step \in Decisions /\ Answer(u)
  BY DEF DecidePurchaseOrder, Decisions
<1>3. status \in {"SUBMITTED", "APPROVED", "REJECTED"}
  BY <1>2, Outcomes
<1> QED BY <1>1, <1>2, <1>3, RecordedDecision

LEMMA DecideAdjustmentKeeps ==
  ASSUME DraftInv, NEW u \in Users, DecideStockAdjustment(u) PROVE DraftInv'
<1>1. PICK status \in Straight(Outcome(call[u].step)) :
        Decide(u, call[u].row, status) /\ trail' = Decided(status, TRUE)
  BY DEF DecideStockAdjustment
<1>2. call[u] # Idle /\ kind = "SA" /\ call[u].step \in Decisions /\ Answer(u)
  BY DEF DecideStockAdjustment, Decisions
<1>3. status \in {"SUBMITTED", "APPROVED", "REJECTED"}
  BY <1>2, Outcomes
<1>4. call[u].row = row
  BY <1>2, LoadedIsRow
<1> QED BY <1>1, <1>2, <1>3, <1>4, RecordedDecision

\* The sales services record their decision in a transaction to come.
LEMMA DecideSalesKeeps ==
  ASSUME DraftInv, NEW u \in Users, DecideSales(u) PROVE DraftInv'
<1> DEFINE status == Outcome(call[u].step)
<1>1. /\ call[u] # Idle /\ kind \in {"SO", "SI", "SR", "CN"} /\ call[u].step \in Decisions
      /\ Decide(u, row, status) /\ UNCHANGED trail
      /\ call' = [call EXCEPT ![u] = [call[u] EXCEPT !.step = "record", !.row = row']]
  BY DEF DecideSales, Decisions
<1>2. status \in {"SUBMITTED", "APPROVED", "REJECTED"}
  BY <1>1, Outcomes
<1> HIDE DEF status
<1>3. /\ row' \in Headers /\ row'.status = status /\ SameContent(row', row)
      /\ signed' \in Amounts \cup {0} /\ UNCHANGED <<kind, lines, ledger>>
      /\ (Footed /\ PlainStatus /\ LedgerBooksWhatIsShown /\ ApprovedIsWhatWasSigned)'
  BY <1>1, <1>2, DecisionKeeps
<1>4. call[u].lines = lines
  BY <1>1, LoadedIsRow
<1>5. PICK c \in Requests : c.step = "record" /\ c.row = row' /\ c.lines = lines
                            /\ call' = [call EXCEPT ![u] = c]
  <2>1. call[u] \in Requests
    BY <1>1 DEF DraftInv, Types
  <2>2. [call[u] EXCEPT !.step = "record", !.row = row'] \in Requests
    BY <1>3, <2>1 DEF Requests, Steps
  <2> QED BY <1>1, <1>4, <2>1, <2>2 DEF Requests
<1>6. call' \in [Users -> Requests \cup {Idle}] /\ call'[u] = c
      /\ \A v \in Users \ {u} : call'[v] = call[v] /\ call'[v] = Idle
  BY <1>1, <1>5 DEF DraftInv, Types, RequestsInv, OneAtATime
<1>7. RequestsInv'
  <2>1. \A v \in Users : call'[v] # Idle => v = u
    BY <1>6
  <2>2. LetIn'
    BY <1>1, <1>2, <1>3, <1>5, <1>6, <2>1 DEF LetIn, Decisions, FormKinds
  <2>3. StillSo'
    BY <1>3, <1>5, <1>6, <2>1 DEF StillSo, SameContent
  <2>4. OneAtATime'
    BY <2>1 DEF OneAtATime
  <2> QED BY <2>2, <2>3, <2>4 DEF RequestsInv
<1>8. Types'
  BY <1>1, <1>3, <1>6 DEF DraftInv, Types
<1>9. TrailTellsContent' /\ DecisionsAreOnRecord'
  BY <1>1, <1>3 DEF TrailTellsContent, DecisionsAreOnRecord, FormKinds
<1> QED BY <1>3, <1>7, <1>8, <1>9 DEF DraftInv

LEMMA RecordSalesKeeps ==
  ASSUME DraftInv, NEW u \in Users, RecordSales(u) PROVE DraftInv'
<1> USE DEF DraftInv
<1>1. /\ call[u] # Idle /\ call[u].step = "record" /\ Answer(u)
      /\ trail' = Decided(call[u].row.status, FALSE)
      /\ UNCHANGED <<kind, row, lines, ledger, signed>>
  BY DEF RecordSales
<1>2. call[u].row.status \in Statuses
  BY <1>1, RequestFields, HeaderFields DEF Types
<1>3. trail' \in Trails /\ SameContent(trail', trail)
  BY <1>1, <1>2, DecidedTrail
<1>4. call' \in [Users -> Requests \cup {Idle}] /\ RequestsInv'
  BY <1>1, AnswerKeeps DEF RequestsInv, LetIn, SameContent
<1>5. Types'
  BY <1>1, <1>3, <1>4 DEF Types
<1>6. TrailTellsContent'
  BY <1>1, <1>3 DEF TrailTellsContent, SameContent
<1>7. (Footed /\ PlainStatus /\ LedgerBooksWhatIsShown /\ ApprovedIsWhatWasSigned)'
  BY <1>1 DEF Footed, PlainStatus, LedgerBooksWhatIsShown, ApprovedIsWhatWasSigned
<1>8. DecisionsAreOnRecord'
  BY <1>1 DEF RequestsInv, LetIn, DecisionsAreOnRecord
<1> QED BY <1>4, <1>5, <1>6, <1>7, <1>8

-----------------------------------------------------------------------------
\* Posting.

\* Whatever is posted shows what is booked, is what was signed, and is on
\* record.
LEMMA PostedKeeps ==
  ASSUME DraftInv, NEW u \in Users, call[u] # Idle, Answer(u), UNCHANGED <<kind, lines, signed>>,
         row' \in Headers, row'.status = "POSTED", SameContent(row', row), ledger' = lines,
         kind = "SA" => row.status \in {"APPROVED", "POSTED"},
         trail' = Decided("POSTED", TRUE)
  PROVE  DraftInv'
<1> USE DEF DraftInv
<1>1. row.status # "ABSENT"
  BY DEF RequestsInv, LetIn
<1>2. /\ trail' \in Trails /\ SameContent(trail', trail) /\ trail'.status = "POSTED"
      /\ trail'.named = trail.named
  <2>1. "POSTED" \in Statuses /\ trail.named \in BOOLEAN
    BY DEF Statuses, Types, Trails
  <2> QED BY <2>1, DecidedTrail
<1>3. call' \in [Users -> Requests \cup {Idle}] /\ RequestsInv'
  BY AnswerKeeps DEF SameContent
<1>4. Types'
  BY <1>2, <1>3 DEF Types
<1>5. Footed' /\ PlainStatus' /\ LedgerBooksWhatIsShown'
  BY <1>1 DEF Footed, PlainStatus, LedgerBooksWhatIsShown, SameContent
<1>6. ApprovedIsWhatWasSigned'
  BY DEF ApprovedIsWhatWasSigned
<1>7. TrailTellsContent' /\ DecisionsAreOnRecord'
  BY <1>1, <1>2 DEF TrailTellsContent, DecisionsAreOnRecord, SameContent
<1> QED BY <1>3, <1>4, <1>5, <1>6, <1>7

\* A request that changes nothing but itself.
LEMMA DropKeeps ==
  ASSUME DraftInv, NEW u \in Users, call[u] # Idle, Answer(u),
         UNCHANGED <<kind, row, lines, ledger, signed, trail>>
  PROVE  DraftInv'
<1>1. row'.status # "ABSENT" /\ SameContent(row', row)
  BY DEF DraftInv, RequestsInv, LetIn, SameContent
<1>2. call' \in [Users -> Requests \cup {Idle}] /\ RequestsInv'
  BY <1>1, AnswerKeeps
<1> QED BY <1>2 DEF DraftInv, Types, Footed, PlainStatus, LedgerBooksWhatIsShown,
        ApprovedIsWhatWasSigned, TrailTellsContent, DecisionsAreOnRecord

\* The direct posters: their guard is what is booked, and nothing is booked
\* for a document that is not posted.
LEMMA DirectLoads ==
  ASSUME DraftInv, NEW u \in Users, call[u] # Idle, call[u].step = "post",
         kind \in (FormKinds \cup {"DN"}) \ {"PO"}
  PROVE  /\ call[u].row \in Headers /\ call[u].lines = lines /\ SameContent(call[u].row, row)
         /\ kind = "SA" => row.status = "APPROVED"
<1>1. call[u] \in Requests /\ kind # "PAY"
  BY KindsOfForms DEF DraftInv, Types
<1>2. call[u].row \in Headers
  BY <1>1, RequestFields
<1>3. call[u].lines = lines /\ SameContent(call[u].row, row)
  BY <1>1 DEF DraftInv, RequestsInv, StillSo
<1>4. kind = "SA" => row.status = "APPROVED"
  BY DEF DraftInv, RequestsInv, LetIn, StillSo
<1> QED BY <1>2, <1>3, <1>4

LEMMA PostDirectKeeps == ASSUME DraftInv, NEW u \in Users, PostDirect(u) PROVE DraftInv'
<1>1. /\ call[u] # Idle /\ call[u].step = "post" /\ kind \in (FormKinds \cup {"DN"}) \ {"PO"}
      /\ Answer(u) /\ UNCHANGED <<kind, lines, signed>>
  BY DEF PostDirect
<1>2. CASE ledger = 0 /\ Book(u)
  <2>1. ledger' = call[u].lines /\ trail' = Decided("POSTED", TRUE)
        /\ row' = [call[u].row EXCEPT !.status = "POSTED"]
    BY <1>2 DEF Book
  <2>2. row' \in Headers /\ row'.status = "POSTED" /\ SameContent(row', call[u].row)
    BY <1>1, <2>1, DirectLoads, DecidedHeader DEF Statuses
  <2> QED BY <1>1, <2>1, <2>2, DirectLoads, PostedKeeps DEF SameContent
<1>3. CASE UNCHANGED <<ledger, row, trail>>
  BY <1>1, <1>3, DropKeeps
<1> QED BY <1>2, <1>3 DEF PostDirect

LEMMA PostByEngineKeeps == ASSUME DraftInv, NEW u \in Users, PostByEngine(u) PROVE DraftInv'
<1>1. /\ call[u] # Idle /\ kind \in {"SI", "SR", "CN"} /\ Answer(u) /\ UNCHANGED <<kind, lines, signed>>
      /\ ledger' = IF ledger = 0 THEN lines ELSE ledger
      /\ row' = [row EXCEPT !.status = "POSTED"] /\ trail' = Decided("POSTED", TRUE)
  BY DEF PostByEngine
<1>2. ledger' = lines
  BY <1>1 DEF DraftInv, LedgerBooksWhatIsShown
<1>3. row' \in Headers /\ row'.status = "POSTED" /\ SameContent(row', row)
  BY <1>1, DecidedHeader DEF Statuses, DraftInv, Types
<1> QED BY <1>1, <1>2, <1>3, PostedKeeps

LEMMA PostPaymentKeeps == ASSUME DraftInv, NEW u \in Users, post_payment(u) PROVE DraftInv'
<1>1. /\ kind = "PAY" /\ call[u] # Idle /\ Answer(u) /\ UNCHANGED <<kind, lines, signed>>
      /\ trail' = Decided("POSTED", TRUE)
  BY DEF post_payment, Under
<1>2. row \in Headers
  BY DEF DraftInv, Types
<1>3. CASE ledger' = lines /\ row' = [row EXCEPT !.status = "POSTED"]
  <2>1. row' \in Headers /\ row'.status = "POSTED" /\ SameContent(row', row)
    BY <1>2, <1>3, DecidedHeader DEF Statuses
  <2> QED BY <1>1, <1>3, <2>1, PostedKeeps
<1>4. CASE row.status # "DRAFT" /\ UNCHANGED <<ledger, row>>
  <2>1. row.status = "POSTED"
    BY <1>1, <1>4 DEF DraftInv, RequestsInv, LetIn, PlainStatus
  <2>2. ledger' = lines /\ SameContent(row', row)
    BY <1>1, <1>4, <2>1 DEF DraftInv, LedgerBooksWhatIsShown, SameContent
  <2> QED BY <1>1, <1>2, <1>4, <2>1, <2>2, PostedKeeps
<1> QED BY <1>3, <1>4 DEF post_payment

-----------------------------------------------------------------------------
\* The theorems.

LEMMA InitDraft == Init => DraftInv
<1> SUFFICES ASSUME Init PROVE DraftInv
  OBVIOUS
<1>1. Types
  <2>1. row \in Headers /\ trail \in Trails
    BY DEF Init, Headers, Trails, Statuses
  <2> QED BY <2>1 DEF Init, Types
<1>2. \A u \in Users : call[u] = Idle
  <2>1. call = [u \in Users |-> Idle]
    BY Zenon DEF Init
  <2> QED BY <2>1, Zenon
<1>3. RequestsInv
  BY <1>2 DEF RequestsInv, LetIn, StillSo, OneAtATime
<1>4. row.status = "ABSENT" /\ row.total = 0 /\ trail.status = "ABSENT"
  BY DEF Init
<1>5. trail.named
  BY DEF Init
<1> QED BY <1>1, <1>3, <1>4, <1>5 DEF Init, DraftInv, Footed, PlainStatus, LedgerBooksWhatIsShown,
        ApprovedIsWhatWasSigned, TrailTellsContent, DecisionsAreOnRecord

LEMMA StutterDraft == DraftInv /\ UNCHANGED vars => DraftInv'
BY DEF vars, DraftInv, Types, RequestsInv, LetIn, StillSo, OneAtATime, Footed, PlainStatus,
   LedgerBooksWhatIsShown, ApprovedIsWhatWasSigned, TrailTellsContent, DecisionsAreOnRecord,
   SameContent

LEMMA StepDraft == OthersOneAtATime => (DraftInv /\ [Next]_vars => DraftInv')
<1> SUFFICES ASSUME OthersOneAtATime, DraftInv, Next PROVE DraftInv'
  BY StutterDraft
<1> PICK u \in Users : Views(u) \/ Transactions(u) \/ Drop(u)
  BY DEF Next
<1>1. CASE Views(u)
  BY <1>1, ViewsAre, CreateKeeps, RequestKeeps DEF DraftInv
<1>2. CASE Transactions(u)
  BY <1>2, SaveFormKeeps, SaveOrderKeeps, UpdatePaymentKeeps, DecidePurchaseKeeps,
     DecideAdjustmentKeeps, DecideSalesKeeps, RecordSalesKeeps, PostDirectKeeps,
     PostByEngineKeeps, PostPaymentKeeps DEF Transactions
<1>3. CASE Drop(u)
  BY <1>3, DropKeeps DEF Drop
<1> QED BY <1>1, <1>2, <1>3

\* Nothing a request or a transaction does touches a posted document.
LEMMA StepKeepsPosted ==
  DraftInv /\ [Next]_vars =>
    (row.status = "POSTED" => row' = row /\ lines' = lines /\ ledger' = ledger)
<1> SUFFICES ASSUME DraftInv, [Next]_vars, row.status = "POSTED"
             PROVE  row' = row /\ lines' = lines /\ ledger' = ledger
  OBVIOUS
<1> USE DEF DraftInv
<1>1. ledger = lines /\ ledger # 0 /\ row \in Headers
  BY DEF LedgerBooksWhatIsShown, Footed, Types
<1>2. CASE UNCHANGED vars
  BY <1>2 DEF vars
<1>3. CASE Next
  <2> PICK u \in Users : Views(u) \/ Transactions(u) \/ Drop(u)
    BY <1>3 DEF Next
  <2>1. CASE Views(u)
    <3>1. ~Creates
      BY DEF Creates, Create
    <3> QED BY <2>1, <3>1, ViewsAre DEF Asks, Request
  <2>2. ASSUME call[u] # Idle, kind \notin {"PAY", "DN"}, call[u].step \in {"edit"} \cup Decisions
        PROVE  FALSE
    BY <2>2 DEF RequestsInv, LetIn, StillSo, EDITABLE_STATES
  <2>3. ~SaveForm(u) /\ ~SaveSalesOrder(u) /\ ~update_draft_payment(u)
        /\ ~DecidePurchaseOrder(u) /\ ~DecideStockAdjustment(u) /\ ~DecideSales(u)
    <3>1. ~SaveForm(u) /\ ~SaveSalesOrder(u)
      <4>1. SaveForm(u) \/ SaveSalesOrder(u) =>
              kind \in FormKinds \cup {"SO"} /\ call[u] # Idle /\ call[u].step = "edit"
        BY Zenon DEF SaveForm, SaveSalesOrder, Under
      <4> QED BY <2>2, <4>1, KindsOfForms
    <3>2. ~update_draft_payment(u)
      BY DEF update_draft_payment
    <3>3. ~DecidePurchaseOrder(u) /\ ~DecideStockAdjustment(u) /\ ~DecideSales(u)
      BY <2>2 DEF DecidePurchaseOrder, DecideStockAdjustment, DecideSales, Decisions
    <3> QED BY <3>1, <3>2, <3>3
  <2>4. CASE RecordSales(u) \/ Drop(u)
    BY <2>4 DEF RecordSales, Drop
  <2>5. CASE PostDirect(u)
    BY <2>5, <1>1 DEF PostDirect
  <2>6. CASE PostByEngine(u)
    <3>1. row' = [row EXCEPT !.status = "POSTED"] /\ lines' = lines /\ ledger' = ledger
      BY <2>6, <1>1 DEF PostByEngine
    <3>2. row' \in Headers /\ row'.status = "POSTED" /\ SameContent(row', row)
      BY <1>1, <3>1, DecidedHeader DEF Statuses
    <3> QED BY <1>1, <3>1, <3>2, SameHeader
  <2>7. CASE post_payment(u)
    BY <2>7 DEF post_payment
  <2> QED BY <2>1, <2>3, <2>4, <2>5, <2>6, <2>7 DEF Transactions
<1> QED BY <1>2, <1>3

LEMMA DraftMeans == DraftInv => BookedIsSigned /\ TrailTellsTheDocument
BY DEF DraftInv, Types, Trails, BookedIsSigned, TrailTellsTheDocument, TypeOK

LEMMA DraftAlways == ASSUME OthersOneAtATime PROVE Spec => []DraftInv
<1>1. DraftInv /\ [Next]_vars => DraftInv'
  BY StepDraft
<1> QED BY <1>1, InitDraft, PTL DEF Spec

\* What is booked is what the posted document shows, what is approved is what
\* its approver read, and an adjustment is posted so: with the locks of
\* payments, whatever overlaps there; with whole rows written back, as long as
\* nothing else is under way.
THEOREM BookedAlwaysSigned == ASSUME OthersOneAtATime PROVE Spec => []BookedIsSigned
BY DraftAlways, DraftMeans, PTL

\* Under the same condition the audit trail, read from its beginning, says
\* what the document says and what was last decided about it.
THEOREM TrailAlwaysTells == ASSUME OthersOneAtATime PROVE Spec => []TrailTellsTheDocument
BY DraftAlways, DraftMeans, PTL

\* Under the same condition a posted document is never edited, decided upon
\* again or un-posted: a form or a decision is let in on a status before the
\* posting and finds it so, and a second posting finds the first.
THEOREM PostedAlwaysStays == ASSUME OthersOneAtATime PROVE Spec => PostedStaysPosted
<1> DEFINE Kept == row.status = "POSTED" => row' = row /\ lines' = lines /\ ledger' = ledger
<1>1. DraftInv /\ [Next]_vars => Kept
  BY StepKeepsPosted
<1>2. Spec => []DraftInv
  BY DraftAlways
<1> HIDE DEF Kept
<1>3. Spec => [][Kept]_vars
  BY <1>1, <1>2, PTL DEF Spec
<1> QED BY <1>3 DEF Kept, PostedStaysPosted

-----------------------------------------------------------------------------
(***************************************************************************)
(* A request stays what was typed while its form looks at it (RequestHolds), *)
(* what is stored is what was typed (DocHolds), and a vendor bill number is *)
(* stored once (NumbersBilledOnce), for any requests, clerks and numbers.  *)
(* The rest follows form by form: what a form accepts its table takes.     *)
(***************************************************************************)

-----------------------------------------------------------------------------
(* What clerks type, for any requests.                                     *)

\* Forms whose tables and posters take what they let through.
Covered == {"PURCHASE_ORDER", "SALES_ORDER", "RETURN", "TRANSFER", "PAYMENT", "ALLOCATION", "DELIVERY"}
Kept == {"saved", "posted", "refused", "failed"}

\* A request as it was typed, and what its form has seen to.
Sound(r) == \E t \in Typeable : r.form = t.form /\ r.head = t.head /\ r.lines = t.lines
BillIsFit(r) ==
  /\ r.head.due /\ r.head.number # {}
  /\ \A i \in DOMAIN r.lines : PurchaseBillLineForm(r.lines[i])
Passed(r) == (r.form \in Covered => Constrained(r)) /\ (r.form = "BILL" => BillIsFit(r))

Why(c) ==
  \/ \E i \in DOMAIN req[c].lines : OrZero(req[c].lines[i].discount) > 100
  \/ \E d \in docs : d.clerk # c /\ d.head.number = req[c].head.number
  \/ Outgrown(req[c])
Valued(amounts, form) ==
  /\ \A i \in DOMAIN amounts : amounts[i] >= 0
  /\ form = "RECEIPT" \/ Total(amounts) > 0

RequestHolds(c) ==
  /\ req[c] = [at |-> req[c].at, form |-> req[c].form, head |-> req[c].head, lines |-> req[c].lines]
  /\ req[c].at \in Stages
  /\ req[c].at # "idle" => Sound(req[c])
  /\ \A r \in {req[c]} : r.at = "checked" => Passed(r)
  /\ req[c].at \in Kept => Doc(c, RowsOf(req[c])) \in docs
  /\ \A r \in {req[c]} : r.at \in Kept /\ r.form # "BILL" => TablesAccept(r)
  /\ booked[c] # <<>> => req[c].at = "posted"
  /\ req[c].at = "posted" /\ req[c].form \in {"BILL", "DEBIT_NOTE", "RECEIPT"}
       => Valued(booked[c], req[c].form)
  /\ Crashed(c) => (req[c].form \in Covered => Outgrown(req[c])) /\ (req[c].form = "BILL" => Why(c))

\* A document is what its clerk typed, or the header of an invoice left behind.
DocHolds(d) ==
  /\ d.clerk \in Clerks
  /\ \/ req[d.clerk].at \in Kept /\ d = Doc(d.clerk, RowsOf(req[d.clerk]))
     \/ req[d.clerk].at = "error" /\ req[d.clerk].form = "INVOICE" /\ d = Doc(d.clerk, <<>>)

EntryInvariant ==
  /\ req = [c \in Clerks |-> req[c]] /\ booked = [c \in Clerks |-> booked[c]] /\ increases \in BOOLEAN
  /\ \A c \in Clerks : RequestHolds(c)
  /\ \A d \in docs : DocHolds(d)
  /\ NumbersBilledOnce

-----------------------------------------------------------------------------
(* Forms and tables.                                                       *)

LEMMA SoundLines ==
  ASSUME NEW r, Sound(r)
  PROVE  /\ Len(r.lines) \in Nat /\ r.lines = [i \in 1 .. Len(r.lines) |-> r.lines[i]]
         /\ DOMAIN r.lines = 1 .. Len(r.lines) /\ IsFiniteSet(DOMAIN r.lines)
         /\ r.form = "BILL" => r.head.value \in Int
         /\ r.form = "PAYMENT" => r.head.direction \in {"RECEIPT", "PAYMENT"}
         /\ \A i \in DOMAIN r.lines :
              /\ r.form \in {"BILL", "DEBIT_NOTE"} =>
                   r.lines[i].quantity \in Int /\ r.lines[i].price \in Int /\ r.lines[i].discount \subseteq Int
              /\ r.form = "RECEIPT" => r.lines[i].received \in Int /\ r.lines[i].rejected \subseteq Int
              /\ r.form = "ADJUSTMENT" => r.lines[i].stored \/ r.lines[i].touched \/ IsBlank(r.lines[i])
              /\ r.form \in {"INVOICE", "CREDIT_NOTE", "SALES_RETURN", "DELIVERY"} => r.lines[i].tenths \in Int
<1>1. PICK t \in Typeable : r.form = t.form /\ r.head = t.head /\ r.lines = t.lines
  BY DEF Sound
<1>2. Len(r.lines) \in Nat /\ r.lines = [i \in 1 .. Len(r.lines) |-> r.lines[i]]
  BY <1>1, TypeableAssumption
<1>3. DOMAIN r.lines = 1 .. Len(r.lines)
  BY <1>2
<1>4. IsFiniteSet(1 .. Len(r.lines))
  <2>1. 1 \in Int /\ Len(r.lines) \in Int
    BY <1>2
  <2> QED BY <2>1, FS_Interval
<1>5. /\ r.form = "BILL" => r.head.value \in Int
      /\ r.form = "PAYMENT" => r.head.direction \in {"RECEIPT", "PAYMENT"}
      /\ \A i \in DOMAIN r.lines :
           /\ r.form \in {"BILL", "DEBIT_NOTE"} =>
                r.lines[i].quantity \in Int /\ r.lines[i].price \in Int /\ r.lines[i].discount \subseteq Int
           /\ r.form = "RECEIPT" => r.lines[i].received \in Int /\ r.lines[i].rejected \subseteq Int
           /\ r.form = "ADJUSTMENT" => r.lines[i].stored \/ r.lines[i].touched \/ IsBlank(r.lines[i])
           /\ r.form \in {"INVOICE", "CREDIT_NOTE", "SALES_RETURN", "DELIVERY"} => r.lines[i].tenths \in Int
  <2>1. Numbers \subseteq Int
    BY EntryAssumption DEF Numbers
  <2> QED BY <1>1, <1>3, <2>1, TypeableAssumption DEF IsBlank
<1> QED BY <1>2, <1>3, <1>4, <1>5

\* The lines that are kept are typed lines, where they were typed.
LEMMA RowsAreTyped ==
  ASSUME NEW r
  PROVE  /\ DOMAIN RowsOf(r) \subseteq DOMAIN r.lines
         /\ \A i \in DOMAIN RowsOf(r) : RowsOf(r)[i] = r.lines[i]
         /\ r.form \notin {"ADJUSTMENT", "ALLOCATION", "INVOICE", "CREDIT_NOTE", "SALES_RETURN", "DELIVERY"}
              => RowsOf(r) = r.lines
BY DEF RowsOf, AdjustmentRows, RestrictValues, Restrict

\* Form by form: what is let through, its table takes.
LEMMA FormCovers ==
  ASSUME NEW r, Sound(r), FormAccepts(r)
  PROVE  Passed(r)
<1>1. ASSUME r.form \in {"PURCHASE_ORDER", "SALES_ORDER", "RETURN", "TRANSFER"} PROVE Constrained(r)
  <2>1. RowsOf(r) = r.lines
    BY <1>1, RowsAreTyped
  <2>2. CASE r.form = "PURCHASE_ORDER"
    BY <2>1, <2>2 DEF FormAccepts, Constrained, PurchaseOrderForm, PurchaseOrderLineForm, purchase_order_line, Every
  <2>3. CASE r.form = "SALES_ORDER"
    BY <2>1, <2>3 DEF FormAccepts, Constrained, SalesOrderForm, SalesOrderLineForm, sales_order_line, Every
  <2>4. CASE r.form = "RETURN"
    BY <2>1, <2>4 DEF FormAccepts, Constrained, PurchaseReturnForm, purchase_return, Every
  <2>5. CASE r.form = "TRANSFER"
    BY <2>1, <2>5 DEF FormAccepts, Constrained, StockTransferForm, stock_transfer, Every
  <2> QED BY <1>1, <2>2, <2>3, <2>4, <2>5
<1>2. ASSUME r.form = "PAYMENT" PROVE Constrained(r)
  <2>1. PaymentForm(r.head) /\ r.head.direction \in {"RECEIPT", "PAYMENT"}
    BY <1>2, SoundLines DEF FormAccepts
  <2>2. payment(r.head)
    BY <2>1 DEF PaymentForm, payment
  <2> QED BY <1>2, <2>2 DEF Constrained
<1>3. ASSUME r.form = "ALLOCATION" PROVE Constrained(r)
  <2>1. \A i \in DOMAIN RowsOf(r) : OrZero(RowsOf(r)[i].amount) > 0
    BY <1>3 DEF RowsOf, RestrictValues, Restrict
  <2> QED BY <1>3, <2>1 DEF Constrained, Every
<1>4. ASSUME r.form = "DELIVERY" PROVE Constrained(r)
  <2>1. \A i \in DOMAIN RowsOf(r) : i \in DOMAIN r.lines /\ RowsOf(r)[i] = r.lines[i] /\ Picked(r.lines[i])
    BY <1>4 DEF RowsOf, RestrictValues, Restrict
  <2>2. \A i \in DOMAIN r.lines : DeliveryLineForm(r.lines[i])
    BY <1>4 DEF FormAccepts, DeliveryForm, Every
  <2>3. \A i \in DOMAIN r.lines : r.lines[i].tenths \in Int
    BY <1>4, SoundLines
  <2>4. \A i \in DOMAIN RowsOf(r) : Rounded(RowsOf(r)[i].tenths) > 0
    BY <2>1, <2>2, <2>3 DEF DeliveryLineForm, Picked, Rounded
  <2> QED BY <1>4, <2>4 DEF Constrained, Every, drafted_line
<1>5. ASSUME r.form = "BILL" PROVE BillIsFit(r)
  BY <1>5 DEF FormAccepts, PurchaseBillForm, Every, BillIsFit
<1> QED BY <1>1, <1>2, <1>3, <1>4, <1>5 DEF Passed, Covered

\* The tables but that of the bills look at the row alone.
LEMMA SameConstraints ==
  \A r : r.form # "BILL" => (Constrained(r)' <=> Constrained(r))
BY DEF Constrained

LEMMA SameTables ==
  \A r : r.form # "BILL" => (TablesAccept(r)' <=> TablesAccept(r))
BY SameConstraints DEF TablesAccept

LEMMA SamePassed ==
  \A r : Passed(r)' <=> Passed(r)
<1>1. \A r : r.form \in Covered => r.form # "BILL"
  BY DEF Covered
<1> QED BY <1>1, SameConstraints DEF Passed, BillIsFit

\* What the constraints let in and the table does not has outgrown a column.
LEMMA RefusedForSize ==
  ASSUME NEW r, Constrained(r), ~TablesAccept(r)
  PROVE  Outgrown(r)
BY DEF TablesAccept, Outgrown, AllFit

\* So has what the poster carries forward.
LEMMA CarriedTooFar ==
  ASSUME NEW r, ~AllFit(Carried(r.form, RowsOf(r)))
  PROVE  Outgrown(r)
BY DEF Outgrown, AllFit

-----------------------------------------------------------------------------
(* Amounts.                                                                *)

LEMMA OrZeroIsInt ==
  ASSUME NEW f, f \subseteq Int PROVE OrZero(f) \in Int
<1>1. CASE f = {}
  BY <1>1 DEF OrZero
<1>2. CASE f # {}
  <2>1. PICK x : x \in f
    BY <1>2
  <2> DEFINE y == CHOOSE z : z \in f
  <2>2. y \in f
    BY <2>1
  <2>3. y \in Int
    BY <2>2
  <2> QED BY <1>2, <2>3 DEF OrZero
<1> QED BY <1>1, <1>2

LEMMA LineNetIsInt ==
  ASSUME NEW r, Sound(r), r.form \in {"BILL", "DEBIT_NOTE"}, NEW i \in DOMAIN r.lines
  PROVE  Net(r.lines[i]) \in Int
<1> DEFINE l == r.lines[i]
<1>1. l.quantity \in Int /\ l.price \in Int /\ OrZero(l.discount) \in Int
  BY SoundLines, OrZeroIsInt
<1> HIDE DEF l
<1>2. l.quantity * l.price \in Int /\ 100 - OrZero(l.discount) \in Int
  BY <1>1
<1>3. Net(l) \in Int
  BY <1>1, <1>2 DEF Net
<1> QED BY <1>3 DEF l

\* A header discount takes no more than there is.
LEMMA BillTotalIsNat ==
  ASSUME NEW r, Sound(r), r.form = "BILL"
  PROVE  BillTotal(r.head, r.lines) \in Nat
<1>1. \A i \in DOMAIN r.lines : Net(r.lines[i]) \in Int
  BY LineNetIsInt
<1>2. Subtotal(r.lines) \in Int
  <2> DEFINE nets == AmountsOf(r.lines, Net)
  <2>1. DOMAIN nets = DOMAIN r.lines /\ \A i \in DOMAIN r.lines : nets[i] \in Int
    BY <1>1 DEF AmountsOf
  <2> HIDE DEF nets
  <2>2. SumFunctionOnSet(nets, DOMAIN nets) \in Int
    BY <2>1, SoundLines, SumType
  <2> QED BY <2>2 DEF Subtotal, Total, nets
<1>3. r.head.value \in Int
  BY SoundLines
<1> DEFINE whole == Subtotal(r.lines)
<1>4. HeaderDiscount(r.head, whole) \in Int /\ HeaderDiscount(r.head, whole) <= whole
  <2> DEFINE value == Reduction(r.head, whole)
  <2> HIDE DEF whole
  <2>1. whole \in Int
    BY <1>2 DEF whole
  <2>2. value \in Int
    BY <1>3, <2>1 DEF Reduction
  <2>3. HeaderDiscount(r.head, whole) = IF value < whole THEN value ELSE whole
    BY DEF HeaderDiscount
  <2> HIDE DEF value
  <2> QED BY <2>1, <2>2, <2>3
<1> HIDE DEF whole
<1> QED BY <1>2, <1>4 DEF BillTotal, whole

LEMMA NetIsInt ==
  ASSUME NEW r, Sound(r), r.form = "DEBIT_NOTE"
  PROVE  LET nets == AmountsOf(r.lines, Net)
         IN  DOMAIN nets = DOMAIN r.lines /\ \A i \in DOMAIN r.lines : nets[i] \in Int
<1>1. \A i \in DOMAIN r.lines : Net(r.lines[i]) \in Int
  BY LineNetIsInt
<1> QED BY <1>1 DEF AmountsOf

LEMMA TotalOfOne ==
  ASSUME NEW n \in Int PROVE Total(<<n>>) = n
<1>1. DOMAIN <<n>> = {1} /\ <<n>>[1] = n
  OBVIOUS
<1>2. SumFunctionOnSet(<<n>>, {} \cup {1}) = <<n>>[1] + SumFunctionOnSet(<<n>>, {})
  BY <1>1, FS_EmptySet, SumAdd
<1> QED BY <1>1, <1>2, SumEmpty DEF Total

\* What is posted is worth something, and a bill that its table took can be posted.
LEMMA PostingIsValued ==
  ASSUME NEW r, Sound(r), r.form # "BILL" => TablesAccept(r), NEW d,
         d.form = r.form, d.head = r.head, d.lines = RowsOf(r), r.form \in Posted
  PROVE  LET p == Posting(d)
         IN  /\ r.form \in Covered \cup {"BILL"} /\ p.fails => Outgrown(r)
             /\ r.form \in {"BILL", "DEBIT_NOTE", "RECEIPT"} /\ ~p.refused /\ ~p.fails
                  => Valued(p.amounts, r.form)
<1>1. CASE r.form = "BILL"
  <2> DEFINE total == BillTotal(r.head, r.lines)
  <2>1. total \in Nat /\ d.lines = r.lines
    BY <1>1, BillTotalIsNat, RowsAreTyped
  <2>2. /\ Posting(d).refused = (total = 0)
        /\ Posting(d).fails = (~JournalTakes(<<total>>))
        /\ Posting(d).amounts = <<total>>
    BY <1>1, <2>1 DEF Posting, post_purchase_bill
  <2> HIDE DEF total
  <2>3. JournalTakes(<<total>>)
    BY <2>1 DEF JournalTakes
  <2>5. /\ Posting(d).refused <=> total = 0
        /\ ~Posting(d).fails
        /\ Posting(d).amounts = <<total>>
    BY <2>2, <2>3
  <2>4. total # 0 => Valued(<<total>>, r.form)
    BY <2>1, TotalOfOne DEF Valued
  <2> QED BY <1>1, <2>4, <2>5
<1>2. CASE r.form = "DEBIT_NOTE"
  <2> DEFINE nets == AmountsOf(r.lines, Net)
  <2>1. d.lines = r.lines
    BY <1>2, RowsAreTyped
  <2>2. /\ Posting(d).refused = (Total(nets) = 0)
        /\ Posting(d).fails = (~JournalTakes(nets) \/ ~ReturnedWithinBilled(r.lines))
        /\ Posting(d).amounts = nets
    BY <1>2, <2>1 DEF Posting, post_vendor_debit_note
  <2>3. DOMAIN nets = DOMAIN r.lines /\ \A i \in DOMAIN r.lines : nets[i] \in Int
    BY <1>2, NetIsInt
  <2> HIDE DEF nets
  <2>4. ASSUME JournalTakes(nets), Total(nets) # 0 PROVE Valued(nets, r.form)
    <3>1. \A i \in DOMAIN nets : nets[i] \in Nat
      BY <2>3, <2>4 DEF JournalTakes
    <3>2. Total(nets) \in Nat
      BY <2>3, <3>1, SoundLines, SumNat DEF Total
    <3> QED BY <2>4, <3>1, <3>2 DEF Valued
  <2> QED BY <1>2, <2>2, <2>4 DEF Covered
<1>3. CASE r.form = "RECEIPT"
  <2>1. d.lines = r.lines
    BY <1>3, RowsAreTyped
  <2>2. \A i \in DOMAIN r.lines : goods_receipt_line(r.lines[i])
    <3>1. TablesAccept(r) /\ RowsOf(r) = r.lines
      BY <1>3, RowsAreTyped
    <3> QED BY <1>3, <3>1 DEF TablesAccept, Constrained, Every
  <2>3. Posting(d).amounts = [i \in DOMAIN r.lines |-> r.lines[i].received - OrZero(r.lines[i].rejected)]
    BY <1>3, <2>1 DEF Posting, post_goods_receipt, AmountsOf, Accepted
  <2>4. Valued(Posting(d).amounts, r.form)
    BY <1>3, <2>2, <2>3 DEF Valued, goods_receipt_line
  <2> QED BY <1>3, <2>4 DEF Covered
<1>4. CASE r.form \in {"RETURN", "DELIVERY"}
  <2>1. Posting(d).fails = FALSE
    BY <1>4 DEF Posting, post_purchase_return, post_delivery
  <2> QED BY <1>4, <2>1
<1>6. CASE r.form = "TRANSFER"
  <2>1. Posting(d).fails = (~AllFit(Carried("TRANSFER", RowsOf(r))))
    BY <1>6 DEF Posting, post_stock_transfer
  <2> QED BY <1>6, <2>1, CarriedTooFar
<1>5. CASE r.form = "ADJUSTMENT"
  BY <1>5 DEF Covered
<1> QED BY <1>1, <1>2, <1>3, <1>4, <1>5, <1>6 DEF Posted

-----------------------------------------------------------------------------
(* Requests that say the same, and what a step leaves alone.               *)

LEMMA Alike ==
  ASSUME NEW q, NEW r, q.form = r.form, q.head = r.head, q.lines = r.lines
  PROVE  /\ RowsOf(q) = RowsOf(r)
         /\ TablesAccept(q) <=> TablesAccept(r)
         /\ FormAccepts(q) <=> FormAccepts(r)
         /\ Sound(q) <=> Sound(r)
         /\ Outgrown(q) <=> Outgrown(r)
<1>1. RowsOf(q) = RowsOf(r)
  BY DEF RowsOf
<1>2. TablesAccept(q) <=> TablesAccept(r)
  BY <1>1 DEF TablesAccept, Constrained
<1>5. Outgrown(q) <=> Outgrown(r)
  BY <1>1 DEF Outgrown
<1>3. FormAccepts(q) <=> FormAccepts(r)
  BY DEF FormAccepts
<1>4. Sound(q) <=> Sound(r)
  BY DEF Sound
<1> QED BY <1>1, <1>2, <1>3, <1>4, <1>5

LEMMA RequestStays ==
  ASSUME NEW c, RequestHolds(c), req'[c] = req[c], booked'[c] = booked[c], docs \subseteq docs'
  PROVE  RequestHolds(c)'
<1>1. Why(c) => Why(c)'
  BY DEF Why
<1>2. Crashed(c)' <=> Crashed(c)
  BY DEF Crashed
<1>3. \A r \in {req[c]} : Passed(r)' <=> Passed(r)
  BY SamePassed
<1>4. \A r \in {req[c]} : r.form # "BILL" => (TablesAccept(r)' <=> TablesAccept(r))
  BY SameTables
<1>5. (\A r \in {req[c]} : r.at = "checked" => Passed(r))'
  BY <1>3 DEF RequestHolds
<1>6. (\A r \in {req[c]} : r.at \in Kept /\ r.form # "BILL" => TablesAccept(r))'
  BY <1>4 DEF RequestHolds
<1>7. (req[c].at \in Kept => Doc(c, RowsOf(req[c])) \in docs)'
  BY DEF RequestHolds, Doc
<1>8. (req[c].at # "idle" => Sound(req[c]))'
  BY DEF RequestHolds, Sound
<1>9. (req[c].at = "posted" /\ req[c].form \in {"BILL", "DEBIT_NOTE", "RECEIPT"}
         => Valued(booked[c], req[c].form))'
  BY DEF RequestHolds, Valued
<1> QED BY <1>1, <1>2, <1>5, <1>6, <1>7, <1>8, <1>9 DEF RequestHolds

LEMMA DocStays ==
  ASSUME NEW d, DocHolds(d), req'[d.clerk] = req[d.clerk]
  PROVE  DocHolds(d)'
BY DEF DocHolds, Doc

-----------------------------------------------------------------------------
(* The invariant.                                                          *)

LEMMA EntryInvariantInit == EntryInit => EntryInvariant
<1> SUFFICES ASSUME EntryInit PROVE EntryInvariant
  OBVIOUS
<1>1. \A c \in Clerks : req[c] = NoRequest /\ booked[c] = <<>>
  BY DEF EntryInit
<1>2. ASSUME NEW c \in Clerks PROVE RequestHolds(c)
  <2>0. req[c] = NoRequest /\ booked[c] = <<>>
    BY <1>1, <1>2
  <2>1. NoRequest = [at |-> NoRequest.at, form |-> NoRequest.form, head |-> NoRequest.head,
                     lines |-> NoRequest.lines]
    BY DEF NoRequest
  <2>2. NoRequest.at = "idle"
    BY DEF NoRequest
  <2> QED BY <2>0, <2>1, <2>2 DEF RequestHolds, Stages, Kept, Crashed
<1> QED BY <1>2 DEF EntryInvariant, EntryInit, NumbersBilledOnce

LEMMA CheckKeeps ==
  ASSUME EntryInvariant, NEW c \in Clerks, Check(c)
  PROVE  EntryInvariant'
<1>1. PICK r \in Open(c) : req' = [req EXCEPT ![c] =
         [at |-> IF ViewFails(r) THEN "error" ELSE IF FormAccepts(r) THEN "checked" ELSE "told",
          form |-> r.form, head |-> r.head, lines |-> r.lines]]
  BY DEF Check
<1>2. r \in Typeable
  BY EntryAssumption DEF Open
<1>3. UNCHANGED <<docs, booked, increases>> /\ req[c].at = "idle"
  BY DEF Check
<1> DEFINE q == [at |-> IF ViewFails(r) THEN "error" ELSE IF FormAccepts(r) THEN "checked" ELSE "told",
                 form |-> r.form, head |-> r.head, lines |-> r.lines]
<1>4. /\ q.form = r.form /\ q.head = r.head /\ q.lines = r.lines
      /\ q = [at |-> q.at, form |-> q.form, head |-> q.head, lines |-> q.lines]
      /\ q.at \in {"error", "checked", "told"}
      /\ q.at = "checked" => FormAccepts(r)
      /\ q.at = "error" => ViewFails(r)
  OBVIOUS
<1> HIDE DEF q
<1>5. req' = [req EXCEPT ![c] = q]
  BY <1>1 DEF q
<1>6. req'[c] = q /\ (\A o \in Clerks \ {c} : req'[o] = req[o]) /\ req' = [o \in Clerks |-> req'[o]]
  BY <1>5 DEF EntryInvariant
<1>7. Sound(q)
  BY <1>2, <1>4 DEF Sound
<1>8. q.at = "checked" => Passed(q)
  BY <1>4, <1>7, Alike, FormCovers
<1>9. RequestHolds(c)'
  <2>1. q.at \notin Kept /\ q.at # "posted" /\ q.at \in Stages
    BY <1>4 DEF Kept, Stages
  <2>2. booked[c] = <<>>
    BY <1>3 DEF EntryInvariant, RequestHolds
  <2>3. Crashed(c)' => q.form \notin Covered \cup {"BILL"}
    BY <1>4, <1>6 DEF Crashed, ViewFails, Covered
  <2>4. (\A p \in {req[c]} : p.at = "checked" => Passed(p))'
    BY <1>6, <1>8, SamePassed
  <2> QED BY <1>3, <1>4, <1>6, <1>7, <2>1, <2>2, <2>3, <2>4 DEF RequestHolds, Sound
<1>10. ASSUME NEW o \in Clerks PROVE RequestHolds(o)'
  <2>1. CASE o = c
    BY <1>9, <2>1
  <2>2. CASE o # c
    <3>1. req'[o] = req[o] /\ booked'[o] = booked[o] /\ docs \subseteq docs'
      BY <1>3, <1>6, <2>2
    <3> QED BY <3>1, RequestStays DEF EntryInvariant
  <2> QED BY <2>1, <2>2
<1>11. ASSUME NEW d \in docs' PROVE DocHolds(d)'
  <2>1. DocHolds(d)
    BY <1>3 DEF EntryInvariant
  <2>2. d.clerk \in Clerks /\ d.clerk # c
    BY <1>3, <2>1 DEF DocHolds, Kept
  <2> QED BY <1>6, <2>1, <2>2, DocStays
<1> QED BY <1>3, <1>6, <1>10, <1>11 DEF EntryInvariant, NumbersBilledOnce

\* A bill that its form let through and its table did not, and what is wrong with it.
LEMMA BillRefused ==
  ASSUME NEW r, Sound(r), r.form = "BILL", BillIsFit(r), ~TablesAccept(r)
  PROVE  \/ \E i \in DOMAIN r.lines : OrZero(r.lines[i].discount) > 100
         \/ Billed(r.head.number)
         \/ Outgrown(r)
<1>1. RowsOf(r) = r.lines
  BY RowsAreTyped
<1>0. SUFFICES ASSUME ~Constrained(r)
               PROVE  \/ \E i \in DOMAIN r.lines : OrZero(r.lines[i].discount) > 100
                      \/ Billed(r.head.number)
  BY RefusedForSize
<1>2. BillTotal(r.head, r.lines) >= 0
  BY BillTotalIsNat
<1>3. ASSUME \A i \in DOMAIN r.lines : purchase_bill_line(r.lines[i]) PROVE Billed(r.head.number)
  BY <1>0, <1>1, <1>2, <1>3 DEF Constrained, purchase_bill, BillIsFit, Every
<1>4. ASSUME NEW i \in DOMAIN r.lines, ~purchase_bill_line(r.lines[i])
      PROVE  OrZero(r.lines[i].discount) > 100
  <2> DEFINE l == r.lines[i]
             n == OrZero(l.discount)
  <2>1. l.quantity \in Int /\ l.price \in Int /\ n \in Int
    BY SoundLines, OrZeroIsInt
  <2>2. l.quantity > 0 /\ l.price >= 0 /\ IF l.stock THEN l.product ELSE l.account
    BY DEF BillIsFit, PurchaseBillLineForm
  <2>3. ~(l.quantity * l.price * n <= l.quantity * l.price * 100)
    BY <1>4, <2>2 DEF purchase_bill_line
  <2> HIDE DEF n, l
  <2> DEFINE m == l.quantity * l.price
  <2>4. m \in Nat
    BY <2>1, <2>2
  <2>5. ~(m * n <= m * 100)
    BY <2>3
  <2> HIDE DEF m
  <2>6. n > 100
    BY <2>1, <2>4, <2>5
  <2> QED BY <2>6 DEF n, l
<1> QED BY <1>3, <1>4

LEMMA SaveKeeps ==
  ASSUME EntryInvariant, NEW c \in Clerks, Save(c)
  PROVE  EntryInvariant'
<1> DEFINE r == req[c]
           to == IF TablesAccept(r) THEN "saved" ELSE "error"
           q == [r EXCEPT !.at = to]
           new == IF TablesAccept(r) THEN {Doc(c, RowsOf(r))} ELSE LeftBehind(c)
<1>1. /\ req' = [req EXCEPT ![c] = q] /\ docs' = docs \cup new
      /\ UNCHANGED <<booked, increases>> /\ r.at = "checked" /\ RequestHolds(c)
  BY DEF Save, EntryInvariant
<1>2. /\ q.form = r.form /\ q.head = r.head /\ q.lines = r.lines /\ q.at = to
      /\ q = [at |-> q.at, form |-> q.form, head |-> q.head, lines |-> q.lines]
  BY <1>1 DEF RequestHolds
<1>3. Sound(r) /\ Passed(r) /\ booked[c] = <<>>
  BY <1>1 DEF RequestHolds
<1>4. /\ TablesAccept(r) => to = "saved" /\ new = {Doc(c, RowsOf(r))}
      /\ ~TablesAccept(r) => to = "error" /\ new = LeftBehind(c)
  OBVIOUS
<1>5. Doc(c, RowsOf(r)) = [clerk |-> c, form |-> r.form, head |-> r.head, lines |-> RowsOf(r)]
  BY DEF Doc
<1>6. LeftBehind(c) = IF r.form = "INVOICE"
        THEN {[clerk |-> c, form |-> r.form, head |-> r.head, lines |-> <<>>]} ELSE {}
  BY DEF LeftBehind, Doc
<1> HIDE DEF q, to, new
<1>7. req'[c] = q /\ (\A o \in Clerks \ {c} : req'[o] = req[o]) /\ req' = [o \in Clerks |-> req'[o]]
  BY <1>1 DEF EntryInvariant
<1>8. /\ RowsOf(q) = RowsOf(r) /\ (TablesAccept(q) <=> TablesAccept(r)) /\ Sound(q)
  BY <1>2, <1>3, Alike
<1>9. \A d \in docs : d.clerk # c
  BY <1>1 DEF EntryInvariant, DocHolds, Kept
<1>10. \A o \in Clerks : \A rows : Doc(o, rows)' =
         [clerk |-> o, form |-> req'[o].form, head |-> req'[o].head, lines |-> rows]
  BY DEF Doc
<1>11. RequestHolds(c)'
  <2>1. to \in Stages /\ to \notin {"idle", "checked", "posted", "failed"} /\ (to \in Kept <=> TablesAccept(r))
    BY <1>4 DEF Stages, Kept
  <2>2. (req[c].at \in Kept => Doc(c, RowsOf(req[c])) \in docs)'
    BY <1>1, <1>2, <1>4, <1>5, <1>7, <1>8, <2>1 DEF Doc
  <2>3. (\A p \in {req[c]} : p.at \in Kept /\ p.form # "BILL" => TablesAccept(p))'
    BY <1>2, <1>7, <1>8, <2>1, SameTables
  <2>4. (\A p \in {req[c]} : p.at = "checked" => Passed(p))'
    BY <1>2, <1>7, <2>1
  <2>5. Crashed(c)' => (req'[c].form \in Covered => Outgrown(req'[c])) /\ (req'[c].form = "BILL" => Why(c)')
    <3>1. SUFFICES ASSUME Crashed(c)'
                   PROVE  (req'[c].form \in Covered => Outgrown(req'[c])) /\ (req'[c].form = "BILL" => Why(c)')
      OBVIOUS
    <3>2. ~TablesAccept(r)
      BY <1>2, <1>4, <1>7, <3>1 DEF Crashed
    <3>3. r.form \in Covered => Outgrown(q)
      BY <1>2, <1>3, <3>2, RefusedForSize, Alike DEF Passed
    <3>4. ASSUME r.form = "BILL" PROVE Why(c)'
      <4>1. \/ \E i \in DOMAIN r.lines : OrZero(r.lines[i].discount) > 100
            \/ Billed(r.head.number)
            \/ Outgrown(q)
        BY <1>2, <1>3, <3>2, <3>4, BillRefused, Alike DEF Passed
      <4>2. \A d \in docs : d \in docs' /\ d.clerk # c
        BY <1>1, <1>9
      <4> QED BY <1>2, <1>7, <4>1, <4>2 DEF Why, Billed
    <3> QED BY <1>2, <1>7, <3>3, <3>4
  <2> QED BY <1>1, <1>2, <1>3, <1>7, <1>8, <2>1, <2>2, <2>3, <2>4, <2>5 DEF RequestHolds, Sound
<1>12. ASSUME NEW o \in Clerks PROVE RequestHolds(o)'
  <2>1. CASE o = c
    BY <1>11, <2>1
  <2>2. CASE o # c
    <3>1. req'[o] = req[o] /\ booked'[o] = booked[o] /\ docs \subseteq docs'
      BY <1>1, <1>7, <2>2
    <3> QED BY <3>1, RequestStays DEF EntryInvariant
  <2> QED BY <2>1, <2>2
<1>13. ASSUME NEW d \in docs' PROVE DocHolds(d)'
  <2>1. CASE d \in docs
    <3>1. DocHolds(d) /\ d.clerk # c
      BY <1>9, <2>1 DEF EntryInvariant
    <3>2. d.clerk \in Clerks
      BY <3>1 DEF DocHolds
    <3> QED BY <1>7, <3>1, <3>2, DocStays
  <2>2. CASE d \in new
    <3>1. CASE TablesAccept(r)
      <4>1. d = [clerk |-> c, form |-> r.form, head |-> r.head, lines |-> RowsOf(r)] /\ q.at = "saved"
        BY <1>2, <1>4, <1>5, <2>2, <3>1
      <4>2. d.clerk = c
        BY <4>1
      <4> QED BY <1>2, <1>7, <1>8, <4>1, <4>2 DEF DocHolds, Doc, Kept
    <3>2. CASE ~TablesAccept(r)
      <4>1. /\ d = [clerk |-> c, form |-> r.form, head |-> r.head, lines |-> <<>>]
            /\ q.at = "error" /\ r.form = "INVOICE"
        BY <1>2, <1>4, <1>6, <2>2, <3>2
      <4>2. d.clerk = c
        BY <4>1
      <4> QED BY <1>2, <1>7, <1>8, <4>1, <4>2 DEF DocHolds, Doc, Kept
    <3> QED BY <3>1, <3>2
  <2> QED BY <1>1, <2>1, <2>2
<1>14. NumbersBilledOnce'
  <2>1. \A d \in new : d.form = "BILL" => /\ d = [clerk |-> c, form |-> r.form, head |-> r.head, lines |-> RowsOf(r)]
                                          /\ ~Billed(d.head.number)
    <3>1. SUFFICES ASSUME NEW d \in new, d.form = "BILL"
                   PROVE  /\ d = [clerk |-> c, form |-> r.form, head |-> r.head, lines |-> RowsOf(r)]
                          /\ ~Billed(d.head.number)
      OBVIOUS
    <3>2. TablesAccept(r)
      BY <1>4, <1>6, <3>1
    <3>3. d = [clerk |-> c, form |-> r.form, head |-> r.head, lines |-> RowsOf(r)]
      BY <1>4, <1>5, <3>1, <3>2
    <3>4. ~Billed(r.head.number)
      BY <3>1, <3>2, <3>3 DEF TablesAccept, Constrained, purchase_bill
    <3> QED BY <3>3, <3>4
  <2>2. \A d \in docs, e \in new : d.form = "BILL" /\ e.form = "BILL" => d.head.number # e.head.number
    BY <2>1 DEF Billed
  <2> QED BY <1>1, <2>1, <2>2 DEF EntryInvariant, NumbersBilledOnce
<1> QED BY <1>1, <1>7, <1>12, <1>13, <1>14 DEF EntryInvariant

LEMMA PostKeeps ==
  ASSUME EntryInvariant, NEW c \in Clerks, Post(c)
  PROVE  EntryInvariant'
<1> DEFINE r == req[c]
           d1 == CHOOSE d \in docs : d.clerk = c
           p == Posting(d1)
           to == IF p.refused THEN "refused" ELSE IF p.fails THEN "failed" ELSE "posted"
           q == [r EXCEPT !.at = to]
<1>1. /\ req' = [req EXCEPT ![c] = q] /\ UNCHANGED <<docs, increases>>
      /\ booked' = IF p.refused \/ p.fails THEN booked ELSE [booked EXCEPT ![c] = p.amounts]
      /\ r.at = "saved" /\ r.form \in Posted /\ RequestHolds(c)
  BY DEF Post, EntryInvariant
<1>2. /\ q.form = r.form /\ q.head = r.head /\ q.lines = r.lines /\ q.at = to
      /\ q = [at |-> q.at, form |-> q.form, head |-> q.head, lines |-> q.lines]
  BY <1>1 DEF RequestHolds
<1>3. Sound(r) /\ booked[c] = <<>> /\ (r.form # "BILL" => TablesAccept(r))
  BY <1>1 DEF RequestHolds, Kept
<1>4. Doc(c, RowsOf(r)) \in docs
  BY <1>1 DEF RequestHolds, Kept
<1>5. d1 \in docs /\ d1.clerk = c
  BY <1>4 DEF Doc
<1> HIDE DEF d1
<1>6. d1 = Doc(c, RowsOf(r))
  BY <1>1, <1>5 DEF EntryInvariant, DocHolds
<1>7. d1.form = r.form /\ d1.head = r.head /\ d1.lines = RowsOf(r)
  BY <1>6 DEF Doc
<1> DEFINE amounts == p.amounts
           refused == p.refused
           fails == p.fails
<1>8. /\ r.form \in Covered \cup {"BILL"} /\ fails => Outgrown(r)
      /\ r.form \in {"BILL", "DEBIT_NOTE", "RECEIPT"} /\ ~refused /\ ~fails => Valued(amounts, r.form)
  BY <1>1, <1>3, <1>7, PostingIsValued
<1>9. /\ to \in {"refused", "failed", "posted"}
      /\ to = "posted" => ~refused /\ ~fails /\ booked'[c] = amounts
      /\ to # "posted" => booked'[c] = booked[c]
      /\ to = "failed" => fails
  BY <1>1 DEF EntryInvariant
<1>10. (\A o \in Clerks \ {c} : booked'[o] = booked[o]) /\ booked' = [o \in Clerks |-> booked'[o]]
  BY <1>1 DEF EntryInvariant
<1> HIDE DEF amounts, refused, fails, p, to, q
<1>11. req'[c] = q /\ (\A o \in Clerks \ {c} : req'[o] = req[o]) /\ req' = [o \in Clerks |-> req'[o]]
  BY <1>1 DEF EntryInvariant
<1>12. /\ RowsOf(q) = RowsOf(r) /\ (TablesAccept(q) <=> TablesAccept(r)) /\ Sound(q)
       /\ Outgrown(q) <=> Outgrown(r)
  BY <1>2, <1>3, Alike
<1>13. RequestHolds(c)'
  <2>1. to \in Stages /\ to \notin {"idle", "checked", "error"} /\ to \in Kept
    BY <1>9 DEF Stages, Kept
  <2>2. (req[c].at \in Kept => Doc(c, RowsOf(req[c])) \in docs)'
    BY <1>1, <1>2, <1>4, <1>11, <1>12 DEF Doc
  <2>3. (\A o \in {req[c]} : o.at \in Kept /\ o.form # "BILL" => TablesAccept(o))'
    BY <1>2, <1>3, <1>11, <1>12, SameTables
  <2>4. (\A o \in {req[c]} : o.at = "checked" => Passed(o))'
    BY <1>2, <1>11, <2>1
  <2>5. Crashed(c)' => (req'[c].form \in Covered \cup {"BILL"} => Outgrown(req'[c]))
    BY <1>2, <1>8, <1>9, <1>11, <1>12 DEF Crashed
  <2>8. (Crashed(c) => (req[c].form \in Covered => Outgrown(req[c])) /\ (req[c].form = "BILL" => Why(c)))'
    BY <2>5 DEF Why
  <2>6. (booked[c] # <<>> => req[c].at = "posted")'
    BY <1>2, <1>3, <1>9, <1>11
  <2>7. (req[c].at = "posted" /\ req[c].form \in {"BILL", "DEBIT_NOTE", "RECEIPT"}
           => Valued(booked[c], req[c].form))'
    BY <1>2, <1>8, <1>9, <1>11 DEF Valued
  <2> QED BY <1>1, <1>2, <1>11, <1>12, <2>1, <2>2, <2>3, <2>4, <2>8, <2>6, <2>7 DEF RequestHolds, Sound
<1>14. ASSUME NEW o \in Clerks PROVE RequestHolds(o)'
  <2>1. CASE o = c
    BY <1>13, <2>1
  <2>2. CASE o # c
    <3>1. req'[o] = req[o] /\ booked'[o] = booked[o] /\ docs \subseteq docs'
      BY <1>1, <1>10, <1>11, <2>2
    <3> QED BY <3>1, RequestStays DEF EntryInvariant
  <2> QED BY <2>1, <2>2
<1>15. ASSUME NEW d \in docs' PROVE DocHolds(d)'
  <2>1. DocHolds(d) /\ d.clerk \in Clerks
    BY <1>1 DEF EntryInvariant, DocHolds
  <2>2. CASE d.clerk # c
    BY <1>11, <2>1, <2>2, DocStays
  <2>3. CASE d.clerk = c
    <3>1. d = [clerk |-> c, form |-> r.form, head |-> r.head, lines |-> RowsOf(r)]
      BY <1>1, <2>1, <2>3 DEF DocHolds, Doc
    <3>2. req'[d.clerk].at \in Kept
      BY <1>2, <1>9, <1>11, <2>3 DEF Kept
    <3> QED BY <1>2, <1>11, <1>12, <2>1, <2>3, <3>1, <3>2 DEF DocHolds, Doc
  <2> QED BY <2>2, <2>3
<1> QED BY <1>1, <1>10, <1>11, <1>14, <1>15 DEF EntryInvariant, NumbersBilledOnce

LEMMA NothingMovesKeeps ==
  ASSUME EntryInvariant, UNCHANGED <<req, docs, booked>>, increases' \in BOOLEAN
  PROVE  EntryInvariant'
<1>1. \A c \in Clerks : RequestHolds(c)'
  BY RequestStays DEF EntryInvariant
<1>2. \A d \in docs' : DocHolds(d)'
  BY DocStays DEF EntryInvariant
<1> QED BY <1>1, <1>2 DEF EntryInvariant, NumbersBilledOnce

LEMMA EntryInvariantStep == EntryInvariant /\ [EntryNext]_entryVars => EntryInvariant'
<1> SUFFICES ASSUME EntryInvariant, [EntryNext]_entryVars PROVE EntryInvariant'
  OBVIOUS
<1>1. CASE EditReason
  BY <1>1, NothingMovesKeeps DEF EditReason
<1>2. CASE UNCHANGED entryVars
  BY <1>2, NothingMovesKeeps DEF entryVars, EntryInvariant
<1>3. ASSUME NEW c \in Clerks, Check(c) \/ Save(c) \/ Post(c) PROVE EntryInvariant'
  BY <1>3, CheckKeeps, SaveKeeps, PostKeeps
<1> QED BY <1>1, <1>2, <1>3 DEF EntryNext

-----------------------------------------------------------------------------
(* The results.                                                            *)

\* The invariant says of each document which of the typed lines it holds.
LEMMA NothingIsLost == EntryInvariant => NothingTypedIsLost
<1> SUFFICES ASSUME EntryInvariant PROVE NothingTypedIsLost
  OBVIOUS
<1>1. ASSUME NEW d \in docs, d \notin LeftBehind(d.clerk)
      PROVE  d.lines = RestrictValues(req[d.clerk].lines, LAMBDA l :
          CASE d.form = "ADJUSTMENT" -> ~IsBlank(l)
            [] d.form = "ALLOCATION" -> OrZero(l.amount) > 0
            [] d.form \in {"INVOICE", "CREDIT_NOTE", "SALES_RETURN", "DELIVERY"} ->
                 l.text = "number" /\ l.tenths > 0
            [] OTHER -> TRUE)
  <2> DEFINE r == req[d.clerk]
  <2>1. DocHolds(d) /\ d.clerk \in Clerks
    BY <1>1 DEF EntryInvariant, DocHolds
  <2>2. r.at \in Kept /\ d = Doc(d.clerk, RowsOf(r))
    BY <1>1, <2>1 DEF DocHolds, LeftBehind
  <2>3. d.form = r.form /\ d.lines = RowsOf(r)
    BY <2>2 DEF Doc
  <2>4. Sound(r) /\ (r.form # "BILL" => TablesAccept(r))
    BY <2>1, <2>2 DEF EntryInvariant, RequestHolds, Kept
  <2> HIDE DEF r
  <2>5. CASE r.form = "ADJUSTMENT"
    <3>1. \A i \in DOMAIN r.lines : r.lines[i].stored \/ r.lines[i].touched \/ IsBlank(r.lines[i])
      BY <2>4, <2>5, SoundLines
    <3>2. \A i \in DOMAIN RowsOf(r) : ~IsBlank(RowsOf(r)[i])
      BY <2>4, <2>5 DEF TablesAccept, Constrained, Every, stock_adjustment_line, IsBlank
    <3>3. RowsOf(r) = [i \in {j \in DOMAIN r.lines :
                                r.lines[j].stored \/ (r.lines[j].touched /\ ~IsBlank(r.lines[j]))} |-> r.lines[i]]
      BY <2>5 DEF RowsOf, AdjustmentRows, RestrictValues, Restrict
    <3>4. \A i \in DOMAIN r.lines :
            ~IsBlank(r.lines[i]) <=> (r.lines[i].stored \/ (r.lines[i].touched /\ ~IsBlank(r.lines[i])))
      BY <3>1, <3>2, <3>3
    <3>5. RowsOf(r) = [i \in {j \in DOMAIN r.lines : ~IsBlank(r.lines[j])} |-> r.lines[i]]
      BY <3>3, <3>4
    <3> QED BY <2>3, <2>5, <3>5 DEF RestrictValues, Restrict, r
  <2>6. CASE r.form = "ALLOCATION"
    BY <2>3, <2>6 DEF RowsOf, RestrictValues, Restrict, r
  <2>7. CASE r.form \in {"INVOICE", "CREDIT_NOTE", "SALES_RETURN", "DELIVERY"}
    BY <2>3, <2>7 DEF RowsOf, RestrictValues, Restrict, Picked, r
  <2>8. CASE r.form \notin {"ADJUSTMENT", "ALLOCATION", "INVOICE", "CREDIT_NOTE", "SALES_RETURN", "DELIVERY"}
    <3>1. RowsOf(r) = r.lines
      BY <2>8, RowsAreTyped
    <3>2. r.lines = [i \in DOMAIN r.lines |-> r.lines[i]]
      BY <2>4, SoundLines
    <3> QED BY <2>3, <2>8, <3>1, <3>2 DEF RestrictValues, Restrict, r
  <2> QED BY <2>5, <2>6, <2>7, <2>8
<1> QED BY <1>1 DEF NothingTypedIsLost

\* What was typed is what is kept, once, and what is posted of it is worth
\* something, for any requests of any number of clerks.
THEOREM TypedIsAlwaysKept == EntrySpec => []TypedIsKept
<1>1. EntryInvariant => TypedIsKept
  <2> SUFFICES ASSUME EntryInvariant PROVE TypedIsKept
    OBVIOUS
  <2>1. EntryTypeOK
    <3>1. ASSUME NEW d \in docs PROVE d.clerk \in Clerks /\ req[d.clerk].form = d.form
      BY <3>1 DEF EntryInvariant, DocHolds, Doc
    <3> QED BY <3>1 DEF EntryTypeOK, EntryInvariant, RequestHolds
  <2>2. PostedHasValue
    BY DEF PostedHasValue, EntryInvariant, RequestHolds, Valued
  <2> QED BY <2>1, <2>2, NothingIsLost DEF TypedIsKept, EntryInvariant
<1> QED BY <1>1, EntryInvariantInit, EntryInvariantStep, PTL DEF EntrySpec

\* What a form accepts does not end in a server error, but for the reasons and
\* the forms named, and what does leaves nothing behind but the header of an
\* invoice.
THEOREM ErrorsAreAlwaysTold == EntrySpec => []ErrorsAreTold
<1>1. EntryInvariant => ErrorsAreTold
  <2> SUFFICES ASSUME EntryInvariant PROVE ErrorsAreTold
    OBVIOUS
  <2>0. \A c : Outgrown(Typed(c)) <=> Outgrown(req[c])
    BY Alike DEF Typed
  <2>1. FormsCoverTheTables
    BY <2>0 DEF FormsCoverTheTables, EntryInvariant, RequestHolds, Covered
  <2>2. BillsFailForThreeReasons
    BY <2>0 DEF BillsFailForThreeReasons, EntryInvariant, RequestHolds, Why
  <2>3. NothingHalfWritten
    BY DEF NothingHalfWritten, EntryInvariant, DocHolds, Doc, Kept
  <2> QED BY <2>1, <2>2, <2>3 DEF ErrorsAreTold
<1> QED BY <1>1, EntryInvariantInit, EntryInvariantStep, PTL DEF EntrySpec

=============================================================================
