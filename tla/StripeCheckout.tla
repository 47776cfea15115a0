--------------------------- MODULE StripeCheckout ---------------------------
(***************************************************************************)
(* Payment links: a clerk creates a Stripe checkout session for an invoice,*)
(* the customer pays it, Stripe calls back, and a receipt is posted and    *)
(* applied to the invoice (apps/payments/stripe_service.py).               *)
(*                                                                         *)
(* A worker is one web request: a clerk's button or one delivery of an     *)
(* event.  What it reads without a lock and what it does in each of its    *)
(* transactions are separate steps, and it may die between any two.  The   *)
(* transaction that posts the receipt is two steps, for it reads the open  *)
(* amount of the invoice before allocate_payment locks it; it holds the    *)
(* row lock of the checkout over both.                                     *)
(*                                                                         *)
(* External, modelled from how the code uses them: Stripe's sessions,      *)
(* events and idempotency keys; the ledger, which takes an entry or        *)
(* refuses it; and whatever else settles the invoice.  `refused' is        *)
(* settlement_error holding a reason.  The fee is left out: a fee Stripe   *)
(* did not report is recorded as zero, with a note.                        *)
(*                                                                         *)
(* The books keep four decimals; Stripe charges in whole cents, or what    *)
(* else the currency's smallest unit is.  The row and the receipt keep the *)
(* amount of the books, the session the rounded one, and nothing compares  *)
(* the two.                                                                *)
(***************************************************************************)
EXTENDS Integers, FiniteSets, Functions

CONSTANTS
  Invoices,  \* posted sales invoices
  Links,     \* Stripe session ids, drawn as sessions are created
  Workers,   \* bound: requests in flight
  Clerks,    \* bound: those of them that may create links
  Callers,   \* bound: those of them that may settle sessions
  NoLink,    \* no live link was found
  NoRow,     \* a session this database holds no stripe_checkout row for
  Total,     \* total_txn of every invoice, in the units of the books
  Minor,     \* units of the books in the smallest unit Stripe charges in
  Delayed    \* sessions that may be paid by a method that completes later

ASSUME NullLinkAssumption == NoLink \notin Links
ASSUME TotalAssumption == Total \in [Invoices -> Nat \ {0}]
ASSUME MinorAssumption == Minor \in Nat \ {0}
ASSUME FiniteAssumption == IsFiniteSet(Links)
ASSUME BoundAssumption ==
  /\ Delayed \subseteq Links
  /\ Clerks \subseteq Workers
  /\ Callers \subseteq Workers

VARIABLES
  row,        \* stripe_checkout rows
  session,    \* what Stripe holds of each session
  keys,       \* idempotency keys Stripe still remembers
  event,      \* events of a session that Stripe has had no answer to
  receipts,   \* receipts posted for a session
  applied,    \* how much of them is applied to the invoice of the session
  elsewhere,  \* settled on the invoice by other payments and credits
  worker      \* requests in flight

stripeVars == <<session, keys, event>>
booksVars == <<receipts, applied, elsewhere>>
vars == <<row, stripeVars, booksVars, worker>>

-----------------------------------------------------------------------------
(* Rows, sessions and requests.                                            *)

CheckoutStatuses == {"PENDING", "PAID", "EXPIRED"}

Money == Nat \ {0}
Checkout == [invoice : Invoices, amount : Money, status : CheckoutStatuses,
             receipt : BOOLEAN, refused : BOOLEAN]
ASSUME NoRowAssumption == NoRow \notin Checkout

\* `asked' is the open amount the session was made for, which only its
\* idempotency key names; `amount' is what Stripe charges, in its own units.
SessionStates == {"open", "processing", "paid", "failed"}
Session == [invoice : Invoices, asked : Money, amount : Nat, state : SessionStates,
            lapsed : BOOLEAN]
NoSession == [state |-> "none"]

Events == {"completed", "async_payment_succeeded", "async_payment_failed", "expired"}

Idle == [at |-> "idle"]
Charging == [at : {"loaded"}, invoice : Invoices, open : Money]
Replacing == [at : {"replacing"}, invoice : Invoices, open : Money,
              existing : Links \cup {NoLink}]

\* What a settling request carries: the link, whether an event is waiting for
\* its answer, and in "posting" what it will apply.
Settling == [at : {"fetched", "recorded", "posting", "refused"}, link : Links,
             event : BOOLEAN, take : Nat]

Init ==
  /\ row = [l \in Links |-> NoRow]
  /\ session = [l \in Links |-> NoSession]
  /\ keys = {}
  /\ event = [l \in Links |-> {}]
  /\ receipts = [l \in Links |-> 0]
  /\ applied = [l \in Links |-> 0]
  /\ elsewhere = [i \in Invoices |-> 0]
  /\ worker = [w \in Workers |-> Idle]

HasRow(l) == row[l] # NoRow
LinksOf(i) == {l \in Links : HasRow(l) /\ row[l].invoice = i}

\* open_txn of the invoice, as Settlement keeps it.
Open(i) == Total[i] - elsewhere[i] - SumFunctionOnSet(applied, LinksOf(i))

\* The row lock of the transaction that posts a receipt.
Locked(l) == \E w \in Workers : worker[w].at = "posting" /\ worker[w].link = l

Goto(w, task) == worker' = [worker EXCEPT ![w] = task]
Step(w, place) == worker' = [worker EXCEPT ![w].at = place]

\* The request ends.  A webhook answered with 200 is an event Stripe need not
\* send again, although it may.
Answered(l) == event' = [event EXCEPT ![l] = @ \ {"completed"}]
End(w) ==
  /\ Goto(w, Idle)
  /\ \/ UNCHANGED event
     \/ worker[w].event /\ Answered(worker[w].link)
  /\ UNCHANGED <<session, keys>>

-----------------------------------------------------------------------------
(* Creating a link.                                                        *)

\* The view loads the invoice, which must be posted with something open.
LoadInvoice(w, i) ==
  /\ w \in Clerks
  /\ worker[w] = Idle
  /\ \E open \in 1 .. Total[i] :
       /\ open = Open(i)
       /\ Goto(w, [at |-> "loaded", invoice |-> i, open |-> open])
  /\ UNCHANGED <<row, stripeVars, booksVars>>

\* live_checkout: a pending link of the invoice that has not run out, if any,
\* read without a lock.  (The newest; the model takes any.)
LiveLinks(i) == {l \in LinksOf(i) : row[l].status = "PENDING" /\ ~session[l].lapsed}

\* start_checkout, up to the decision: a live link for the right amount is
\* handed out again and nothing is written.
FindLiveLink(w) ==
  LET task == worker[w]
      live == LiveLinks(task.invoice)
  IN  /\ task.at = "loaded"
      /\ \E existing \in (IF live = {} THEN {NoLink} ELSE live) :
           Goto(w, IF existing # NoLink /\ row[existing].amount = task.open
                   THEN Idle
                   ELSE [at |-> "replacing", invoice |-> task.invoice,
                         open |-> task.open, existing |-> existing])
      /\ UNCHANGED <<row, stripeVars, booksVars>>

\* The update that stops offering the old link names its row by primary key
\* and nothing else; the CHECK stripe_checkout_payment_needs_paid refuses it
\* once a receipt hangs off the row.
ReplaceableWithoutCheck(existing) == existing # NoLink => ~Locked(existing)
Replaceable(existing) == existing # NoLink => ~Locked(existing) /\ ~row[existing].receipt
ReplacedInStripesWords(existing) ==
  IF existing = NoLink THEN row ELSE [row EXCEPT ![existing].status = "expired"]
Replaced(existing) ==
  IF existing = NoLink THEN row ELSE [row EXCEPT ![existing].status = "EXPIRED"]

\* Rounded half up to the currency's smallest unit.
to_minorUnscaled(amount) == amount
to_minor(amount) == (2 * amount + Minor) \div (2 * Minor)

\* Stripe answers a key it remembers with the first session, or with an error
\* because expires_at differs: either way no second session comes to be.
IdempotencyKey(i, open) == <<i, open>>
StripeCreatesAlways(l, i, open) ==
  /\ session[l] = NoSession
  /\ keys' = keys \cup {IdempotencyKey(i, open)}
  /\ session' = [session EXCEPT ![l] = [invoice |-> i, asked |-> open,
                                        amount |-> to_minor(open),
                                        state |-> "open", lapsed |-> FALSE]]
  /\ UNCHANGED event
StripeCreates(l, i, open) ==
  /\ session[l] = NoSession
  /\ IdempotencyKey(i, open) \notin keys
  /\ keys' = keys \cup {IdempotencyKey(i, open)}
  /\ session' = [session EXCEPT ![l] = [invoice |-> i, asked |-> open,
                                        amount |-> to_minor(open),
                                        state |-> "open", lapsed |-> FALSE]]
  /\ UNCHANGED event

\* The rest of start_checkout: replace the old link, create the new one.
CreateLink(w, l) ==
  LET task == worker[w]
      new == [invoice |-> task.invoice, amount |-> task.open, status |-> "PENDING",
              receipt |-> FALSE, refused |-> FALSE]
  IN  /\ task.at = "replacing"
      /\ Replaceable(task.existing)
      /\ StripeCreates(l, task.invoice, task.open)
      /\ row' = [Replaced(task.existing) EXCEPT ![l] = new]
      /\ Goto(w, Idle)
      /\ UNCHANGED booksVars

\* Stripe created the session and its answer was lost, or the request died
\* before the commit: a session nobody was given the address of.
LoseLink(w, l) ==
  /\ worker[w].at = "replacing"
  /\ StripeCreates(l, worker[w].invoice, worker[w].open)
  /\ Goto(w, Idle)
  /\ UNCHANGED <<row, booksVars>>

-----------------------------------------------------------------------------
(* Settling a session.                                                     *)

\* A completion is delivered: settle_session reads the row, and asks Stripe
\* what became of the session, with nothing locked.
NothingToSettle(l) == ~HasRow(l) \/ row[l].receipt
FetchWithoutAsking(w, l) ==
  /\ w \in Callers
  /\ worker[w] = Idle
  /\ "completed" \in event[l]
  /\ IF NothingToSettle(l)
     THEN /\ Answered(l)
          /\ UNCHANGED worker
     ELSE /\ Goto(w, [at |-> "fetched", link |-> l, event |-> TRUE, take |-> 0])
          /\ UNCHANGED event
  /\ UNCHANGED <<row, session, keys, booksVars>>
FetchSettlement(w, l) ==
  /\ w \in Callers
  /\ worker[w] = Idle
  /\ "completed" \in event[l]
  /\ IF NothingToSettle(l) \/ session[l].state # "paid"
     THEN /\ Answered(l)
          /\ UNCHANGED worker
     ELSE /\ Goto(w, [at |-> "fetched", link |-> l, event |-> TRUE, take |-> 0])
          /\ UNCHANGED event
  /\ UNCHANGED <<row, session, keys, booksVars>>

\* The first transaction: that the customer paid, under the row lock.
RecordPaid(w) ==
  LET l == worker[w].link
  IN  /\ worker[w].at = "fetched"
      /\ ~Locked(l)
      /\ IF row[l].receipt
         THEN /\ End(w)
              /\ UNCHANGED row
         ELSE /\ row' = [row EXCEPT ![l].status = "PAID"]
              /\ Step(w, "recorded")
              /\ UNCHANGED stripeVars
      /\ UNCHANGED booksVars

\* StripeSettleRetryView: the button on a row that is paid and has no receipt.
RetryPosting(w, l) ==
  /\ w \in Callers
  /\ worker[w] = Idle
  /\ HasRow(l)
  /\ row[l].status = "PAID"
  /\ ~row[l].receipt
  /\ Goto(w, [at |-> "recorded", link |-> l, event |-> FALSE, take |-> 0])
  /\ UNCHANGED <<row, stripeVars, booksVars>>

\* What the second transaction requires of the row once it is locked.
OutstandingUnchecked(l) == row[l].status = "PAID"
Outstanding(l) == row[l].status = "PAID" /\ ~row[l].receipt

\* post_settled_checkout, the row locked: the receipt is made and posted, and
\* the open amount of the invoice is read.  Or the ledger refuses: a closed
\* period, a missing rate or mapping, a fee that swallows the receipt.
PostReceipt(w) ==
  LET l == worker[w].link
      open == Open(row[l].invoice)
  IN  /\ worker[w].at = "recorded"
      /\ ~Locked(l)
      /\ \/ /\ ~Outstanding(l)
            /\ End(w)
         \/ /\ Outstanding(l)
            /\ \/ \E take \in 0 .. row[l].amount :
                    /\ take = IF open < row[l].amount THEN open ELSE row[l].amount
                    /\ worker' = [worker EXCEPT ![w].at = "posting", ![w].take = take]
               \/ Step(w, "refused")
            /\ UNCHANGED stripeVars
      /\ UNCHANGED <<row, booksVars>>

\* allocate_payment locks the invoice and accepts what is still open.
OpenWhenRead(l, take) == take <= row[l].amount
StillOpen(l, take) == take <= Open(row[l].invoice)

\* The end of that transaction: the receipt is applied, the row points to it.
CommitReceipt(w) ==
  LET l == worker[w].link
  IN  /\ worker[w].at = "posting"
      /\ StillOpen(l, worker[w].take)
      /\ receipts' = [receipts EXCEPT ![l] = @ + 1]
      /\ applied' = [applied EXCEPT ![l] = @ + worker[w].take]
      /\ row' = [row EXCEPT ![l].receipt = TRUE, ![l].refused = FALSE]
      /\ End(w)
      /\ UNCHANGED elsewhere

\* Something else settled the invoice meanwhile: all of it is rolled back.
RefuseAllocation(w) ==
  /\ worker[w].at = "posting"
  /\ ~StillOpen(worker[w].link, worker[w].take)
  /\ Step(w, "refused")
  /\ UNCHANGED <<row, stripeVars, booksVars>>

\* The reason goes to the row by primary key, outside any transaction.
WriteReasonIfPending(w) ==
  LET l == worker[w].link
  IN  /\ worker[w].at = "refused"
      /\ ~Locked(l)
      /\ row' = IF row[l].status = "PENDING"
                THEN [row EXCEPT ![l].refused = TRUE] ELSE row
      /\ End(w)
      /\ UNCHANGED booksVars
WriteReason(w) ==
  LET l == worker[w].link
  IN  /\ worker[w].at = "refused"
      /\ ~Locked(l)
      /\ row' = [row EXCEPT ![l].refused = TRUE]
      /\ End(w)
      /\ UNCHANGED booksVars

\* expire_session, for an expiry and for a failed delayed payment.
Expirable(l) == HasRow(l) /\ row[l].status = "PENDING"
ExpireLink(w, l) ==
  /\ w \in Callers
  /\ worker[w] = Idle
  /\ \E e \in event[l] \cap {"expired", "async_payment_failed"} :
       event' = [event EXCEPT ![l] = @ \ {e}]
  /\ row' = IF Expirable(l) THEN [row EXCEPT ![l].status = "EXPIRED"] ELSE row
  /\ UNCHANGED <<session, keys, booksVars, worker>>

\* handle_event answers every other type without doing anything.
IgnoreEvent(w, l) ==
  /\ w \in Callers
  /\ worker[w] = Idle
  /\ \E e \in event[l] \ {"completed", "expired", "async_payment_failed"} :
       event' = [event EXCEPT ![l] = @ \ {e}]
  /\ UNCHANGED <<row, session, keys, booksVars, worker>>

\* The process dies, Stripe cannot be reached, or the database refuses: what
\* was committed stays, the event is not answered.
Crash(w) ==
  /\ worker[w] # Idle
  /\ Goto(w, Idle)
  /\ UNCHANGED <<row, stripeVars, booksVars>>

-----------------------------------------------------------------------------
(* Stripe, its customer, and the rest of the books.                        *)

Notify(l, e) == event' = [event EXCEPT ![l] = @ \cup {e}]

\* A customer pays a link that was given out, replaced or not.  A card pays at
\* once; another method completes the session and pays, or fails, later.  An
\* amount that rounds to nothing is nothing to pay.
Pay(l) ==
  /\ HasRow(l)
  /\ session[l].state = "open"
  /\ session[l].amount > 0
  /\ ~session[l].lapsed
  /\ \E state \in (IF l \in Delayed THEN {"paid", "processing"} ELSE {"paid"}) :
       session' = [session EXCEPT ![l].state = state]
  /\ Notify(l, "completed")
  /\ UNCHANGED <<row, keys, booksVars, worker>>

FinishDelayed(l) ==
  /\ session[l].state = "processing"
  /\ \/ /\ session' = [session EXCEPT ![l].state = "paid"]
        /\ Notify(l, "async_payment_succeeded")
     \/ /\ session' = [session EXCEPT ![l].state = "failed"]
        /\ Notify(l, "async_payment_failed")
  /\ UNCHANGED <<row, keys, booksVars, worker>>

\* expires_at passes; it is Stripe's and ours.
Lapse(l) ==
  /\ session[l] # NoSession
  /\ ~session[l].lapsed
  /\ session' = [session EXCEPT ![l].lapsed = TRUE]
  /\ IF session[l].state = "open" THEN Notify(l, "expired") ELSE UNCHANGED event
  /\ UNCHANGED <<row, keys, booksVars, worker>>

\* A key is forgotten after a day, which no session outlives.
ForgetKey(k) ==
  /\ k \in keys
  /\ \A l \in Links :
       session[l] # NoSession /\ IdempotencyKey(session[l].invoice, session[l].asked) = k
         => session[l].lapsed
  /\ keys' = keys \ {k}
  /\ UNCHANGED <<row, session, event, booksVars, worker>>

\* Other receipts and credit notes settle the invoice and are un-applied.
SettleElsewhere(i) ==
  /\ \E x \in 0 .. Total[i] :
       /\ x # elsewhere[i]
       /\ x - elsewhere[i] <= Open(i)
       /\ elsewhere' = [elsewhere EXCEPT ![i] = x]
  /\ UNCHANGED <<row, stripeVars, receipts, applied, worker>>

\* reverse_allocation_batch of the batch a Stripe receipt was applied in.
UnapplyReceipt(l) ==
  /\ applied[l] > 0
  /\ applied' = [applied EXCEPT ![l] = 0]
  /\ UNCHANGED <<row, stripeVars, receipts, elsewhere, worker>>

-----------------------------------------------------------------------------
Next ==
  \/ \E w \in Workers :
       \/ \E i \in Invoices : LoadInvoice(w, i)
       \/ FindLiveLink(w)
       \/ \E l \in Links :
            \/ CreateLink(w, l)
            \/ LoseLink(w, l)
            \/ FetchSettlement(w, l)
            \/ RetryPosting(w, l)
            \/ ExpireLink(w, l)
            \/ IgnoreEvent(w, l)
       \/ RecordPaid(w)
       \/ PostReceipt(w)
       \/ CommitReceipt(w)
       \/ RefuseAllocation(w)
       \/ WriteReason(w)
       \/ Crash(w)
  \/ \E l \in Links : Pay(l) \/ FinishDelayed(l) \/ Lapse(l) \/ UnapplyReceipt(l)
  \/ \E k \in keys : ForgetKey(k)
  \/ \E i \in Invoices : SettleElsewhere(i)

Spec == Init /\ [][Next]_vars

-----------------------------------------------------------------------------
(* Properties.                                                             *)

\* Rows, sessions and requests keep their shape; no invoice is settled past
\* its total, no row has two owners.
StripeTypeOK ==
  /\ row \in [Links -> Checkout \cup {NoRow}]
  /\ session \in [Links -> Session \cup {NoSession}]
  /\ keys \subseteq Invoices \X Money
  /\ event \in [Links -> SUBSET Events]
  /\ receipts \in [Links -> Nat]
  /\ applied \in [Links -> Nat]
  /\ elsewhere \in [Invoices -> Nat]
  /\ worker \in [Workers -> {Idle} \cup Charging \cup Replacing \cup Settling]

\* PAY-013: however often an event is delivered, the button is pressed, and a
\* request dies between its transactions, one session yields at most one
\* receipt, and the row points to it exactly when there is one.
OneReceiptPerSession ==
  \A l \in Links :
    /\ receipts[l] <= 1
    /\ receipts[l] = 1 <=> HasRow(l) /\ row[l].receipt

\* A receipt is posted only for a session Stripe itself reports as paid, for
\* the invoice the customer paid, and over what the customer was charged to
\* within half the smallest unit Stripe charges in.  It need not be the very
\* amount: the row keeps four decimals, to_minor rounded them, and nothing
\* compares the two.
Charged(l) == session[l].amount * Minor
Near(x, y) == 2 * (x - y) <= Minor /\ 2 * (y - x) <= Minor
ReceiptsAreBackedByMoney ==
  \A l \in Links : receipts[l] > 0 =>
    /\ session[l].state = "paid"
    /\ Near(row[l].amount, Charged(l))
    /\ row[l].invoice = session[l].invoice

\* Two clerks, or one who clicks twice, never hold two links over the same
\* amount of one invoice that a customer could both pay.
Payable(l) == session[l].state = "open" /\ ~session[l].lapsed
OneLinkPerAmount ==
  \A l, m \in Links :
    l # m /\ HasRow(l) /\ HasRow(m) /\ Payable(l) /\ Payable(m)
      => \/ row[l].invoice # row[m].invoice
         \/ row[l].amount # row[m].amount

\* What was settled stays settled: an expiry, a replaced link or a late
\* delivery never takes the receipt, or the status, from a row that has one.
SettledForGood ==
  [][\A l \in Links : HasRow(l) /\ row[l].receipt =>
       /\ row'[l].receipt
       /\ row'[l].status = "PAID"
       /\ receipts'[l] = receipts[l]]_vars

\* No payment is forgotten: until the row of a link that was paid has its
\* receipt, or the reason why not, Stripe is left without an answer and will
\* call again, wherever the requests over it died.  Two things the code loses
\* are left out: a payment that came late (its event is ignored), and one
\* recorded while start_checkout replaced the link, which the link for another
\* amount tells of; even that one does not stay PENDING.
ReplacedBy(l, m) ==
  HasRow(m) /\ row[m].invoice = row[l].invoice /\ row[m].amount # row[l].amount
NoPaymentForgotten ==
  \A l \in Links \ Delayed :
    HasRow(l) /\ session[l].state = "paid" =>
      \/ "completed" \in event[l]
      \/ row[l].status = "PAID" /\ (row[l].receipt \/ row[l].refused)
      \/ row[l].status # "PENDING" /\ \E m \in Links : ReplacedBy(l, m)

\* Without rows, locks, deliveries and retries: each payment of a customer is
\* booked at most once, to within the rounding of to_minor, and never past
\* what the invoice still owes.
Paid == [l \in Links |-> IF HasRow(l) /\ session[l].state = "paid"
                         THEN Charged(l) ELSE 0]
Booked == [l \in Links |-> IF HasRow(l) THEN receipts[l] * row[l].amount ELSE 0]
Left == [i \in Invoices |-> Open(i)]
Promise == INSTANCE CardReceipts WITH paid <- Paid, booked <- Booked, left <- Left
ImplementsCardReceipts == Promise!Spec

\* Receipts: rows and requests have their types, a session yields at most one
\* receipt, and only one for money Stripe reports, over the amount it charged
\* but for the rounding of to_minor (post_settled_checkout, to_minor).
ReceiptsAreSound == StripeTypeOK /\ OneReceiptPerSession /\ ReceiptsAreBackedByMoney
=============================================================================
