----------------------------- MODULE Settlement -----------------------------
(***************************************************************************)
(* Open-item settlement: payments are posted into an advance account,      *)
(* allocated over invoices and bills, un-allocated and reversed; credit    *)
(* notes are applied without cash; every one of these events writes a      *)
(* journal through the ledger.                                             *)
(*                                                                         *)
(* Each service function runs in one database transaction that first takes *)
(* the row lock of the payment (or credit note), then those of the settled *)
(* documents in primary-key order, and decides only on rows it has locked  *)
(* (apps/payments/allocation.py, reversal.py, services.py), so one action  *)
(* stands for one call.  A call that raises rolls back: it changes nothing *)
(* and is a stuttering step.  Posting an invoice, a bill or a note is      *)
(* different: the status is tested on a row read before the transaction.   *)
(* `loaded' keeps how many such calls are under way.                       *)
(*                                                                         *)
(* Left out: dates, fiscal periods and account mappings, which can only    *)
(* refuse a call (PostingEngine models the period), and the descriptive    *)
(* columns.                                                                *)
(***************************************************************************)
EXTENDS Integers, FiniteSets, Functions

CONSTANTS
  Payments,       \* receipts and payment vouchers
  Targets,        \* sales invoices and purchase bills
  Credits,        \* sales credit notes and vendor debit notes
  Batches,        \* allocation batch keys (one UUID per form)
  NoBatch,        \* a batch key no allocation row carries yet
  NoEntry,        \* a journal key the ledger does not hold yet
  Side,           \* "CUSTOMER" or "VENDOR", of every payment and document
  Party,          \* the customer or vendor together with the currency
  Total,          \* total_txn of every document and credit
  Rate,           \* exchange_rate times RateScale
  RateScale,      \* denominator of the exchange rates
  PaymentAmounts, \* the amounts a draft payment may carry
  Fees,           \* the processor fees a draft payment may carry
  LineAmounts,    \* the amounts a user may type on an allocation line
  Posters,        \* bound: posting calls in flight on each document
  Plans,          \* bound: the sets of documents posted in one behaviour
  MaxMoney        \* bound: the largest amount a money column stores

Documents == Targets \cup Credits
Sources == Payments \cup Credits
Sides == {"CUSTOMER", "VENDOR"}

ASSUME DisjointAssumption ==
  /\ Payments \cap Documents = {}
  /\ Targets \cap Credits = {}
ASSUME FiniteAssumption ==
  \A S \in {Payments, Targets, Credits, Batches} : IsFiniteSet(S)
ASSUME SideAssumption == Side \in [Payments \cup Documents -> Sides]
ASSUME AmountAssumption ==
  /\ Total \in [Documents -> Nat \ {0}]
  /\ Rate \in [Payments \cup Documents -> Nat \ {0}]
  /\ RateScale \in Nat \ {0}
  /\ PaymentAmounts \subseteq Nat \ {0}
  /\ Fees \subseteq Nat
  /\ LineAmounts \subseteq Nat \ {0}
  /\ MaxMoney \in Nat
ASSUME PostersAssumption == Posters \in [Documents -> Nat]

VARIABLES
  pay,      \* payment rows
  doc,      \* the settlement columns of invoices and bills
  credit,   \* the settlement columns of credit and debit notes
  batch,    \* allocation rows, grouped by their batch_key
  journal,  \* journal entries, by what their idempotency key names
  loaded    \* posting calls that have read a document as not posted yet

vars == <<pay, doc, credit, batch, journal, loaded>>

-----------------------------------------------------------------------------
(* Money: amounts are whole numbers of the 0.0001 quantum.                 *)

\* (amount * exchange_rate).quantize(MONEY_QUANTUM, ROUND_HALF_UP)
Base(x, amount) == (2 * amount * Rate[x] + RateScale) \div (2 * RateScale)

Sign(side) == IF side = "CUSTOMER" THEN 1 ELSE -1

\* Lines of one batch: the amount asked for each target, 0 where there is none.
Lines == [Targets -> LineAmounts \cup {0}]
SumOver(S, op(_)) == SumFunctionOnSet([x \in S |-> op(x)], S)
BatchTotal(lines) == SumFunctionOnSet(lines, Targets)
TargetBase(lines) == SumOver(Targets, LAMBDA t : Base(t, lines[t]))

-----------------------------------------------------------------------------
(* Journal entries: the net effect per account, debits positive.           *)

Accounts == {"cash", "fee", "customerAdvance", "vendorAdvance",
             "receivable", "payable", "fx", "other"}
Entry == [Accounts -> (-MaxMoney) .. MaxMoney]
AnyEntry == [Accounts -> Int]

Advance(side) == IF side = "CUSTOMER" THEN "customerAdvance" ELSE "vendorAdvance"
Control(side) == IF side = "CUSTOMER" THEN "receivable" ELSE "payable"

Balanced(e) ==
  e["cash"] + e["fee"] + e["customerAdvance"] + e["vendorAdvance"]
    + e["receivable"] + e["payable"] + e["fx"] + e["other"] = 0

\* The processor fee is taken out of a receipt and added on top of a voucher.
PaymentEntry(side, amountBase, feeBase) ==
  [a \in Accounts |->
     CASE a = "cash"        -> Sign(side) * amountBase - feeBase
       [] a = "fee"         -> feeBase
       [] a = Advance(side) -> -Sign(side) * amountBase
       [] OTHER             -> 0]

\* The advance is released at the payment's rate and the control account at
\* the documents' rates; what lies between them is realised exchange.
AllocationEntryAtOneRate(side, sourceBase, targetBase) ==
  [a \in Accounts |->
     CASE a = Advance(side) -> Sign(side) * sourceBase
       [] a = Control(side) -> -Sign(side) * sourceBase
       [] OTHER             -> 0]
AllocationEntry(side, sourceBase, targetBase) ==
  [a \in Accounts |->
     CASE a = Advance(side) -> Sign(side) * sourceBase
       [] a = Control(side) -> -Sign(side) * targetBase
       [] a = "fx"          -> Sign(side) * (targetBase - sourceBase)
       [] OTHER             -> 0]

\* An invoice or bill raises the control account.  A credit lowers it at once.
DocumentEntry(side, effect) ==
  [a \in Accounts |->
     CASE a = Control(side) -> Sign(side) * effect
       [] a = "other"       -> -Sign(side) * effect
       [] OTHER             -> 0]

\* A sales credit note is built from unit prices and never meets its rate;
\* a vendor debit note posts its total_base.
CreditEffect(c) == IF Side[c] = "CUSTOMER" THEN Total[c] ELSE Base(c, Total[c])

\* A reversal swaps every debit and credit of the stored lines.
Mirror(e) == [a \in Accounts |-> -e[a]]

\* What an idempotency_key names.
PostKey(x) == [kind |-> "post", of |-> x]
ReversalKey(p) == [kind |-> "payment-reversal", of |-> p]
AllocationKeyPerPayment(p, b) == [kind |-> "allocation", of |-> <<p>>]
AllocationKey(p, b) == [kind |-> "allocation", of |-> <<p, b>>]
BatchReversalKey(b) == [kind |-> "alloc-reversal", of |-> b]
Keys == {PostKey(x) : x \in Payments \cup Documents}
          \cup {ReversalKey(p) : p \in Payments}
          \cup {AllocationKey(p, b) : p \in Payments, b \in Batches}
          \cup {BatchReversalKey(b) : b \in Batches}

Recorded(key) == journal[key] # NoEntry

\* PostingEngine.post seen from its caller: a key the ledger already holds
\* returns the entry that is there; otherwise a balanced entry is appended.
Post(key, entry) ==
  \/ /\ Recorded(key)
     /\ UNCHANGED journal
  \/ /\ ~Recorded(key)
     /\ entry \in Entry
     /\ Balanced(entry)
     /\ \E a \in Accounts : entry[a] # 0
     /\ journal' = [journal EXCEPT ![key] = entry]

\* A reversal is a second journal over the stored lines of the first.
PostCopy(key, original) == Post(key, journal[original])
PostMirror(key, original) == Post(key, Mirror(journal[original]))

-----------------------------------------------------------------------------
(* Rows.                                                                   *)

\* Statuses before posting (DRAFT, SUBMITTED, APPROVED) are one value.
Statuses == {"UNPOSTED", "POSTED", "PARTIAL", "COMPLETED", "REVERSED"}
Allocatable == {"POSTED", "PARTIAL"}

PaymentRow == [status : Statuses, amount : Nat, fee : Nat,
               allocated : Nat, unallocated : Nat, reversed : BOOLEAN]
DocRow == [status : Statuses, allocated : Int, credited : Int, open : Int]
CreditRow == [status : Statuses, allocated : Nat, open : Nat]
BatchRow == [source : Sources, lines : Lines, reversed : BOOLEAN]

ASSUME NullAssumption == NoBatch \notin BatchRow /\ NoEntry \notin AnyEntry

Draft(amount, fee) ==
  [status |-> "UNPOSTED", amount |-> amount, fee |-> fee,
   allocated |-> 0, unallocated |-> amount, reversed |-> FALSE]

\* A processor cannot keep all of a receipt; a voucher's fee comes on top.
FeeAllowed(p, amount, fee) == Side[p] = "CUSTOMER" => fee < amount

Init ==
  /\ pay \in [Payments -> {Draft(a, 0) : a \in PaymentAmounts}]
  /\ doc = [t \in Targets |-> [status |-> "UNPOSTED", allocated |-> 0,
                               credited |-> 0, open |-> Total[t]]]
  /\ credit = [c \in Credits |-> [status |-> "UNPOSTED", allocated |-> 0,
                                  open |-> Total[c]]]
  /\ batch = [b \in Batches |-> NoBatch]
  /\ journal = [k \in Keys |-> NoEntry]
  /\ loaded = [d \in Documents |-> 0]

StatusForSettledFirst(open, settled) ==
  IF settled > 0 THEN "PARTIAL" ELSE IF open = 0 THEN "COMPLETED" ELSE "POSTED"
StatusFor(open, settled) ==
  IF open = 0 THEN "COMPLETED" ELSE IF settled > 0 THEN "PARTIAL" ELSE "POSTED"

\* The settlement columns of a document once its two totals are known.  All
\* of them are recomputed whichever of the two moved.
DocWithoutCredits(t, allocated, credited) ==
  LET open == Total[t] - allocated
  IN  [status |-> StatusFor(open, allocated + credited),
       allocated |-> allocated, credited |-> credited, open |-> open]
DocWith(t, allocated, credited) ==
  LET open == Total[t] - allocated - credited
  IN  [status |-> StatusFor(open, allocated + credited),
       allocated |-> allocated, credited |-> credited, open |-> open]

PaymentWith(row, allocated) ==
  LET unallocated == row.amount - allocated
  IN  [row EXCEPT !.allocated = allocated, !.unallocated = unallocated,
                  !.status = StatusFor(unallocated, allocated)]

CreditWith(c, allocated) ==
  LET open == Total[c] - allocated
  IN  [status |-> StatusFor(open, allocated), allocated |-> allocated, open |-> open]

NewBatch(s, lines) == [source |-> s, lines |-> lines, reversed |-> FALSE]
Live(b) == batch[b] # NoBatch /\ ~batch[b].reversed
LiveBatchesOf(s) == {b \in Batches : Live(b) /\ batch[b].source = s}

\* The dependency check of a payment reversal.
NothingAppliedByColumn(p) == pay[p].status # "COMPLETED"
NothingApplied(p) == LiveBatchesOf(p) = {}

-----------------------------------------------------------------------------
(* Payments.                                                               *)

\* update_draft_payment
UpdateDraftPayment(p, amount, fee) ==
  /\ pay[p].status = "UNPOSTED"
  /\ FeeAllowed(p, amount, fee)
  /\ pay' = [pay EXCEPT ![p] = Draft(amount, fee)]
  /\ UNCHANGED <<doc, credit, batch, journal, loaded>>

\* post_payment.  Posting a posted payment again returns it: no step.
PostPayment(p) ==
  LET amountBase == Base(p, pay[p].amount)
      feeBase == Base(p, pay[p].fee)
  IN  /\ pay[p].status = "UNPOSTED"
      /\ ~pay[p].reversed
      /\ pay[p].allocated = 0
      /\ pay[p].unallocated = pay[p].amount
      /\ amountBase > 0
      /\ Side[p] = "CUSTOMER" => amountBase > feeBase
      /\ Post(PostKey(p), PaymentEntry(Side[p], amountBase, feeBase))
      /\ pay' = [pay EXCEPT ![p].status = "POSTED"]
      /\ UNCHANGED <<doc, credit, batch, loaded>>

\* What an allocation may still take from a payment or from a credit.
SpendableGross(p) == pay[p].amount
Spendable(p) == pay[p].unallocated

\* _validate_target
ValidTargetIgnoringOpen(s, t, amount) ==
  /\ doc[t].status \in Allocatable
  /\ Recorded(PostKey(t))
  /\ Side[t] = Side[s]
  /\ Party[t] = Party[s]
ValidTarget(s, t, amount) ==
  /\ doc[t].status \in Allocatable
  /\ Recorded(PostKey(t))
  /\ Side[t] = Side[s]
  /\ Party[t] = Party[s]
  /\ amount <= doc[t].open

Touched(lines) == {t \in Targets : lines[t] > 0}

\* The documents once the lines of a batch were added to (sign 1) or taken
\* back from (sign -1) the column the kind of source moves.
SettledDocsOneColumn(s, lines, sign) ==
  [t \in Targets |->
     IF t \notin Touched(lines) THEN doc[t]
     ELSE DocWith(t, doc[t].allocated + sign * lines[t], doc[t].credited)]
SettledDocs(s, lines, sign) ==
  [t \in Targets |->
     IF t \notin Touched(lines) THEN doc[t]
     ELSE IF s \in Payments
     THEN DocWith(t, doc[t].allocated + sign * lines[t], doc[t].credited)
     ELSE DocWith(t, doc[t].allocated, doc[t].credited + sign * lines[t])]

\* allocate_payment.  A key that already has rows returns the earlier batch or
\* is refused: no step.
AllocatePayment(p, b, lines) ==
  LET sourceBase == Base(p, BatchTotal(lines))
      targetBase == TargetBase(lines)
  IN  /\ batch[b] = NoBatch
      /\ pay[p].status \in Allocatable
      /\ ~pay[p].reversed
      /\ Recorded(PostKey(p))
      /\ \A t \in Touched(lines) : ValidTarget(p, t, lines[t])
      /\ sourceBase > 0
      /\ targetBase > 0
      /\ \E total \in 1 .. Spendable(p) :
           /\ total = BatchTotal(lines)
           /\ pay' = [pay EXCEPT ![p] = PaymentWith(@, @.allocated + total)]
      /\ Post(AllocationKey(p, b), AllocationEntry(Side[p], sourceBase, targetBase))
      /\ batch' = [batch EXCEPT ![b] = NewBatch(p, lines)]
      /\ doc' = SettledDocs(p, lines, 1)
      /\ UNCHANGED <<credit, loaded>>

\* reverse_allocation_batch of a payment's batch.  What is given back lies
\* within what is allocated (CHECK payment_allocated_within_amount).
UnapplyPayment(b) ==
  LET p == batch[b].source
  IN  /\ Live(b)
      /\ p \in Payments
      /\ \E total \in 0 .. pay[p].allocated :
           /\ total = BatchTotal(batch[b].lines)
           /\ pay' = [pay EXCEPT ![p] = PaymentWith(@, @.allocated - total)]
      /\ PostMirror(BatchReversalKey(b), AllocationKey(p, b))
      /\ doc' = SettledDocs(p, batch[b].lines, -1)
      /\ batch' = [batch EXCEPT ![b].reversed = TRUE]
      /\ UNCHANGED <<credit, loaded>>

\* reverse_payment, refused while anything is still applied.  The amounts stay.
ReversePayment(p) ==
  /\ pay[p].status # "UNPOSTED"
  /\ ~pay[p].reversed
  /\ Recorded(PostKey(p))
  /\ NothingApplied(p)
  /\ PostMirror(ReversalKey(p), PostKey(p))
  /\ pay' = [pay EXCEPT ![p].reversed = TRUE, ![p].status = "REVERSED"]
  /\ UNCHANGED <<doc, credit, batch, loaded>>

-----------------------------------------------------------------------------
(* Credits: applied without cash and without a journal.                    *)

\* _allocate_credit
ApplyCredit(c, b, lines) ==
  /\ batch[b] = NoBatch
  /\ credit[c].status \in Allocatable
  /\ Recorded(PostKey(c))
  /\ \A t \in Touched(lines) : ValidTarget(c, t, lines[t])
  /\ \E total \in 1 .. credit[c].open :
       /\ total = BatchTotal(lines)
       /\ credit' = [credit EXCEPT ![c] = CreditWith(c, @.allocated + total)]
  /\ batch' = [batch EXCEPT ![b] = NewBatch(c, lines)]
  /\ doc' = SettledDocs(c, lines, 1)
  /\ UNCHANGED <<pay, journal, loaded>>

\* reverse_allocation_batch of a credit's batch: there is no journal to mirror.
UnapplyCredit(b) ==
  LET c == batch[b].source
  IN  /\ Live(b)
      /\ c \in Credits
      /\ \E total \in 0 .. credit[c].allocated :
           /\ total = BatchTotal(batch[b].lines)
           /\ credit' = [credit EXCEPT ![c] = CreditWith(c, @.allocated - total)]
      /\ doc' = SettledDocs(c, batch[b].lines, -1)
      /\ batch' = [batch EXCEPT ![b].reversed = TRUE]
      /\ UNCHANGED <<pay, journal, loaded>>

-----------------------------------------------------------------------------
(* Posting documents.  The status test and the transaction are two steps.  *)

Unposted(d) == IF d \in Targets THEN doc[d].status = "UNPOSTED" ELSE credit[d].status = "UNPOSTED"
Started == {d \in Documents : ~Unposted(d) \/ loaded[d] > 0}

\* The request reads the row and finds it not posted yet.
LoadDocument(d) ==
  /\ Unposted(d)
  /\ loaded[d] < Posters[d]
  /\ \E plan \in Plans : Started \cup {d} \subseteq plan
  /\ loaded' = [loaded EXCEPT ![d] = @ + 1]
  /\ UNCHANGED <<pay, doc, credit, batch, journal>>

Finish(d) ==
  /\ loaded[d] > 0
  /\ loaded' = [loaded EXCEPT ![d] = @ - 1]

\* post_invoice: the engine returns the journal of an earlier call, and the
\* status is written whatever it has become since.
PostInvoice(t) ==
  /\ Side[t] = "CUSTOMER"
  /\ Finish(t)
  /\ Post(PostKey(t), DocumentEntry("CUSTOMER", Base(t, Total[t])))
  /\ doc' = [doc EXCEPT ![t].status = "POSTED"]
  /\ UNCHANGED <<pay, credit, batch>>

\* post_purchase_bill writes its journal itself.  The unique key ends a second
\* call with an IntegrityError; the first one saves the whole row it had read.
PostBill(t) ==
  /\ Side[t] = "VENDOR"
  /\ Finish(t)
  /\ \/ /\ Recorded(PostKey(t))
        /\ UNCHANGED <<doc, journal>>
     \/ /\ ~Recorded(PostKey(t))
        /\ Post(PostKey(t), DocumentEntry("VENDOR", Base(t, Total[t])))
        /\ doc' = [doc EXCEPT ![t] = [status |-> "POSTED", allocated |-> 0,
                                      credited |-> 0, open |-> Total[t]]]
  /\ UNCHANGED <<pay, credit, batch>>

\* post_credit_note, in the manner of post_invoice.
PostCreditNote(c) ==
  /\ Side[c] = "CUSTOMER"
  /\ Finish(c)
  /\ Post(PostKey(c), DocumentEntry("CUSTOMER", -CreditEffect(c)))
  /\ credit' = [credit EXCEPT ![c].status = "POSTED"]
  /\ UNCHANGED <<pay, doc, batch>>

\* post_vendor_debit_note, in the manner of post_purchase_bill.
PostDebitNote(c) ==
  /\ Side[c] = "VENDOR"
  /\ Finish(c)
  /\ \/ /\ Recorded(PostKey(c))
        /\ UNCHANGED <<credit, journal>>
     \/ /\ ~Recorded(PostKey(c))
        /\ Post(PostKey(c), DocumentEntry("VENDOR", -CreditEffect(c)))
        /\ credit' = [credit EXCEPT ![c] = [status |-> "POSTED", allocated |-> 0,
                                            open |-> Total[c]]]
  /\ UNCHANGED <<pay, doc, batch>>

Next ==
  \/ \E p \in Payments :
       \/ \E amount \in PaymentAmounts, fee \in Fees : UpdateDraftPayment(p, amount, fee)
       \/ PostPayment(p)
       \/ ReversePayment(p)
       \/ \E b \in Batches, lines \in Lines : AllocatePayment(p, b, lines)
  \/ \E c \in Credits :
       \/ PostCreditNote(c)
       \/ PostDebitNote(c)
       \/ \E b \in Batches, lines \in Lines : ApplyCredit(c, b, lines)
  \/ \E b \in Batches : UnapplyPayment(b) \/ UnapplyCredit(b)
  \/ \E t \in Targets : PostInvoice(t) \/ PostBill(t)
  \/ \E d \in Documents : LoadDocument(d)

Spec == Init /\ [][Next]_vars

-----------------------------------------------------------------------------
(* Properties.                                                             *)

\* Rows keep the shape the tables give them; in particular no payment and no
\* credit is ever drawn below zero, and every journal fits the money columns.
TypeOK ==
  /\ pay \in [Payments -> PaymentRow]
  /\ doc \in [Targets -> DocRow]
  /\ credit \in [Credits -> CreditRow]
  /\ batch \in [Batches -> BatchRow \cup {NoBatch}]
  /\ journal \in [Keys -> Entry \cup {NoEntry}]
  /\ loaded \in [Documents -> Nat]

LiveBatches == {b \in Batches : Live(b)}
LiveBatchesBy(kind) == {b \in LiveBatches : batch[b].source \in kind}
AppliedTo(t, kind) == SumOver(LiveBatchesBy(kind), LAMBDA b : batch[b].lines[t])
AppliedFrom(s) == SumOver(LiveBatchesOf(s), LAMBDA b : BatchTotal(batch[b].lines))

\* BR-008: every cached settlement total is the sum of the live allocation
\* rows behind it, on both sides of every batch, whatever was applied,
\* un-applied and re-applied before (the services alone keep it so: the
\* triggers that would refuse the commit are not in the model).
BalancesMatchRows ==
  /\ \A p \in Payments : pay[p].allocated = AppliedFrom(p)
  /\ \A c \in Credits : credit[c].allocated = AppliedFrom(c)
  /\ \A t \in Targets : /\ doc[t].allocated = AppliedTo(t, Payments)
                        /\ doc[t].credited = AppliedTo(t, Credits)

\* BR-009: what is left of every payment, credit and document is exactly its
\* amount less what was consumed, through every order of applying, un-applying,
\* reversing and posting again.
RemaindersAreDerived ==
  /\ \A p \in Payments : pay[p].unallocated = pay[p].amount - pay[p].allocated
  /\ \A t \in Targets : doc[t].open = Total[t] - doc[t].allocated - doc[t].credited
  /\ \A c \in Credits : credit[c].open = Total[c] - credit[c].allocated

\* No document is settled beyond what it came to, and un-applying a batch never
\* gives back more than was settled: the columns stay within 0 .. total without
\* the CHECK constraints that would refuse the row.
NothingOverSettled ==
  \A t \in Targets :
    /\ doc[t].allocated \in 0 .. Total[t]
    /\ doc[t].credited \in 0 .. Total[t]
    /\ doc[t].open \in 0 .. Total[t]

\* No invoice is settled by money that no longer exists: a batch that is still
\* live has a source that is posted and not reversed, and settles posted
\* documents of its own party; a payment's batch has its journal.
LiveBatchesHaveLiveMoney ==
  \A b \in LiveBatches :
    LET s == batch[b].source
    IN  /\ Recorded(PostKey(s))
        /\ \A t \in Touched(batch[b].lines) : Recorded(PostKey(t)) /\ Party[t] = Party[s]
        /\ s \in Payments => /\ ~pay[s].reversed
                             /\ Recorded(AllocationKey(s, b))
                             /\ ~Recorded(BatchReversalKey(b))

\* Once a payment is reversed the ledger shows nothing of it: its own journal
\* and that of every batch it was ever applied in has a mirror beside it.
ReversedPaymentIsCancelled ==
  \A p \in Payments : pay[p].reversed =>
    /\ Recorded(ReversalKey(p))
    /\ journal[ReversalKey(p)] = Mirror(journal[PostKey(p)])
    /\ \A b \in Batches : Recorded(AllocationKey(p, b)) =>
         /\ Recorded(BatchReversalKey(b))
         /\ journal[BatchReversalKey(b)] = Mirror(journal[AllocationKey(p, b)])

Balance(a) == SumOver({k \in Keys : Recorded(k)}, LAMBDA k : journal[k][a])

PostedPayments(side) ==
  {p \in Payments : Side[p] = side /\ Recorded(PostKey(p)) /\ ~pay[p].reversed}

\* The advance account holds exactly the unapplied part of the money received
\* (or paid), at the rate it came in at.
AdvanceReconciles ==
  \A side \in Sides :
    -Sign(side) * Balance(Advance(side)) =
      SumOver(PostedPayments(side), LAMBDA p : Base(p, pay[p].unallocated))

PostedStates == {"POSTED", "PARTIAL", "COMPLETED", "REVERSED"}
OpenDocs(side) == {t \in Targets : Side[t] = side /\ doc[t].status \in PostedStates}

\* The subledger column of v_subledger_reconciliation.
OpenBase(side) == SumOver(OpenDocs(side), LAMBDA t : Base(t, doc[t].open))

\* What credits have taken off the control account at posting and what live
\* credit lines have taken off the open documents since.
CreditsPosted(side) ==
  SumOver({c \in Credits : Side[c] = side /\ Recorded(PostKey(c))}, CreditEffect)
CreditsApplied(side) ==
  SumOver({b \in LiveBatchesBy(Credits) : Side[batch[b].source] = side},
          LAMBDA b : TargetBase(batch[b].lines))

\* The control account differs from the open documents by the credits that are
\* posted and not applied yet, and by nothing else, when rates are whole.
ControlReconciles ==
  \A side \in Sides :
    Sign(side) * Balance(Control(side)) =
      OpenBase(side) - CreditsPosted(side) + CreditsApplied(side)

\* The realised gain an allocation row stores (a loss is negative).
RowFx(b, t) ==
  LET p == batch[b].source
      amount == batch[b].lines[t]
  IN  Sign(Side[p]) * (Base(p, amount) - Base(t, amount))
BatchFx(b) == SumOver(Targets, LAMBDA t : RowFx(b, t))

\* The exchange result in the ledger is the one the live rows store, also
\* after batches were reversed and applied again; whole rates again.
FxReconciles == -Balance("fx") = SumOver(LiveBatchesBy(Payments), BatchFx)

\* The status of a payment tells how much of it is left, and a document said
\* to be settled, or partly settled, is exactly that.
StatusTellsRemainder ==
  /\ \A p \in Payments :
       pay[p].status \in {"POSTED", "PARTIAL", "COMPLETED"} =>
         pay[p].status = StatusFor(pay[p].unallocated, pay[p].allocated)
  /\ \A t \in Targets :
       /\ doc[t].status = "COMPLETED" => doc[t].open = 0
       /\ doc[t].status = "PARTIAL" => doc[t].open \in 1 .. Total[t] - 1

\* The columns of payments, invoices, bills and notes follow the allocation
\* rows: sums, bounds and statuses (BR-008, allocate_payment and its inverse).
ColumnsFollowRows ==
  TypeOK /\ BalancesMatchRows /\ NothingOverSettled /\ StatusTellsRemainder

\* The ledger tells the same story as the rows: advances, control accounts and
\* exchange differences (make_allocation_journal_builder).
LedgerReconciles == AdvanceReconciles /\ ControlReconciles /\ FxReconciles

\* A settlement implements the promise of OpenItems: what it calls funds, void,
\* owed and applied are these columns, rows and journals.
Posted(s) == Recorded(PostKey(s))
Funds ==
  [s \in Sources |-> IF ~Posted(s) THEN 0
                     ELSE IF s \in Credits THEN Total[s]
                     ELSE IF pay[s].reversed THEN 0 ELSE pay[s].amount]
Withdrawn == {p \in Payments : pay[p].reversed}
Owed == [t \in Targets |-> IF Posted(t) THEN Total[t] ELSE 0]
Applied == [s \in Sources |-> [t \in Targets |-> AppliedTo(t, {s})]]

Promise == INSTANCE OpenItems WITH
  Debts <- Targets,
  Amounts <- PaymentAmounts \cup {Total[d] : d \in Documents},
  funds <- Funds, void <- Withdrawn, owed <- Owed, applied <- Applied
ImplementsOpenItems == Promise!Spec
=============================================================================
