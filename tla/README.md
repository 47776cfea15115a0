# Verification of the wholesale accounting system

TLA+ models of the parts of this Django application on which its books depend,
the TLC runs that check them, and proofs for every value of the constants.
Paths are relative to the repository; `PROJECT.json` maps every definition to
the lines of `src/` it stands for, and lists components, hazards, mutants and
theorems.

## The system

One PostgreSQL database at READ COMMITTED; two Django worker processes of four
threads; no background jobs. A request loads rows, tests them, and calls a
service that runs in one transaction, some with row locks (`select_for_update`),
some without. So what can go wrong comes from four sources: what is read before
it is locked; the order of whole calls; rows that are cached sums of other rows;
and programs written apart that must agree (a form and its table, a document and
its journal, a report and the ledger).

| Component | State it keeps | Operations | What must hold |
|---|---|---|---|
| Settlement (`apps/payments/allocation.py`, `reversal.py`, `posting.py`) | allocation rows; the allocated, credited and open columns of payments, invoices, bills, notes | allocate, apply a credit, un-apply, reverse | cached totals equal the live rows; nothing is settled twice or by money that is gone; the ledger tells the same story |
| Posting engine (`apps/ledger/services/posting.py`) and direct posters (`apps/purchases/services.py`, `apps/inventory/services.py`) | journal entries | post | one entry per key, in an open period, numbered without gap; every call ends |
| Fiscal calendar (`apps/core/period_close.py`, its page and form) | period status, audit events | close, reopen | no closed period behind an open one; a close is informed and on record |
| Stripe checkout (`apps/payments/stripe_service.py`) | checkout rows | start, settle, expire, retry | one receipt per paid session, for its money but for rounding, none forgotten |
| Sales, purchasing, inventory (`services.py` of each) | documents, quantity counters, stock balances and movements | draft, submit, approve, post | nothing beyond its source line; stock and ledger explained |
| Document arithmetic (`apps/sales/services.py`, `apps/purchases/services.py`) | amounts of lines and headers | recalculate, reverse | amounts foot and post balanced |
| Document views (`views.py` of sales, purchases, payments, inventory; `apps/core/audit.py`) | headers, lines, audit trail | create, edit, submit, approve, reject, post | what is posted is what was shown and signed |
| Forms and tables (`forms.py`, `models.py`) | what was typed | validate, save, post | no form accepts what a later program crashes on |
| Database guards (`apps/ledger/migrations/0003_posting_guards.py`, `apps/payments/migrations/0004_allocation_consistency_guards.py`) | none | checks per row, per statement, at commit | the ledger balances against any writer |
| Reports (`apps/reports`) | none | statements, ageing, registers, tax, reconciliation | they agree with the books, with each other and with what they said yesterday |
| AI summary (`apps/ai_summary`) | answers, counters per process | page, download, post | an answer stands beside the figures it was made from |
| Settings and masters (`apps/core`, `apps/catalog`, `apps/parties`) | trees, prices, codes, series, audit trail | edit, delete, activate | what documents rely on stays unambiguous |
| Accounts and permissions, navigation, UI | logins, roles | | only refuse, or only show |

They meet in the ledger. Settlement and sales call `PostingEngine.post` inside
their own transaction; purchasing and inventory write `JournalEntry` themselves
and share the number sequence and the triggers. Reports and the checklist of a
period read what all of them wrote. Stripe settles by calling payments and
settlement. The hard behaviour, each at its line, is the list `hazards`.

## Modules

One action is one thing that happens at once: a transaction whose rows are
locked before they are read is one action; what is read before a transaction is
a step of its own. A call that raises rolls back and is no transition, unless it
leaves something behind. An operator named like another with a suffix
(`LockPeriodUnlocked`, `CachedOpen`) and used by nothing is a mutant.

**Settlement, OpenItems.** The rows: `pay`, `doc` (invoices and bills), `credit`
(notes), `batch` (allocation rows by `batch_key`), `journal` (entries by what
their idempotency key names), `loaded` (posting calls past their status test).
`AllocatePayment`, `ApplyCredit`, `UnapplyPayment`, `UnapplyCredit`,
`ReversePayment`, `PostPayment`, `UpdateDraftPayment` are functions of the same
names. Posting an invoice, bill or note is two steps: `LoadDocument`, then
`PostInvoice` and its kin. Amounts are whole numbers of the 0.0001 quantum, an
entry is its net effect on eight accounts. The triggers and CHECKs are left out,
so that the services are shown right without them. `OpenItems` is the promise
without rows or journals; `ImplementsOpenItems` is the refinement. Assumed: a
batch key is minted for one form of one source; side, party, total and rate do
not change after drafting; credit notes carry no line discounts.

**PeriodClose, PeriodSigning.** `PeriodClose` splits a change of the calendar
into lock, check and commit; neighbours are read without a lock.
`PeriodSigning` puts the page, the form, the button and the audit event around
it: the checklist is made for each of them anew while documents and balances
move, and a worker may end between service and event.

**PostingEngine** extends `PeriodClose` with the writers of the ledger,
statement by statement: `LockSource`, `Lookup`, `LockPeriod`, `TakeNumber`,
`Insert`, `LookupAgain`, `Commit`, and for direct posters `ReadDraft` and
`ReadPeriod` without locks. What the database does by itself is external: a
commit waits for the period's row (`PeriodRowReadable`), which closes a circle
with the engine's lock order, and `BreakDeadlock` is its detector.

**StripeCheckout, CardReceipts.** A worker is one request: a clerk's button, a
delivery of an event, the retry button. What it reads unlocked and each of its
transactions are steps, and it may die between any two. Stripe's sessions,
events and idempotency keys are external. What Stripe is asked for is rounded
half up to the minor unit of the currency (`to_minor`, `Minor`), the row and the
receipt are not, so `CardReceipts`, the promise, is kept to within half a minor
unit (`Near`).

**Documents, Stock, Sales, Purchasing, Trade.** `Documents` has the rows and
requests (load and test, then the transaction); `Stock` one product in several
warehouses at weighted average cost, movements added up, and the accounts;
`Sales` and `Purchasing` the counters and postings of each kind of document;
`Trade` composes them over one stock, two requests at a time.

**Pricing, Billing.** `Pricing` is the arithmetic as operators: lines, the
header discount spread with the last line bearing the rest (`Allocate`; a sales
discount of nothing or less is none, `SalesDiscount`), totals, base amounts.
`Billing` runs it from order to invoice to credit notes and returns,
and through bills and debit notes, with the journals each builds.

**Drafting.** One document of any of thirteen kinds between its forms and its
posting: which view loads what, which writes the whole row it loaded, which
locks, and what each records in the audit trail.

**Reports.** The state is what the reports read; the actions are postings with
their journal lines, on any date: invoices with their cost lines, bills of no
stock, of stock, and of what a receipt brought in, notes and returns of both
sides, payments, allocations, goods. A sales return writes a journal and moves no
stock, a purchase return moves stock and writes no journal. Every report is an
operator of the state and of the dates asked for, so that a property speaks of all
windows at once.

**Guards.** CHECK constraints, row triggers and deferred triggers against
writers that send any SQL, two transactions at a time. A deferred check reads in
two queries with two snapshots, which are two steps.

**Entry.** Fourteen forms with the constraints of their tables and the checks of
their posters, in hundredths where products matter; checking and saving are two
steps. What is typed fits its column, what is made of it may not: the amounts
derived at saving (`Derived`) and those carried forward at posting (`Carried`)
are compared with the largest number a column holds (`Largest`). The lines of a
document keep the places they were typed in, so that what is stored can be
compared with what was typed.

**AiSummary.** Pages, downloads and posts, query by query, the counter in each
process' memory, the reuse of answers, restarts. Figures are abstracted to the
state of the ledger they were read from.

**Masters.** Every settings and master-data screen: load, form, re-read for the
trail, save of the whole row, nothing locked between. A behaviour is about one
kind of table.

`MC...` modules hold the instances. The proofs, over the lemmas on sums in
`Sums`:

| Module | proves about |
|---|---|
| `SettlementProofs` | Settlement, OpenItems |
| `PostingProofs` | PostingEngine, PeriodSigning, Masters, Reports |
| `StripeProofs` | StripeCheckout, CardReceipts |
| `DraftingProofs` | Drafting, Entry |
| `GuardsProofs` | Guards |
| `TradeProofs` | Documents, Stock, Sales, Purchasing, Trade |
| `SummaryProofs` | AiSummary, Pricing, Billing |

A module whose proofs share a file with another's has names of its own for
what every specification has (`BillingSpec`, `EntryInit`, `mastersVars`).

## Runs

| Run | What is checked | Distinct states |
|---|---|---|
| `Settlement` | `ColumnsFollowRows`: cached columns are sums of live rows, within bounds, status tells remainder (BR-008). `RemaindersAreDerived` (BR-009). `LiveBatchesHaveLiveMoney`, `ReversedPaymentIsCancelled`: rows and reversals. `LedgerReconciles`: advances, controls and exchange differences against the rows. `ImplementsOpenItems` | 37,188 |
| `PostingEngine` | `OnceOnly`, `NumbersHandedOutOnce`, `LedgerIsGapFree`, `EngineRespectsClose`; under fairness `EveryCallEnds`, `RepeatIsAnswered` | 73,480 |
| `PeriodSigning` | `HoleTakesTwo`: no hole without two calls at once. `ClosesAreAccountedFor`: where nothing moved, a close is over what was shown and acknowledged, and the trail ends with the status | 394,864 |
| `StripeCheckout` | `OneLinkPerAmount`, `ReceiptsAreSound`, `NoPaymentForgotten`, `SettledForGood`, `ImplementsCardReceipts` | 322,774 |
| `Trade` | `StockIsExplained` by movements and they by documents; `QuantitiesStayWithinSource`; `LedgerExplainsStock`: what separates accounts and stock, exactly; `PostedValuesStand` | 165,589 |
| `Billing` | `AmountsAgree`: discounts foot, what posts is balanced and shows its total, imbalance is rounding alone; `ReversalsStayWithinInvoice` | 728,775 |
| `Drafting` | `PostedStaysPosted`; `BookedIsSigned`; `TrailTellsTheDocument` | 2,657 |
| `Reports` | `StatementsAgree` over every window; `ReportsAgreeWithBooks`, with every difference named; `PastStands` | 7,296 |
| `Guards` | `CommittedRowsAgree`: entries balance, totals agree with rows; `PostedRowsStand` | 751,084 |
| `Entry` | `ErrorsAreTold`: what a form accepts crashes later only where an amount made of it outgrows its column, and a bill for two reasons more; `TypedIsKept` | 5,868 |
| `AiSummary` | `AnswersDescribeFigures`, `ShownOnceShownAgain`, `OverrunIsBounded` | 1,746,933 |
| `Masters` | `MastersAreSound`: trees, prices, codes, trail; of edits that are not overtaken, and what holds of the others; `OnlyStaleEditsLowerCounter` | 946,962 |

Properties with several parts are conjunctions of named invariants, each
commented where it is defined. Every part has a mutant in `PROJECT.json`: a
plausible bug (a dropped guard, a key that names too little, a lock not taken)
under which TLC finds it violated.

### Bounds

*Settlement.* A customer with a receipt, two invoices and a credit note, a
vendor with a voucher, a bill and a debit note; three plans of documents
(`Plans`); two batch keys allow apply, take back, apply again; lines of 1 or 2
against totals of 2 and 3 give partial, full and excessive settlement; rates 3,
2 and 1 make every pair differ (`LedgerReconciles` is claimed of whole rates:
rounding breaks it by fractions of the quantum); two posting calls on the bill
(`Posters`). `MaxMoney` bounds the money columns and is never reached.
*PostingEngine.* Two calls of one key and source, one of the same key and
another source, one document posted twice directly: each kind of collision has
its pair. Two periods of one year are the least for an order in the calendar.
Nobody calls twice: a second call is another request.
*PeriodSigning.* Two users, two periods, one document, two changes, three pages,
one death: enough for a hole, for a warning that comes between page and service,
and for two events in the wrong order.
*StripeCheckout.* Two links over one invoice of two, so links over one and over
two can exist together; two of the units are one that Stripe charges in (`Minor`), so
the link over one is rounded and the other is not; two workers, each of any role;
one link is paid by a method that completes later (`Delayed`). `OneLinkAtATime` bounds the state space:
a payment takes its time only while there is one link, has one request settling
it then, and over two links two requests are at work at once only where both post
a receipt. The theorems need none of these bounds.
*Trade.* Ten plans of three to five documents, quantities 1 and 2, costs of 2 on
an opening stock of 3 worth 6, unit costs in quarters, no warehouse that allows
negative stock, two symmetric callers.
*Billing.* Lines of the four kinds that divide badly and one with a discount
below zero, up to four a document, 0 to 2 taken of each (`Quantities`), discounts by amount and per cent, rates 1.00 and 1.37, tolerance 0.05, two
reversals; one chain a behaviour.
*Drafting.* Two users, one document of each kind, two headers, two contents; two
requests overlap for payments and deliveries (`Together`), whose code locks or
does not edit; for the others one at a time, since an overlap loses updates (see
below).
*Reports.* Two days, every window over them and the days after all, nine plans
of two to four things, among them a return of each side and bills of each kind of
goods, two currencies whose rate is one, horizon 7, buckets a day wide.
*Guards.* Two transactions of three and two statements; a world for the journal
with an entry already posted and one for settlement with a live allocation
(`Worlds`).
*Entry.* Two clerks with one request each, around every bound of every form, with
a largest number that one product of two accepted numbers passes and another does
not; two at once only for bills of one vendor, where their forms meet.
*AiSummary.* Two threads of one process; one use holds three requests of every
kind with two postings and a midnight, the other five posts with a restart.
*Masters.* Two administrators and three rows, symmetric; three requests, two
days of prices, numbers up to 3.

`CHECK_DEADLOCK FALSE` everywhere: requests and documents are bounded, so every
one of these systems may come to rest. Symmetry is used only where no liveness
is checked.

### Fairness

Only `PostingEngine` makes liveness claims. `SF_vars(Step(r))`: a statement that
can run runs, and a row lock that keeps coming free is granted in the end,
PostgreSQL queueing its waiters; weak fairness would let calendar users starve a
post. `WF` of a calendar user's steps after the lock: a transaction that started
ends. `WF(BreakDeadlock)`: PostgreSQL looks for deadlocks after
`deadlock_timeout`. No fairness for starting a calendar change, refusing a draft
or aborting: the claims hold whether or not these happen.

## Proofs

For every number of rows, requests, users, periods and transactions that
satisfies the named ASSUMEs of the modules: identities differ, amounts and rates
are positive, constant functions have the domains they are used with, what is typed
is what a field can parse to (`TypeableAssumption`, `BillingAssumption`), and
the rows, requests, links and threads are finitely many (`FiniteAssumption`,
`ThreadsAssumption`), since what is summed or counted must be. Every invariant below was first checked by TLC on
the run of its module.

*Sums.* What a column adds up to is `SumFunctionOnSet`. The library's induction
over finite sets takes an operator, which the provers here cannot instantiate;
`AllSubsets` takes a set of subsets in its place, from the well-foundedness of
strict inclusion, and the lemmas follow: a sum changes by what one member
changes, splits, is bounded by its members, is the same over the members that
are not zero, and grows with its set.

*SettlementProofs.* `TypeCorrect`: the row types are inductive by themselves,
because the actions bound a batch's total by what is left of the source.
`RemaindersAlwaysDerived`: every writer recomputes the remainder; beside it, an
unposted row carries its full amount. `LiveMoneyAlways` and
`ReversalsAlwaysCancel` rest on `RowsInv` and `JournalsInv`: a batch that exists
has a posted source and its journal; a live one has no mirror and a source that
is not reversed; a reversed one has the exact mirror. The ledger only grows
(`PostGrows`), so what an entry is evidence for stays true.
`ColumnsAlwaysFollowRows` from `TotalsInv`: each column is the sum over the live
batches, none exceeds its total, and an invoice's PARTIAL or COMPLETED tells what
is left of it (POSTED may not: a posting loaded before can set it back). `SettlementImplementsOpenItems` adds `ItemsInv` (a draft has no journal, no
batch is empty) and maps action by action: a posting, an application, a
cancellation and a reversal to their kin in `OpenItems`, everything else to a
stutter.

`LedgerAlwaysReconciles` from `EntriesInv`: the journal under
each key is the one its row describes. Every account is then a sum over rows,
and each action moves both sides alike. The hypothesis is `WholeRates`: with
other rates each conversion is rounded by itself, and the difference is a
fraction of the quantum per batch, which no equation over the rows describes.

*PostingProofs.* `EngineAlwaysRespectsClose` from `EnginesHold` (from finding its
period open an engine request has the row lock) and `ClosersHold` (whoever
changes a period has its lock): two holders of one lock are the contradiction in
every case. `AlwaysOnceOnly` from `DrawersHold`: whoever has drawn a number holds
the sequence, so at most one request stands between insert and commit.
`NumbersAlwaysHandedOutOnce` and `LedgerAlwaysGapFree` for a sequence that never
restarts (`OneNumbering`; a yearly restart does repeat numbers, see below): by
`LedgerInv` the committed numbers are 1 up to how many entries there are, and the
sequence stands one above them.

*StripeProofs.* `StripeTypes`, `OneReceipt`, `BackedByMoney` (together
`ReceiptsAlwaysSound`) and `NothingUnsettled`. The inductive invariant
`StripeInv` says what a request carries is still true of its row: whoever is
posting has the row lock, a row with a receipt is PAID and its session paid, and
no two requests post over one row. `OneLinkAtMost` from `KeysHeld`: a session is
made under the idempotency key of its invoice and amount, so that a second
charge of the same amount is given the first session; rounding half up is off by
half a minor unit at most, and equal amounts are rounded alike. `NothingForgotten` from
`MemoryInv`: a request that records or posts is about a payment on record, or
explained by what replaced it. `CheckoutImplementsCardReceipts` from `BooksInv`:
what a request takes is at most what its row and its invoice have left.

*PostingProofs*, on PeriodSigning. `HolesTakeTwo`, from `SignedCalendarInv`:
whoever has checked a period and is alone in the service finds its neighbours as
they were. `ClosesAlwaysAccountedFor` from `AccountsInv`, which follows what each
desk carries from page to form to event; what was shown is still so as long as
nothing stirred, and the trail of a period is up to date or an event for it is
due.

*PostingProofs*, on Masters. `CounterFallsOnlyByStaleEdits`: no draw and no other
form lowers a counter, and an edit writes what its page was loaded with or more.
`MastersAlwaysSound` from `MastersInvariant`, in two layers. However
edits overtake each other, the constraints hold (`TableHolds`: one base, one
default, codes that differ and are stored in capitals, which is why two codes
that differ in case alone cannot meet). As long as nobody was overtaken
(`InTurn`), trees, prices and trail hold too: a request whose row nobody raced
has loaded the row there is, and what its form found is still so at the save
(`Working`). That a form's walk to the root finds every row above is
`ClosedUpwards`: the rows it passed are a set closed under parents; a set may be
defined as the least such without recursion.

*PostingProofs*, on Reports. `StatementsAlwaysAgree`,
`ReportsAlwaysAgreeWithBooks` and `PastAlwaysStands`, for any things, amounts,
dates and plans. None of the three is inductive: they compare what different
reports make of one state. `ReportsInvariant` says what that state is.
`TypesHold`: among others, every entry balances. `EntriesHold`: a mirror is of
something cancelled, and the lines of what is not a mirror are those of the
document, note or payment that was posted, or of the row that applied it; journals
made outside the program need no such sentence, they only have to leave alone the
accounts a control or the tax report asks for.
`RowsHold`: a row joins two booked things of one side. `DocsHold`: a document's
columns are the sums of its live rows, its remainder what they leave of it.
`BooksHold`: the control accounts, and the two tax accounts together, are the
sums of what is booked and of what live rows apply, which each posting moves by
one member; the inventory account is the stock, with what documents book on it
beside the movements (`PaperPosted`) and what purchase returns shipped
(`ShippedWorth`). The rest is arithmetic of sums. A trial balance sums over accounts what
is summed over entries, and the two orders give the same; the entries up to a day
are those before a window and those in it; the buckets of an ageing divide the
open documents, so that the sum over them is the sum over the documents. For the
past, the entries only grow, and what a posting adds lies on its own date.

*DraftingProofs.* `BookedAlwaysSigned`, `TrailAlwaysTells` and
`PostedAlwaysStays` from `DraftInv`, which says how far the copy a request
carries is still the row it will write. The hypothesis `OthersOneAtATime` lets
two requests overlap over payments, which are read again under their lock, and
deliveries, whose rows no form rewrites; for the other kinds two at once lose
updates, so the theorems are claimed of one request at a time there, in any order
and with any number of users.

*DraftingProofs*, on Entry. `TypedIsAlwaysKept` and `ErrorsAreAlwaysTold` from
`EntryInvariant`: a request is what was typed, as far as its form has looked at
it (`RequestHolds`), a document holds of the typed lines those that its form keeps
(`DocHolds`), and a vendor's number is stored once. Then form by form: what it
lets through its table takes (`FormCovers`), and what is posted of it is worth
something (`PostingIsValued`), which for bills is the arithmetic of their total.
Two clerks may type anything at once; what a bill's form found free may be taken
at its save, which is one of the three reasons. An amount that outgrows its column
(`Outgrown`) is another, and the only one of the seven forms of
`FormsCoverTheTables`.

*GuardsProofs.* `CommittedRowsAlwaysAgree` and `PostedRowsAlwaysStand`. A
deferred check asks twice and others commit between, so the invariant says what
the first answer is still worth at the second. `RowLocks`: nobody writes what
another has written, so an answer about a row of one's own stands. `HeaderSeen`:
of an entry that is not one's own the header seen is at most what the lines of
others add up to now, because lines are added and never changed; a line of one's
own is then too much and the check fails. `TotalsSeen`: who adds a row to a
source whose total another has locked cannot write the total, and so leaves the
source among those the claim excepts (`bare`, `loose`, `moved`).

*TradeProofs.* `StockAlwaysExplained`, `QuantitiesAlwaysWithin`,
`LedgerAlwaysExplained` and `PostedValuesAlwaysStand`, for any documents of the
twelve kinds, warehouses, users, quantities and costs, from `TradeInv`, in four
parts. `RowsInv`: what a document refers to is there, and was posted where its
kind asks for that; what has its keys in the database is costed as it was posted.
`BooksInv`: shipments, receipts, accounts and accrual are sums over posted
documents, so a posting moves both sides by one document (`Tells`).
`CountersFit` and `SalesInv`: a counter covers what the documents behind it took,
and only the writes that the code guards raise it. The value of a balance is the
hard part: each shipment is costed at a rounded average, and the drift adds up
until the last unit leaves and takes the rest of the value with it. `Costed`
bounds the drift and, with it, the distance between value and quantity times
average in both directions; the bound on the drift alone is not inductive.
Assumed: documents and warehouses are finitely many, and no inventory account is
also one of the accounts on the other side (`AccountAssumption`): with one
account mapped to two purposes an entry cancels itself and the sentence about
accounts is false.

*SummaryProofs*, on AiSummary. `AnswersAlwaysDescribeFigures` and
`ShownIsAlwaysShownAgain` from `AnswersAreKept` (a record is of one call, and who
holds an answer is about to record it) and `WindowsAreAsked` (what is asked for at
each stage of a request is what its query or the default window says, on the day
it asks). `OverrunAlwaysBounded` counts. A thread that
found no counter sets it back to one, once. `CallsAreCounted` says calls made and
about to be made stay within what the counter knows, what earlier lives of the
process let through, and `Room(a)`: what setting the counter back can have hidden
while `a` threads are not about to set it back. The proof found an earlier
bound, linear in the threads, false for three threads: those that go on while a
second one sets the counter back can each slip past the limit, so the bound is
quadratic (`CallsAtMost`).

*SummaryProofs*, on Billing. `AmountsAlwaysAgree` and
`ReversalsAlwaysWithinInvoice`, for any lines, header discounts, tax and exchange
rates. Rounding half up is off by at most a half (`NearestBounds`); everything is
that, summed. `SharesFoot`: the shares of a discount add up to it whatever the
weights are, because the last line bears the rest; how far that line of a bill
can fall below zero is half a quantum for each line before it
(`LastLineBounded`), and the others have kept what it gives back
(`PurchaseTotalIsNat`). `InvoiceGap` and `BillGap` bound how far a journal can
be out. The inductive invariant (`BillingInvariant`) says that documents are what
their forms make them, that a journal is its document's and balances, and that
notes of one kind take no more of a line than the invoice has. Reversals are
weighed against the invoice in 200ths (`Worth`), where a tax rounded to the
quantum is off by at most a half per note and per line: `Halves`, which counts
both. An earlier bound that counted only the notes is false for an invoice of
many lines.

Left to TLC. Liveness and ENABLED (`EveryCallEnds`, `RepeatIsAnswered`): outside
this prover. Every other property of the runs is stated by a theorem. The rates
of Settlement that are not whole (`LedgerReconciles`), the overlaps Drafting
leaves out and a sequence that restarts (`LedgerIsGapFree`) are outside the
hypotheses of their theorems.

## Where the code and what is said of it differ

The properties above are stated as they hold; the conditions in them come from
counterexamples TLC gave to the stronger sentence found in a comment, a test or
a document. The behaviour behind each is in the models.

Documents and posting:

* Form views write back the whole row they loaded without a lock: a bill posted
  meanwhile is a draft again (`apps/purchases/views.py:450`; against
  `apps/sales/views.py:322`, "Posted ... documents are immutable").
* `post_invoice` tests a status read before its transaction: a settled invoice
  is set back to POSTED (`apps/sales/services.py:1006`; `docs/sales-invoices.md:55`).
* Direct posters read the open period unlocked, so an entry can be committed into
  a closed period (`apps/purchases/services.py:365`; `apps/core/period_close.py:3`).
* A yearly restart with a prefix that does not name the year draws used numbers
  (`apps/ledger/services/posting.py:540`; `apps/core/numbering.py:4`).
* Counters of order and bill lines are written as read plus own quantity; two
  postings together lose one (`apps/inventory/services.py:876`,
  `apps/purchases/services.py:486`, `:629`).
* Goods sold leave the inventory account at delivery and again at invoicing
  (`apps/sales/services.py:941`; `apps/reports/reconciliation.py:16`). A sales return
  books goods back that no movement brings back (`:1296`); a purchase return moves
  goods that leave the account with its debit note, or never
  (`apps/purchases/services.py:563`). A credit note debits sales revenue, for which
  the chart has an account of returns (`apps/sales/services.py:1642`).
* An invoice's rounding line is on the side that doubles the difference
  (`apps/sales/services.py:917-929`); foreign bills are rounded per line against
  the header (`apps/purchases/services.py:447-510`).
* Reversals are built at list price without rate, and read an inclusive price as
  exclusive (`apps/sales/services.py:1604`); order discounts are not carried to
  the invoice (`:800-846`).
* Credit notes and returns post from SUBMITTED only, so approving one makes it
  unpostable (`apps/sales/services.py:1687`; `docs/credit-notes.md:59`).
* Decisions of the sales services and their events are two transactions, and name
  no user (`apps/sales/services.py:380`, `:389`; `apps/core/audit.py:187`); two
  views take the audit snapshot after the form wrote the instance
  (`apps/sales/views.py:363`, `apps/payments/views.py:148`).
* Stripe is asked for the open amount rounded to its minor unit, and what it took is
  compared with nothing: the receipt has the unrounded amount
  (`apps/payments/stripe_gateway.py:69`, `:144`). The books and the money differ by
  up to half a unit a payment, the reconciliation difference `:66` warns of.
* A link replaced by primary key overwrites a payment recorded since it was read
  (`apps/payments/stripe_service.py:121`; `:15-18`). The event a delayed payment
  ends with is not among those that are acted on (`:403-428`): such a payment is
  recorded only if its completion event is delivered again afterwards.

Calendar, guards, reports:

* Two users can leave a closed period behind an open one
  (`apps/core/period_close.py:362`; `:19-21`); a warning that came up after the
  form is closed over (`:348`; `:197`), and a box ticked for one warning is taken
  for another (`apps/core/views.py:688`; `apps/core/forms.py:437`).
* The settlement trigger watches rows, not totals
  (`apps/ledger/migrations/0003_posting_guards.py:340`), checks a moved row's new
  owner only, and reads total and rows in two snapshots
  (`apps/payments/migrations/0004_allocation_consistency_guards.py:14`, `:17`);
  the side a row names is not compared with the payment's direction
  (`apps/payments/models.py:533`); lines can be added to a posted entry
  (`0003_posting_guards.py:204`).
* Un-applying rewrites the ageing of earlier days
  (`apps/reports/migrations/0001_reporting_layer.py:349`; `apps/reports/ageing.py:4`);
  unapplied notes separate control accounts and documents (`:255`); notes' tax is
  not listed (`:211`); a closing entry empties the profit of its window
  (`apps/reports/services.py:276`).

Forms, masters, AI summary:

* A rejected quantity that is blank or negative (`apps/inventory/forms.py:107`), a
  debit note line below zero or beyond its bill (`apps/purchases/forms.py:577`), a
  bill line discount above 100 per cent, a vendor's number entered twice at once
  (`apps/purchases/forms.py:244`), a quantity typed as NaN
  (`apps/sales/views.py:909`), and a quantity and a price, each accepted, whose
  product no `numeric(18,4)` holds (`apps/core/models.py:247`), end in a server error; an adjustment can be saved
  without lines (`apps/inventory/forms.py:283`), an emptied stored row is not
  deleted (`:286`), and its direction is read from the reason again at posting
  (`apps/inventory/services.py:735`).
* Two edits at once close a cycle (`apps/catalog/forms.py:127`) or overlap two
  prices (`:325`); a series' counter is saved as loaded (`apps/core/forms.py:233`);
  the base currency can be unticked or changed after postings (`:60`, `:202`); a
  postable account can get children (`:384`); flags taken from a sibling are not
  audited (`apps/parties/views.py:339`); the button toggles whatever it says
  (`:157`).
* The AI limit is per process and checked before it is counted
  (`apps/ai_summary/views.py:180`); a double click calls twice (`:443`); a call
  whose worker ends is on no record (`:463`); the page after a post shows no
  answer when the figures moved (`:491`).

## Not modelled

* Accounts, permissions, separation of duties, navigation, lists, printing, CSV
  and the interface: they only refuse or only show.
* The Django admin (`config/urls.py:83`), where staff write tax codes, categories,
  prices, series, drafts and more with neither the forms, the services nor the
  audit trail described here. What is claimed of forms and of the trail is claimed
  of the application's own screens.
* *Settlement, PostingEngine:* dates, mappings and `preview`; what an entry
  contains is in Settlement, Trade and Billing, not in PostingEngine.
* *PeriodSigning:* the LOCKED status, which no service sets; the trial balance of
  the checklist is a refusal that may always come.
* *StripeCheckout:* the fee, the signature, liveness of settling, more than one
  currency.
* *Trade:* the revenue side (Billing), `quantity_billed` of an order, rejected
  quantities, the warehouse a document names. *Billing:* cost lines, approvals,
  fractional quantities. The two are not composed.
* *Drafting:* header and lines are loaded at one moment; recosting at posting.
* *Reports:* currency rates, the stock card; the rounding line of an invoice (one
  that has it cannot be posted, which is shown in Billing), the account a line
  names for itself (`expense_account`), adjustments that book a loss. *Guards:* the
  account, party and stock triggers, TRUNCATE.
* *Entry:* inclusive tax, rounding of shares and to the cent, the finer columns of
  unit costs, the order in which an adjustment's lines are refused or fail, bills of
  several lines, the disposition of a return, what posting a sales document costs.
* *AiSummary:* wording, the schema of an answer, permissions; two reads stand for
  about ten queries; a process' cache evicts nothing, and no counter of its run is
  old enough to expire. *Masters:* subtype and tax-rate checks, account mappings,
  restarting sequences.
* Lock order across services: allocation, Stripe settling, returns and transfers
  may deadlock with each other; PostgreSQL aborts one and the user repeats.

## Plan

Next: the monthly restart in which two formats of
the period key meet on one sequence; lock order across services; Trade with the
revenue side of Billing.
