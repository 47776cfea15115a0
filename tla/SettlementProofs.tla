-------------------------- MODULE SettlementProofs ---------------------------
(***************************************************************************)
(* Proofs about Settlement, for any payments, documents, batches, rates    *)
(* and bounds: the rows and their journals first, then the totals, which   *)
(* are the sums of the live allocation rows, and the refinement of         *)
(* OpenItems that rests on them.                                           *)
(***************************************************************************)
EXTENDS Settlement, Sums, TLAPS

\* The idempotency keys are all different: one key names one event.
LEMMA KeysAreDistinct ==
  /\ \A x, y : PostKey(x) = PostKey(y) => x = y
  /\ \A p, q : ReversalKey(p) = ReversalKey(q) => p = q
  /\ \A b, c : BatchReversalKey(b) = BatchReversalKey(c) => b = c
  /\ \A p, q, b, c : AllocationKey(p, b) = AllocationKey(q, c) => p = q /\ b = c
  /\ \A x, p, b, c :
       /\ PostKey(x) # ReversalKey(p)
       /\ PostKey(x) # AllocationKey(p, b)
       /\ PostKey(x) # BatchReversalKey(c)
       /\ ReversalKey(x) # AllocationKey(p, b)
       /\ ReversalKey(x) # BatchReversalKey(c)
       /\ AllocationKey(p, b) # BatchReversalKey(c)
BY DEF PostKey, ReversalKey, AllocationKey, BatchReversalKey

LEMMA KeysAreKeys ==
  /\ \A x \in Payments \cup Documents : PostKey(x) \in Keys
  /\ \A p \in Payments : ReversalKey(p) \in Keys
  /\ \A b \in Batches : BatchReversalKey(b) \in Keys
  /\ \A p \in Payments, b \in Batches : AllocationKey(p, b) \in Keys
BY DEF Keys

\* A row recomputed by an allocation or by its reversal keeps its shape.
LEMMA StatusForIsStatus ==
  ASSUME NEW open, NEW settled
  PROVE  StatusFor(open, settled) \in {"POSTED", "PARTIAL", "COMPLETED"}
BY DEF StatusFor

LEMMA PaymentWithType ==
  ASSUME NEW row \in PaymentRow, NEW allocated \in Nat, allocated <= row.amount
  PROVE  /\ PaymentWith(row, allocated) \in PaymentRow
         /\ PaymentWith(row, allocated).unallocated =
              PaymentWith(row, allocated).amount - PaymentWith(row, allocated).allocated
         /\ PaymentWith(row, allocated).reversed = row.reversed
         /\ PaymentWith(row, allocated).status \in {"POSTED", "PARTIAL", "COMPLETED"}
<1> DEFINE unallocated == row.amount - allocated
           status == StatusFor(unallocated, allocated)
<1>1. unallocated \in Nat
  BY DEF PaymentRow
<1>2. status \in {"POSTED", "PARTIAL", "COMPLETED"}
  BY StatusForIsStatus
<1>3. PaymentWith(row, allocated) =
        [row EXCEPT !.allocated = allocated, !.unallocated = unallocated,
                    !.status = status]
  BY DEF PaymentWith
<1> HIDE DEF unallocated, status
<1>4. PaymentWith(row, allocated) \in PaymentRow
  BY <1>1, <1>2, <1>3 DEF PaymentRow, Statuses
<1>5. /\ PaymentWith(row, allocated).allocated = allocated
      /\ PaymentWith(row, allocated).unallocated = unallocated
      /\ PaymentWith(row, allocated).status = status
      /\ PaymentWith(row, allocated).amount = row.amount
      /\ PaymentWith(row, allocated).reversed = row.reversed
  BY <1>3 DEF PaymentRow
<1> QED BY <1>2, <1>4, <1>5 DEF unallocated

\* Replacing one payment by a row whose remainder is derived keeps all of them.
LEMMA PaymentReplaced ==
  ASSUME pay \in [Payments -> PaymentRow],
         \A q \in Payments : pay[q].unallocated = pay[q].amount - pay[q].allocated,
         NEW p \in Payments, NEW row \in PaymentRow,
         row.unallocated = row.amount - row.allocated,
         pay' = [pay EXCEPT ![p] = row]
  PROVE  /\ pay' \in [Payments -> PaymentRow]
         /\ \A q \in Payments : pay'[q].unallocated = pay'[q].amount - pay'[q].allocated
<1>1. pay' \in [Payments -> PaymentRow]
  OBVIOUS
<1>2. pay'[p] = row /\ \A q \in Payments \ {p} : pay'[q] = pay[q]
  OBVIOUS
<1> QED BY <1>1, <1>2

LEMMA CreditWithType ==
  ASSUME NEW c \in Credits, NEW allocated \in Nat, allocated <= Total[c]
  PROVE  /\ CreditWith(c, allocated) \in CreditRow
         /\ CreditWith(c, allocated).open = Total[c] - CreditWith(c, allocated).allocated
BY StatusForIsStatus, AmountAssumption DEF CreditWith, CreditRow, Statuses, Documents

LEMMA DocWithType ==
  ASSUME NEW t \in Targets, NEW allocated \in Int, NEW credited \in Int
  PROVE  /\ DocWith(t, allocated, credited) \in DocRow
         /\ DocWith(t, allocated, credited).open =
              Total[t] - DocWith(t, allocated, credited).allocated
                       - DocWith(t, allocated, credited).credited
BY StatusForIsStatus, AmountAssumption DEF DocWith, DocRow, Statuses, Documents

LEMMA LinesAreNumbers ==
  ASSUME NEW lines \in Lines, NEW t \in Targets
  PROVE  lines[t] \in Nat
<1>1. LineAmounts \cup {0} \subseteq Nat
  BY AmountAssumption
<1>2. lines[t] \in LineAmounts \cup {0}
  BY DEF Lines
<1> QED BY <1>1, <1>2

\* Applying or un-applying a batch leaves well-formed documents whose open
\* amounts are derived.
LEMMA SettledDocsType ==
  ASSUME doc \in [Targets -> DocRow], RemaindersAreDerived,
         NEW s, NEW lines \in Lines, NEW sign \in {1, -1},
         doc' = SettledDocs(s, lines, sign)
  PROVE  /\ doc' \in [Targets -> DocRow]
         /\ \A t \in Targets :
              doc'[t].open = Total[t] - doc'[t].allocated - doc'[t].credited
<1> SUFFICES ASSUME NEW t \in Targets
             PROVE  /\ doc'[t] \in DocRow
                    /\ doc'[t].open = Total[t] - doc'[t].allocated - doc'[t].credited
  BY DEF SettledDocs
<1>1. /\ doc[t] \in DocRow
      /\ doc[t].allocated \in Int /\ doc[t].credited \in Int
      /\ doc[t].open = Total[t] - doc[t].allocated - doc[t].credited
  BY DEF DocRow, RemaindersAreDerived
<1>2. lines[t] \in Int
  BY LinesAreNumbers
<1>3. /\ doc[t].allocated + sign * lines[t] \in Int
      /\ doc[t].credited + sign * lines[t] \in Int
  BY <1>1, <1>2
<1>4. CASE t \notin Touched(lines)
  BY <1>1, <1>4 DEF SettledDocs
<1>5. CASE t \in Touched(lines) /\ s \in Payments
  <2>1. doc'[t] = DocWith(t, doc[t].allocated + sign * lines[t], doc[t].credited)
    BY <1>5 DEF SettledDocs
  <2> QED BY <2>1, <1>1, <1>3, DocWithType
<1>6. CASE t \in Touched(lines) /\ s \notin Payments
  <2>1. doc'[t] = DocWith(t, doc[t].allocated, doc[t].credited + sign * lines[t])
    BY <1>6 DEF SettledDocs
  <2> QED BY <2>1, <1>1, <1>3, DocWithType
<1> QED BY <1>4, <1>5, <1>6

\* What a call of the posting engine does to the ledger: nothing, or one entry
\* under a key that was free.  Nothing that is recorded is ever changed.
LEMMA PostAppends ==
  ASSUME journal \in [Keys -> Entry \cup {NoEntry}],
         NEW key \in Keys, NEW entry, Post(key, entry)
  PROVE  /\ journal' \in [Keys -> Entry \cup {NoEntry}]
         /\ Recorded(key)'
         /\ \A k \in Keys : Recorded(k) => Recorded(k)' /\ journal'[k] = journal[k]
         /\ \A k \in Keys \ {key} : journal'[k] = journal[k] /\ (Recorded(k)' <=> Recorded(k))
         /\ ~Recorded(key) => journal'[key] = entry
<1>1. NoEntry \notin Entry
  BY NullAssumption, AmountAssumption DEF Entry, AnyEntry
<1> QED BY <1>1 DEF Post, Recorded

-----------------------------------------------------------------------------
(* Rows: shape and derived remainders, proved together because a payment   *)
(* stays above zero only as long as its remainder is what its amount and   *)
(* its allocations make it.                                                *)

RowsInv == TypeOK /\ RemaindersAreDerived

LEMMA RowsInit == Init => RowsInv
<1> SUFFICES ASSUME Init PROVE RowsInv
  OBVIOUS
<1>1. \A a \in PaymentAmounts : Draft(a, 0) \in PaymentRow
  BY AmountAssumption DEF Draft, PaymentRow, Statuses
<1>2. /\ pay \in [Payments -> PaymentRow]
      /\ \A p \in Payments : pay[p].unallocated = pay[p].amount - pay[p].allocated
  <2> SUFFICES ASSUME NEW p \in Payments
               PROVE  /\ pay[p] \in PaymentRow
                      /\ pay[p].unallocated = pay[p].amount - pay[p].allocated
    BY DEF Init
  <2>1. PICK a \in PaymentAmounts : pay[p] = Draft(a, 0)
    BY DEF Init
  <2> QED BY <2>1, <1>1, AmountAssumption DEF Draft
<1>3. /\ doc \in [Targets -> DocRow]
      /\ \A t \in Targets : doc[t].open = Total[t] - doc[t].allocated - doc[t].credited
  BY AmountAssumption DEF Init, DocRow, Statuses, Documents
<1>4. /\ credit \in [Credits -> CreditRow]
      /\ \A c \in Credits : credit[c].open = Total[c] - credit[c].allocated
  BY AmountAssumption DEF Init, CreditRow, Statuses, Documents
<1>5. /\ batch \in [Batches -> BatchRow \cup {NoBatch}]
      /\ journal \in [Keys -> Entry \cup {NoEntry}]
      /\ loaded \in [Documents -> Nat]
  BY AmountAssumption DEF Init
<1> QED BY <1>2, <1>3, <1>4, <1>5 DEF RowsInv, TypeOK, RemaindersAreDerived

LEMMA FinishType ==
  ASSUME loaded \in [Documents -> Nat], NEW d \in Documents, Finish(d)
  PROVE  loaded' \in [Documents -> Nat]
BY AmountAssumption DEF Finish

\* A step that only moves payments, credits, documents or batches keeps the
\* rest; this is what every action has to show.
LEMMA RowsStep == RowsInv /\ [Next]_vars => RowsInv'
<1> SUFFICES ASSUME TypeOK, RemaindersAreDerived, [Next]_vars PROVE RowsInv'
  BY DEF RowsInv
<1>t. /\ pay \in [Payments -> PaymentRow]
      /\ doc \in [Targets -> DocRow]
      /\ credit \in [Credits -> CreditRow]
      /\ batch \in [Batches -> BatchRow \cup {NoBatch}]
      /\ journal \in [Keys -> Entry \cup {NoEntry}]
      /\ loaded \in [Documents -> Nat]
  BY DEF TypeOK
<1>r. /\ \A p \in Payments : pay[p].unallocated = pay[p].amount - pay[p].allocated
      /\ \A t \in Targets : doc[t].open = Total[t] - doc[t].allocated - doc[t].credited
      /\ \A c \in Credits : credit[c].open = Total[c] - credit[c].allocated
  BY DEF RemaindersAreDerived
<1>q. ASSUME /\ pay' \in [Payments -> PaymentRow]
             /\ \A p \in Payments : pay'[p].unallocated = pay'[p].amount - pay'[p].allocated,
             /\ doc' \in [Targets -> DocRow]
             /\ \A t \in Targets : doc'[t].open = Total[t] - doc'[t].allocated
                                                           - doc'[t].credited,
             /\ credit' \in [Credits -> CreditRow]
             /\ \A c \in Credits : credit'[c].open = Total[c] - credit'[c].allocated,
             batch' \in [Batches -> BatchRow \cup {NoBatch}],
             journal' \in [Keys -> Entry \cup {NoEntry}],
             loaded' \in [Documents -> Nat]
      PROVE  RowsInv'
  BY <1>q DEF TypeOK, RemaindersAreDerived, RowsInv
<1>1. ASSUME NEW p \in Payments, NEW amount \in PaymentAmounts, NEW fee \in Fees,
             UpdateDraftPayment(p, amount, fee)
      PROVE  RowsInv'
  <2>1. /\ Draft(amount, fee) \in PaymentRow
        /\ Draft(amount, fee).unallocated =
             Draft(amount, fee).amount - Draft(amount, fee).allocated
    BY AmountAssumption DEF Draft, PaymentRow, Statuses
  <2>2. /\ pay' \in [Payments -> PaymentRow]
        /\ \A q \in Payments : pay'[q].unallocated = pay'[q].amount - pay'[q].allocated
    BY <1>1, <1>t, <1>r, <2>1, PaymentReplaced DEF UpdateDraftPayment
  <2> QED BY <1>1, <2>2, <1>t, <1>r, <1>q DEF UpdateDraftPayment
<1>2. ASSUME NEW p \in Payments, PostPayment(p)
      PROVE  RowsInv'
  <2>1. /\ pay' = [pay EXCEPT ![p].status = "POSTED"]
        /\ UNCHANGED <<doc, credit, batch, loaded>>
        /\ Post(PostKey(p), PaymentEntry(Side[p], Base(p, pay[p].amount),
                                         Base(p, pay[p].fee)))
    BY <1>2 DEF PostPayment
  <2>2. /\ pay' \in [Payments -> PaymentRow]
        /\ \A q \in Payments : pay'[q].unallocated = pay'[q].amount - pay'[q].allocated
    <3> DEFINE row == [pay[p] EXCEPT !.status = "POSTED"]
    <3>1. row \in PaymentRow /\ row.unallocated = row.amount - row.allocated
      BY <1>t, <1>r DEF PaymentRow, Statuses
    <3>2. pay' = [pay EXCEPT ![p] = row]
      BY <2>1
    <3> HIDE DEF row
    <3> QED BY <3>1, <3>2, <1>t, <1>r, PaymentReplaced
  <2>3. journal' \in [Keys -> Entry \cup {NoEntry}]
    BY <2>1, <1>t, PostAppends, KeysAreKeys
  <2> QED BY <2>1, <2>2, <2>3, <1>t, <1>r, <1>q
<1>3. ASSUME NEW p \in Payments, ReversePayment(p)
      PROVE  RowsInv'
  <2>1. /\ pay' = [pay EXCEPT ![p].reversed = TRUE, ![p].status = "REVERSED"]
        /\ UNCHANGED <<doc, credit, batch, loaded>>
        /\ Post(ReversalKey(p), Mirror(journal[PostKey(p)]))
    BY <1>3 DEF ReversePayment, PostMirror
  <2>2. /\ pay' \in [Payments -> PaymentRow]
        /\ \A q \in Payments : pay'[q].unallocated = pay'[q].amount - pay'[q].allocated
    <3> DEFINE row == [pay[p] EXCEPT !.reversed = TRUE, !.status = "REVERSED"]
    <3>1. row \in PaymentRow /\ row.unallocated = row.amount - row.allocated
      BY <1>t, <1>r DEF PaymentRow, Statuses
    <3>2. pay' = [pay EXCEPT ![p] = row]
      BY <2>1
    <3> HIDE DEF row
    <3> QED BY <3>1, <3>2, <1>t, <1>r, PaymentReplaced
  <2>3. journal' \in [Keys -> Entry \cup {NoEntry}]
    BY <2>1, <1>t, PostAppends, KeysAreKeys
  <2> QED BY <2>1, <2>2, <2>3, <1>t, <1>r, <1>q
<1>4. ASSUME NEW p \in Payments, NEW b \in Batches, NEW lines \in Lines,
             AllocatePayment(p, b, lines)
      PROVE  RowsInv'
  <2>1. /\ doc' = SettledDocs(p, lines, 1)
        /\ batch' = [batch EXCEPT ![b] = NewBatch(p, lines)]
        /\ UNCHANGED <<credit, loaded>>
        /\ Post(AllocationKey(p, b),
                AllocationEntry(Side[p], Base(p, BatchTotal(lines)), TargetBase(lines)))
    BY <1>4 DEF AllocatePayment
  <2>2. PICK total \in 1 .. pay[p].unallocated :
          pay' = [pay EXCEPT ![p] = PaymentWith(@, @.allocated + total)]
    BY <1>4 DEF AllocatePayment, Spendable
  <2>3. /\ pay[p] \in PaymentRow
        /\ pay[p].allocated + total \in Nat
        /\ pay[p].allocated + total <= pay[p].amount
    BY <1>t, <1>r DEF PaymentRow
  <2>4. /\ pay' \in [Payments -> PaymentRow]
        /\ \A q \in Payments : pay'[q].unallocated = pay'[q].amount - pay'[q].allocated
    BY <2>2, <2>3, <1>t, <1>r, PaymentWithType
  <2>5. NewBatch(p, lines) \in BatchRow
    BY DEF NewBatch, BatchRow, Sources
  <2>6. journal' \in [Keys -> Entry \cup {NoEntry}]
    BY <2>1, <1>t, PostAppends, KeysAreKeys
  <2>7. /\ doc' \in [Targets -> DocRow]
        /\ \A t \in Targets : doc'[t].open = Total[t] - doc'[t].allocated - doc'[t].credited
    BY <2>1, <1>t, SettledDocsType
  <2> QED BY <2>1, <2>4, <2>5, <2>6, <2>7, <1>t, <1>r, <1>q
<1>5. ASSUME NEW b \in Batches, UnapplyPayment(b)
      PROVE  RowsInv'
  <2> DEFINE p == batch[b].source
  <2>1. /\ Live(b)
        /\ p \in Payments
        /\ doc' = SettledDocs(p, batch[b].lines, -1)
        /\ batch' = [batch EXCEPT ![b].reversed = TRUE]
        /\ UNCHANGED <<credit, loaded>>
        /\ Post(BatchReversalKey(b), Mirror(journal[AllocationKey(p, b)]))
    BY <1>5 DEF UnapplyPayment, PostMirror
  <2>2. PICK total \in 0 .. pay[p].allocated :
          pay' = [pay EXCEPT ![p] = PaymentWith(@, @.allocated - total)]
    BY <1>5 DEF UnapplyPayment
  <2>b. batch[b] \in BatchRow /\ batch[b].lines \in Lines
    BY <2>1, <1>t DEF Live, BatchRow
  <2> HIDE DEF p
  <2>3. /\ pay[p] \in PaymentRow
        /\ pay[p].allocated - total \in Nat
        /\ pay[p].allocated - total <= pay[p].amount
    BY <2>1, <1>t, <1>r DEF PaymentRow
  <2>4. /\ pay' \in [Payments -> PaymentRow]
        /\ \A q \in Payments : pay'[q].unallocated = pay'[q].amount - pay'[q].allocated
    BY <2>1, <2>2, <2>3, <1>t, <1>r, PaymentWithType
  <2>5. batch' \in [Batches -> BatchRow \cup {NoBatch}]
    BY <2>1, <2>b, <1>t DEF BatchRow
  <2>6. journal' \in [Keys -> Entry \cup {NoEntry}]
    BY <2>1, <1>t, PostAppends, KeysAreKeys
  <2>7. /\ doc' \in [Targets -> DocRow]
        /\ \A t \in Targets : doc'[t].open = Total[t] - doc'[t].allocated - doc'[t].credited
    BY <2>1, <2>b, <1>t, SettledDocsType
  <2> QED BY <2>1, <2>4, <2>5, <2>6, <2>7, <1>t, <1>r, <1>q
<1>6. ASSUME NEW c \in Credits, NEW b \in Batches, NEW lines \in Lines,
             ApplyCredit(c, b, lines)
      PROVE  RowsInv'
  <2>1. /\ doc' = SettledDocs(c, lines, 1)
        /\ batch' = [batch EXCEPT ![b] = NewBatch(c, lines)]
        /\ UNCHANGED <<pay, journal, loaded>>
    BY <1>6 DEF ApplyCredit
  <2>2. PICK total \in 1 .. credit[c].open :
          credit' = [credit EXCEPT ![c] = CreditWith(c, @.allocated + total)]
    BY <1>6 DEF ApplyCredit
  <2>3. /\ credit[c].allocated + total \in Nat
        /\ credit[c].allocated + total <= Total[c]
    BY <1>t, <1>r, AmountAssumption DEF CreditRow, Documents
  <2>4. /\ credit' \in [Credits -> CreditRow]
        /\ \A d \in Credits : credit'[d].open = Total[d] - credit'[d].allocated
    BY <2>2, <2>3, <1>t, <1>r, CreditWithType
  <2>5. NewBatch(c, lines) \in BatchRow
    BY DEF NewBatch, BatchRow, Sources
  <2>7. /\ doc' \in [Targets -> DocRow]
        /\ \A t \in Targets : doc'[t].open = Total[t] - doc'[t].allocated - doc'[t].credited
    BY <2>1, <1>t, SettledDocsType
  <2> QED BY <2>1, <2>4, <2>5, <2>7, <1>t, <1>r, <1>q
<1>7. ASSUME NEW b \in Batches, UnapplyCredit(b)
      PROVE  RowsInv'
  <2> DEFINE c == batch[b].source
  <2>1. /\ Live(b)
        /\ c \in Credits
        /\ doc' = SettledDocs(c, batch[b].lines, -1)
        /\ batch' = [batch EXCEPT ![b].reversed = TRUE]
        /\ UNCHANGED <<pay, journal, loaded>>
    BY <1>7 DEF UnapplyCredit
  <2>2. PICK total \in 0 .. credit[c].allocated :
          credit' = [credit EXCEPT ![c] = CreditWith(c, @.allocated - total)]
    BY <1>7 DEF UnapplyCredit
  <2>b. batch[b] \in BatchRow /\ batch[b].lines \in Lines
    BY <2>1, <1>t DEF Live, BatchRow
  <2> HIDE DEF c
  <2>3. /\ credit[c].allocated - total \in Nat
        /\ credit[c].allocated - total <= Total[c]
    BY <2>1, <1>t, <1>r, AmountAssumption DEF CreditRow, Documents
  <2>4. /\ credit' \in [Credits -> CreditRow]
        /\ \A d \in Credits : credit'[d].open = Total[d] - credit'[d].allocated
    BY <2>1, <2>2, <2>3, <1>t, <1>r, CreditWithType
  <2>5. batch' \in [Batches -> BatchRow \cup {NoBatch}]
    BY <2>1, <2>b, <1>t DEF BatchRow
  <2>7. /\ doc' \in [Targets -> DocRow]
        /\ \A t \in Targets : doc'[t].open = Total[t] - doc'[t].allocated - doc'[t].credited
    BY <2>1, <2>b, <1>t, SettledDocsType
  <2> QED BY <2>1, <2>4, <2>5, <2>7, <1>t, <1>r, <1>q
<1>8. ASSUME NEW t \in Targets, PostInvoice(t) \/ PostBill(t)
      PROVE  RowsInv'
  <2>1. /\ Finish(t)
        /\ UNCHANGED <<pay, credit, batch>>
        /\ \/ journal' = journal
           \/ Post(PostKey(t), DocumentEntry("CUSTOMER", Base(t, Total[t])))
           \/ Post(PostKey(t), DocumentEntry("VENDOR", Base(t, Total[t])))
        /\ \/ doc' = doc
           \/ doc' = [doc EXCEPT ![t].status = "POSTED"]
           \/ doc' = [doc EXCEPT ![t] = [status |-> "POSTED", allocated |-> 0,
                                         credited |-> 0, open |-> Total[t]]]
    BY <1>8 DEF PostInvoice, PostBill
  <2>2. /\ doc' \in [Targets -> DocRow]
        /\ \A u \in Targets : doc'[u].open = Total[u] - doc'[u].allocated - doc'[u].credited
    <3>1. CASE doc' = doc
      BY <3>1, <1>t, <1>r
    <3>2. CASE doc' = [doc EXCEPT ![t].status = "POSTED"]
      BY <3>2, <1>t, <1>r DEF DocRow, Statuses
    <3>3. CASE doc' = [doc EXCEPT ![t] = [status |-> "POSTED", allocated |-> 0,
                                          credited |-> 0, open |-> Total[t]]]
      <4>1. Total[t] \in Int
        BY AmountAssumption DEF Documents
      <4> QED BY <3>3, <4>1, <1>t, <1>r DEF DocRow, Statuses
    <3> QED BY <2>1, <3>1, <3>2, <3>3
  <2>3. journal' \in [Keys -> Entry \cup {NoEntry}]
    BY <2>1, <1>t, PostAppends, KeysAreKeys DEF Documents
  <2>4. loaded' \in [Documents -> Nat]
    BY <2>1, <1>t, FinishType DEF Documents
  <2> QED BY <2>1, <2>2, <2>3, <2>4, <1>t, <1>r, <1>q
<1>9. ASSUME NEW c \in Credits, PostCreditNote(c) \/ PostDebitNote(c)
      PROVE  RowsInv'
  <2>1. /\ Finish(c)
        /\ UNCHANGED <<pay, doc, batch>>
        /\ \/ journal' = journal
           \/ Post(PostKey(c), DocumentEntry("CUSTOMER", -CreditEffect(c)))
           \/ Post(PostKey(c), DocumentEntry("VENDOR", -CreditEffect(c)))
        /\ \/ credit' = credit
           \/ credit' = [credit EXCEPT ![c].status = "POSTED"]
           \/ credit' = [credit EXCEPT ![c] = [status |-> "POSTED", allocated |-> 0,
                                               open |-> Total[c]]]
    BY <1>9 DEF PostCreditNote, PostDebitNote
  <2>2. /\ credit' \in [Credits -> CreditRow]
        /\ \A d \in Credits : credit'[d].open = Total[d] - credit'[d].allocated
    <3>1. CASE credit' = credit
      BY <3>1, <1>t, <1>r
    <3>2. CASE credit' = [credit EXCEPT ![c].status = "POSTED"]
      BY <3>2, <1>t, <1>r DEF CreditRow, Statuses
    <3>3. CASE credit' = [credit EXCEPT ![c] = [status |-> "POSTED", allocated |-> 0,
                                                open |-> Total[c]]]
      <4>1. Total[c] \in Nat
        BY AmountAssumption DEF Documents
      <4> QED BY <3>3, <4>1, <1>t, <1>r DEF CreditRow, Statuses
    <3> QED BY <2>1, <3>1, <3>2, <3>3
  <2>3. journal' \in [Keys -> Entry \cup {NoEntry}]
    BY <2>1, <1>t, PostAppends, KeysAreKeys DEF Documents
  <2>4. loaded' \in [Documents -> Nat]
    BY <2>1, <1>t, FinishType DEF Documents
  <2> QED BY <2>1, <2>2, <2>3, <2>4, <1>t, <1>r, <1>q
<1>10. ASSUME NEW d \in Documents, LoadDocument(d)
       PROVE  RowsInv'
  <2>1. loaded' \in [Documents -> Nat]
    BY <1>10, <1>t, AmountAssumption DEF LoadDocument
  <2> QED BY <1>10, <2>1, <1>t, <1>r, <1>q DEF LoadDocument
<1>11. ASSUME UNCHANGED vars
       PROVE  RowsInv'
  BY <1>11, <1>t, <1>r, <1>q DEF vars
<1> QED
  BY <1>1, <1>2, <1>3, <1>4, <1>5, <1>6, <1>7, <1>8, <1>9, <1>10, <1>11 DEF Next

LEMMA RowsAlways == Spec => []RowsInv
BY RowsInit, RowsStep, PTL DEF Spec

\* Whatever the payments, the documents, the rates and the order of calls, the
\* rows keep their shape: no payment or credit is ever drawn below zero and
\* nothing but a complete entry, within the money columns, is in the ledger.
THEOREM TypeCorrect == Spec => []TypeOK
<1>1. RowsInv => TypeOK
  BY DEF RowsInv
<1> QED BY <1>1, RowsAlways, PTL

\* BR-009 for every instance: the remainder of every payment, document and
\* credit is its amount less what was consumed.
THEOREM RemaindersAlwaysDerived == Spec => []RemaindersAreDerived
<1>1. RowsInv => RemaindersAreDerived
  BY DEF RowsInv
<1> QED BY <1>1, RowsAlways, PTL

-----------------------------------------------------------------------------
(* What the ledger holds about a batch and about a payment.                *)

BatchOK(b) ==
  LET s == batch[b].source
  IN  /\ batch[b] = NoBatch =>
           /\ ~Recorded(BatchReversalKey(b))
           /\ \A p \in Payments : ~Recorded(AllocationKey(p, b))
      /\ batch[b] # NoBatch =>
           /\ Recorded(PostKey(s))
           /\ \A t \in Touched(batch[b].lines) : Recorded(PostKey(t)) /\ Party[t] = Party[s]
           /\ \A p \in Payments : Recorded(AllocationKey(p, b)) <=> p = s
           /\ Recorded(BatchReversalKey(b)) <=> batch[b].reversed /\ s \in Payments
           /\ Recorded(BatchReversalKey(b)) =>
                journal[BatchReversalKey(b)] = Mirror(journal[AllocationKey(s, b)])
           /\ s \in Payments /\ ~batch[b].reversed => ~pay[s].reversed

PaymentOK(p) ==
  /\ pay[p].reversed <=> Recorded(ReversalKey(p))
  /\ pay[p].reversed => /\ Recorded(PostKey(p))
                        /\ journal[ReversalKey(p)] = Mirror(journal[PostKey(p)])
                        /\ pay[p].status = "REVERSED"

JournalsInv ==
  /\ \A b \in Batches : BatchOK(b)
  /\ \A p \in Payments : PaymentOK(p)

\* The ledger only grows, and by no other key than this one.
GrowsAt(key) ==
  /\ \A k \in Keys : Recorded(k) => Recorded(k)' /\ journal'[k] = journal[k]
  /\ \A k \in Keys : k # key /\ Recorded(k)' => Recorded(k)

LEMMA PostGrows ==
  ASSUME TypeOK, NEW key \in Keys, NEW entry, Post(key, entry) \/ UNCHANGED journal
  PROVE  GrowsAt(key)
<1>1. CASE Post(key, entry)
  <2>1. journal \in [Keys -> Entry \cup {NoEntry}]
    BY DEF TypeOK
  <2> QED BY <1>1, <2>1, PostAppends DEF GrowsAt
<1>2. CASE UNCHANGED journal
  BY <1>2 DEF GrowsAt, Recorded
<1> QED BY <1>1, <1>2

\* A batch whose rows and journals a step leaves alone stays in order, unless
\* the step reverses the payment behind it.
LEMMA BatchFrame ==
  ASSUME TypeOK, NEW b \in Batches, BatchOK(b), batch'[b] = batch[b],
         NEW key, GrowsAt(key),
         key # BatchReversalKey(b), \A p \in Payments : key # AllocationKey(p, b),
         \A p \in Payments : Live(b) /\ batch[b].source = p =>
                               (pay'[p].reversed => pay[p].reversed)
  PROVE  BatchOK(b)'
<1> DEFINE s == batch[b].source
<1>1. /\ Recorded(BatchReversalKey(b))' <=> Recorded(BatchReversalKey(b))
      /\ \A p \in Payments : Recorded(AllocationKey(p, b))' <=> Recorded(AllocationKey(p, b))
  BY KeysAreKeys DEF GrowsAt
<1>2. CASE batch[b] = NoBatch
  BY <1>1, <1>2 DEF BatchOK
<1>3. CASE batch[b] # NoBatch
  <2>1. /\ s \in Sources
        /\ batch[b].lines \in Lines
        /\ batch[b].reversed \in BOOLEAN
    BY <1>3 DEF TypeOK, BatchRow
  <2>2. /\ PostKey(s) \in Keys
        /\ \A t \in Targets : PostKey(t) \in Keys
    BY <2>1, KeysAreKeys DEF Sources, Documents
  <2>3. Recorded(PostKey(s))'
    BY <1>3, <2>2 DEF BatchOK, GrowsAt
  <2>4. \A t \in Touched(batch[b].lines) : Recorded(PostKey(t))' /\ Party[t] = Party[s]
    BY <1>3, <2>2 DEF BatchOK, GrowsAt, Touched
  <2>5. Recorded(BatchReversalKey(b)) =>
          journal'[BatchReversalKey(b)] = Mirror(journal'[AllocationKey(s, b)])
    <3> SUFFICES ASSUME Recorded(BatchReversalKey(b))
                 PROVE  journal'[BatchReversalKey(b)] = Mirror(journal'[AllocationKey(s, b)])
      OBVIOUS
    <3>1. s \in Payments /\ Recorded(AllocationKey(s, b))
      BY <1>3 DEF BatchOK
    <3>2. /\ journal'[BatchReversalKey(b)] = journal[BatchReversalKey(b)]
          /\ journal'[AllocationKey(s, b)] = journal[AllocationKey(s, b)]
      BY <3>1, KeysAreKeys DEF GrowsAt
    <3> QED BY <1>3, <3>2 DEF BatchOK
  <2>6. s \in Payments /\ ~batch[b].reversed => ~pay'[s].reversed
    BY <1>3 DEF BatchOK, Live
  <2> QED BY <1>1, <1>3, <2>3, <2>4, <2>5, <2>6 DEF BatchOK
<1> QED BY <1>2, <1>3

\* So does a payment that a step neither reverses nor un-reverses.
LEMMA PaymentFrame ==
  ASSUME TypeOK, NEW p \in Payments, PaymentOK(p),
         NEW key, GrowsAt(key), key # ReversalKey(p),
         pay'[p].reversed <=> pay[p].reversed,
         pay[p].reversed => pay'[p].status = pay[p].status
  PROVE  PaymentOK(p)'
<1>1. PostKey(p) \in Keys /\ ReversalKey(p) \in Keys
  BY KeysAreKeys
<1>2. Recorded(ReversalKey(p))' <=> Recorded(ReversalKey(p))
  BY <1>1 DEF GrowsAt
<1>3. pay[p].reversed => /\ Recorded(PostKey(p))'
                         /\ journal'[ReversalKey(p)] = Mirror(journal'[PostKey(p)])
  BY <1>1 DEF GrowsAt, PaymentOK
<1> QED BY <1>2, <1>3 DEF PaymentOK

LEMMA JournalsInit == Init => JournalsInv
<1> SUFFICES ASSUME Init PROVE JournalsInv
  OBVIOUS
<1>1. \A k \in Keys : ~Recorded(k)
  BY DEF Init, Recorded
<1>2. \A b \in Batches : batch[b] = NoBatch
  BY DEF Init
<1>3. \A p \in Payments : ~pay[p].reversed
  <2> SUFFICES ASSUME NEW p \in Payments PROVE ~pay[p].reversed
    OBVIOUS
  <2>1. PICK a \in PaymentAmounts : pay[p] = Draft(a, 0)
    BY DEF Init
  <2> QED BY <2>1 DEF Draft
<1> QED BY <1>1, <1>2, <1>3, KeysAreKeys DEF JournalsInv, BatchOK, PaymentOK

LEMMA JournalsStep == TypeOK /\ JournalsInv /\ [Next]_vars => JournalsInv'
<1> SUFFICES ASSUME TypeOK, JournalsInv, [Next]_vars PROVE JournalsInv'
  OBVIOUS
<1>i. /\ \A b \in Batches : BatchOK(b)
      /\ \A p \in Payments : PaymentOK(p)
  BY DEF JournalsInv
<1>t. /\ pay \in [Payments -> PaymentRow]
      /\ batch \in [Batches -> BatchRow \cup {NoBatch}]
  BY DEF TypeOK
<1>k. /\ KeysAreDistinct!1 /\ KeysAreDistinct!2 /\ KeysAreDistinct!3
      /\ KeysAreDistinct!4 /\ KeysAreDistinct!5
  BY KeysAreDistinct
<1>1. ASSUME NEW p \in Payments, NEW amount \in PaymentAmounts, NEW fee \in Fees,
             UpdateDraftPayment(p, amount, fee)
      PROVE  JournalsInv'
  <2>1. /\ pay[p].status = "UNPOSTED"
        /\ pay' = [pay EXCEPT ![p] = Draft(amount, fee)]
        /\ UNCHANGED <<batch, journal>>
    BY <1>1 DEF UpdateDraftPayment
  <2>2. ~pay[p].reversed /\ ~pay'[p].reversed
    BY <2>1, <1>i, <1>t DEF PaymentOK, Draft
  <2>3. GrowsAt(PostKey(p))
    BY <2>1, PostGrows, KeysAreKeys
  <2>4. \A q \in Payments : (pay'[q].reversed <=> pay[q].reversed)
                              /\ (pay[q].reversed => pay'[q].status = pay[q].status)
    BY <2>1, <2>2, <1>t
  <2>5. \A b \in Batches : BatchOK(b)'
    BY <2>1, <2>3, <2>4, <1>i, <1>k, BatchFrame
  <2>6. \A q \in Payments : PaymentOK(q)'
    BY <2>3, <2>4, <1>i, <1>k, PaymentFrame
  <2> QED BY <2>5, <2>6 DEF JournalsInv
<1>2. ASSUME NEW p \in Payments, PostPayment(p)
      PROVE  JournalsInv'
  <2>1. /\ ~pay[p].reversed
        /\ pay' = [pay EXCEPT ![p].status = "POSTED"]
        /\ UNCHANGED batch
        /\ GrowsAt(PostKey(p))
    BY <1>2, PostGrows, KeysAreKeys DEF PostPayment
  <2>2. \A q \in Payments : (pay'[q].reversed <=> pay[q].reversed)
                              /\ (pay[q].reversed => pay'[q].status = pay[q].status)
    BY <2>1, <1>t DEF PaymentRow
  <2>3. \A b \in Batches : BatchOK(b)'
    BY <2>1, <2>2, <1>i, <1>k, BatchFrame
  <2>4. \A q \in Payments : PaymentOK(q)'
    BY <2>1, <2>2, <1>i, <1>k, PaymentFrame
  <2> QED BY <2>3, <2>4 DEF JournalsInv
<1>3. ASSUME NEW p \in Payments, ReversePayment(p)
      PROVE  JournalsInv'
  <2>1. /\ ~pay[p].reversed
        /\ Recorded(PostKey(p))
        /\ LiveBatchesOf(p) = {}
        /\ Post(ReversalKey(p), Mirror(journal[PostKey(p)]))
        /\ pay' = [pay EXCEPT ![p].reversed = TRUE, ![p].status = "REVERSED"]
        /\ UNCHANGED batch
    BY <1>3 DEF ReversePayment, PostMirror, NothingApplied
  <2>2. GrowsAt(ReversalKey(p))
    BY <2>1, PostGrows, KeysAreKeys
  <2>3. /\ pay'[p].reversed /\ pay'[p].status = "REVERSED"
        /\ \A q \in Payments \ {p} : pay'[q] = pay[q]
    BY <2>1, <1>t DEF PaymentRow
  <2>4. ASSUME NEW b \in Batches PROVE BatchOK(b)'
    <3>1. \A q \in Payments : Live(b) /\ batch[b].source = q =>
                                (pay'[q].reversed => pay[q].reversed)
      BY <2>1, <2>3 DEF LiveBatchesOf
    <3> QED BY <3>1, <2>1, <2>2, <1>i, <1>k, BatchFrame
  <2>5. PaymentOK(p)'
    <3>1. ~Recorded(ReversalKey(p))
      BY <2>1, <1>i DEF PaymentOK
    <3>2. /\ Recorded(ReversalKey(p))'
          /\ journal'[ReversalKey(p)] = Mirror(journal[PostKey(p)])
      BY <3>1, <2>1, PostAppends, KeysAreKeys DEF TypeOK
    <3>3. Recorded(PostKey(p))' /\ journal'[PostKey(p)] = journal[PostKey(p)]
      BY <2>1, <2>2, KeysAreKeys DEF GrowsAt
    <3> QED BY <3>2, <3>3, <2>3 DEF PaymentOK
  <2>6. ASSUME NEW q \in Payments \ {p} PROVE PaymentOK(q)'
    BY <2>2, <2>3, <1>i, <1>k, PaymentFrame
  <2> QED BY <2>4, <2>5, <2>6 DEF JournalsInv
<1>4. ASSUME NEW p \in Payments, NEW b \in Batches, NEW lines \in Lines,
             AllocatePayment(p, b, lines)
      PROVE  JournalsInv'
  <2> DEFINE entry == AllocationEntry(Side[p], Base(p, BatchTotal(lines)), TargetBase(lines))
  <2>1. /\ batch[b] = NoBatch
        /\ ~pay[p].reversed
        /\ Recorded(PostKey(p))
        /\ \A t \in Touched(lines) : Recorded(PostKey(t)) /\ Party[t] = Party[p]
        /\ Post(AllocationKey(p, b), entry)
        /\ batch' = [batch EXCEPT ![b] = NewBatch(p, lines)]
    BY <1>4 DEF AllocatePayment, ValidTarget
  <2> HIDE DEF entry
  <2>2. PICK total \in 1 .. pay[p].unallocated :
          pay' = [pay EXCEPT ![p] = PaymentWith(@, @.allocated + total)]
    BY <1>4 DEF AllocatePayment, Spendable
  <2>3. \A q \in Payments : (pay'[q].reversed <=> pay[q].reversed)
                              /\ (pay[q].reversed => pay'[q].status = pay[q].status)
    BY <2>1, <2>2, <1>t DEF PaymentWith, PaymentRow
  <2>4. GrowsAt(AllocationKey(p, b))
    BY <2>1, PostGrows, KeysAreKeys
  <2>5. BatchOK(b)'
    <3>0. NewBatch(p, lines) \in BatchRow
      BY DEF NewBatch, BatchRow, Sources
    <3>1. /\ batch'[b] = [source |-> p, lines |-> lines, reversed |-> FALSE]
          /\ batch'[b] # NoBatch
      <4>1. batch'[b] = NewBatch(p, lines)
        BY <2>1, <1>t
      <4> QED BY <4>1, <3>0, NullAssumption DEF NewBatch
    <3>2. /\ ~Recorded(BatchReversalKey(b))'
          /\ \A q \in Payments : q # p => ~Recorded(AllocationKey(q, b))'
      BY <2>1, <2>4, <1>i, <1>k, KeysAreKeys DEF BatchOK, GrowsAt
    <3>3. Recorded(AllocationKey(p, b))'
      BY <2>1, PostAppends, KeysAreKeys DEF TypeOK
    <3>4. /\ Recorded(PostKey(p))'
          /\ \A t \in Touched(lines) : Recorded(PostKey(t))' /\ Party[t] = Party[p]
      BY <2>1, <2>4, KeysAreKeys DEF GrowsAt, Touched, Documents
    <3>5. ~pay'[p].reversed
      BY <2>1, <2>3
    <3> QED BY <3>1, <3>2, <3>3, <3>4, <3>5 DEF BatchOK
  <2>6. ASSUME NEW c \in Batches \ {b} PROVE BatchOK(c)'
    <3>1. batch'[c] = batch[c]
      BY <2>1, <1>t
    <3> QED BY <3>1, <2>3, <2>4, <1>i, <1>k, BatchFrame
  <2>7. \A q \in Payments : PaymentOK(q)'
    BY <2>3, <2>4, <1>i, <1>k, PaymentFrame
  <2> QED BY <2>5, <2>6, <2>7 DEF JournalsInv
<1>5. ASSUME NEW b \in Batches, UnapplyPayment(b)
      PROVE  JournalsInv'
  <2>0. PICK p \in Payments : p = batch[b].source
    BY <1>5 DEF UnapplyPayment
  <2>1. /\ Live(b)
        /\ Post(BatchReversalKey(b), Mirror(journal[AllocationKey(p, b)]))
        /\ batch' = [batch EXCEPT ![b].reversed = TRUE]
    BY <1>5, <2>0 DEF UnapplyPayment, PostMirror
  <2>2. PICK total \in 0 .. pay[p].allocated :
          pay' = [pay EXCEPT ![p] = PaymentWith(@, @.allocated - total)]
    BY <1>5, <2>0 DEF UnapplyPayment
  <2>b. /\ batch[b] # NoBatch /\ batch[b] \in BatchRow /\ ~batch[b].reversed
        /\ ~pay[p].reversed
    BY <2>0, <2>1, <1>i, <1>t DEF Live, BatchOK
  <2>3. \A q \in Payments : (pay'[q].reversed <=> pay[q].reversed)
                              /\ (pay[q].reversed => pay'[q].status = pay[q].status)
    BY <2>1, <2>2, <2>b, <1>t DEF PaymentWith, PaymentRow
  <2>4. GrowsAt(BatchReversalKey(b))
    BY <2>1, PostGrows, KeysAreKeys
  <2>5. BatchOK(b)'
    <3>1. /\ batch'[b] = [batch[b] EXCEPT !.reversed = TRUE]
          /\ batch'[b].source = p /\ batch'[b].lines = batch[b].lines
          /\ batch'[b].reversed
          /\ batch'[b] \in BatchRow
      BY <2>0, <2>1, <2>b, <1>t DEF BatchRow
    <3>2. batch'[b] # NoBatch
      BY <3>1, NullAssumption
    <3>3. ~Recorded(BatchReversalKey(b))
      BY <2>b, <1>i DEF BatchOK
    <3>4. /\ Recorded(BatchReversalKey(b))'
          /\ journal'[BatchReversalKey(b)] = Mirror(journal[AllocationKey(p, b)])
      BY <3>3, <2>1, PostAppends, KeysAreKeys DEF TypeOK
    <3>5. \A q \in Payments : Recorded(AllocationKey(q, b)) <=> q = p
      BY <2>0, <2>b, <1>i DEF BatchOK
    <3>6. /\ \A q \in Payments : Recorded(AllocationKey(q, b))' <=> q = p
          /\ journal'[AllocationKey(p, b)] = journal[AllocationKey(p, b)]
      BY <3>5, <2>1, <2>4, <1>k, KeysAreKeys DEF GrowsAt
    <3>7. /\ Recorded(PostKey(p))'
          /\ \A t \in Touched(batch[b].lines) : Recorded(PostKey(t))' /\ Party[t] = Party[p]
      BY <2>0, <2>1, <2>b, <2>4, <1>i, KeysAreKeys DEF GrowsAt, Touched, Documents, BatchOK
    <3> QED BY <3>1, <3>2, <3>4, <3>6, <3>7, <2>1 DEF BatchOK
  <2>6. ASSUME NEW c \in Batches \ {b} PROVE BatchOK(c)'
    <3>1. batch'[c] = batch[c]
      BY <2>1, <1>t
    <3> QED BY <3>1, <2>3, <2>4, <1>i, <1>k, BatchFrame
  <2>7. \A q \in Payments : PaymentOK(q)'
    BY <2>3, <2>4, <1>i, <1>k, PaymentFrame
  <2> QED BY <2>5, <2>6, <2>7 DEF JournalsInv
<1>6. ASSUME NEW c \in Credits, NEW b \in Batches, NEW lines \in Lines,
             ApplyCredit(c, b, lines)
      PROVE  JournalsInv'
  <2>1. /\ batch[b] = NoBatch
        /\ Recorded(PostKey(c))
        /\ \A t \in Touched(lines) : Recorded(PostKey(t)) /\ Party[t] = Party[c]
        /\ batch' = [batch EXCEPT ![b] = NewBatch(c, lines)]
        /\ UNCHANGED <<pay, journal>>
    BY <1>6 DEF ApplyCredit, ValidTarget
  <2>2. c \notin Payments
    BY DisjointAssumption DEF Documents
  <2>3. \A k : Recorded(k)' <=> Recorded(k)
    BY <2>1 DEF Recorded
  <2>4. GrowsAt(PostKey(c))
    BY <2>1, PostGrows, KeysAreKeys DEF Documents
  <2>5. BatchOK(b)'
    <3>0. NewBatch(c, lines) \in BatchRow
      BY DEF NewBatch, BatchRow, Sources
    <3>1. /\ batch'[b] = [source |-> c, lines |-> lines, reversed |-> FALSE]
          /\ batch'[b] # NoBatch
      <4>1. batch'[b] = NewBatch(c, lines)
        BY <2>1, <1>t
      <4> QED BY <4>1, <3>0, NullAssumption DEF NewBatch
    <3>2. /\ ~Recorded(BatchReversalKey(b))
          /\ \A q \in Payments : ~Recorded(AllocationKey(q, b))
      BY <2>1, <1>i DEF BatchOK
    <3> QED BY <3>1, <3>2, <2>1, <2>2, <2>3 DEF BatchOK
  <2>6. ASSUME NEW d \in Batches \ {b} PROVE BatchOK(d)'
    <3>1. batch'[d] = batch[d]
      BY <2>1, <1>t
    <3> QED BY <3>1, <2>1, <2>4, <1>i, <1>k, BatchFrame
  <2>7. \A q \in Payments : PaymentOK(q)'
    BY <2>1, <2>4, <1>i, <1>k, PaymentFrame
  <2> QED BY <2>5, <2>6, <2>7 DEF JournalsInv
<1>7. ASSUME NEW b \in Batches, UnapplyCredit(b)
      PROVE  JournalsInv'
  <2> DEFINE c == batch[b].source
  <2>1. /\ Live(b)
        /\ c \in Credits /\ c \notin Payments
        /\ batch' = [batch EXCEPT ![b].reversed = TRUE]
        /\ UNCHANGED <<pay, journal>>
    BY <1>7, DisjointAssumption DEF UnapplyCredit, Documents
  <2>3. \A k : Recorded(k)' <=> Recorded(k)
    BY <2>1 DEF Recorded
  <2>4. GrowsAt(PostKey(c))
    BY <2>1, PostGrows, KeysAreKeys DEF Documents
  <2>5. BatchOK(b)'
    <3>1. /\ batch[b] # NoBatch
          /\ batch'[b].source = c /\ batch'[b].lines = batch[b].lines
          /\ batch'[b].reversed
          /\ batch'[b] \in BatchRow
      BY <2>1, <1>t DEF BatchRow, Live
    <3>2. batch'[b] # NoBatch
      BY <3>1, NullAssumption
    <3>3. BatchOK(b)
      BY <1>i
    <3> QED BY <3>1, <3>2, <3>3, <2>1, <2>3 DEF BatchOK
  <2>6. ASSUME NEW d \in Batches \ {b} PROVE BatchOK(d)'
    <3>1. batch'[d] = batch[d]
      BY <2>1, <1>t
    <3> QED BY <3>1, <2>1, <2>4, <1>i, <1>k, BatchFrame
  <2>7. \A q \in Payments : PaymentOK(q)'
    BY <2>1, <2>4, <1>i, <1>k, PaymentFrame
  <2> QED BY <2>5, <2>6, <2>7 DEF JournalsInv
<1>8. ASSUME NEW d \in Documents, UNCHANGED <<pay, batch>>, GrowsAt(PostKey(d))
      PROVE  JournalsInv'
  BY <1>8, <1>i, <1>k, BatchFrame, PaymentFrame DEF JournalsInv
<1>9. ASSUME NEW t \in Targets, PostInvoice(t) \/ PostBill(t)
      PROVE  JournalsInv'
  <2>1. t \in Documents /\ UNCHANGED <<pay, batch>>
    BY <1>9 DEF PostInvoice, PostBill, Documents
  <2>2. GrowsAt(PostKey(t))
    BY <1>9, <2>1, PostGrows, KeysAreKeys DEF PostInvoice, PostBill
  <2> QED BY <2>1, <2>2, <1>8
<1>10. ASSUME NEW c \in Credits, PostCreditNote(c) \/ PostDebitNote(c)
       PROVE  JournalsInv'
  <2>1. c \in Documents /\ UNCHANGED <<pay, batch>>
    BY <1>10 DEF PostCreditNote, PostDebitNote, Documents
  <2>2. GrowsAt(PostKey(c))
    BY <1>10, <2>1, PostGrows, KeysAreKeys DEF PostCreditNote, PostDebitNote
  <2> QED BY <2>1, <2>2, <1>8
<1>11. ASSUME NEW d \in Documents, LoadDocument(d)
       PROVE  JournalsInv'
  <2>1. UNCHANGED <<pay, batch>> /\ GrowsAt(PostKey(d))
    BY <1>11, PostGrows, KeysAreKeys DEF LoadDocument
  <2> QED BY <2>1, <1>8
<1>12. ASSUME UNCHANGED vars
       PROVE  JournalsInv'
  BY <1>12, <1>i DEF vars, JournalsInv, BatchOK, PaymentOK, Recorded
<1> QED
  BY <1>1, <1>2, <1>3, <1>4, <1>5, <1>6, <1>7, <1>9, <1>10, <1>11, <1>12 DEF Next

LEMMA JournalsAlways == Spec => [](RowsInv /\ JournalsInv)
<1>1. RowsInv => TypeOK
  BY DEF RowsInv
<1>2. Init => RowsInv /\ JournalsInv
  BY RowsInit, JournalsInit
<1>3. RowsInv /\ JournalsInv /\ [Next]_vars => (RowsInv /\ JournalsInv)'
  BY <1>1, RowsStep, JournalsStep
<1> QED BY <1>2, <1>3, PTL DEF Spec

\* No document is ever settled by a payment that was reversed, or by money or
\* against a debt the ledger does not hold.
THEOREM LiveMoneyAlways == Spec => []LiveBatchesHaveLiveMoney
<1>1. RowsInv /\ JournalsInv => LiveBatchesHaveLiveMoney
  BY DEF JournalsInv, BatchOK, LiveBatchesHaveLiveMoney, LiveBatches, Live
<1> QED BY <1>1, JournalsAlways, PTL

\* A reversed payment leaves the ledger as if it had never been received: every
\* journal it caused has its mirror beside it.
THEOREM ReversalsAlwaysCancel == Spec => []ReversedPaymentIsCancelled
<1>1. ASSUME RowsInv, JournalsInv, NEW p \in Payments, pay[p].reversed,
             NEW b \in Batches, Recorded(AllocationKey(p, b))
      PROVE  /\ Recorded(BatchReversalKey(b))
             /\ journal[BatchReversalKey(b)] = Mirror(journal[AllocationKey(p, b)])
  <2>1. BatchOK(b)
    BY <1>1 DEF JournalsInv
  <2>2. batch[b] # NoBatch /\ p = batch[b].source
    BY <1>1, <2>1 DEF BatchOK
  <2>3. batch[b].reversed
    BY <1>1, <2>1, <2>2 DEF BatchOK
  <2> QED BY <1>1, <2>1, <2>2, <2>3 DEF BatchOK
<1>2. RowsInv /\ JournalsInv => ReversedPaymentIsCancelled
  BY <1>1 DEF JournalsInv, PaymentOK, ReversedPaymentIsCancelled
<1> QED BY <1>2, JournalsAlways, PTL

-----------------------------------------------------------------------------
(* The totals.                                                            *)

LEMMA TablesAreFinite ==
  /\ IsFiniteSet(Payments) /\ IsFiniteSet(Targets) /\ IsFiniteSet(Credits)
  /\ IsFiniteSet(Batches) /\ IsFiniteSet(Sources)
BY FiniteAssumption, FS_Union DEF Sources

\* What one batch settles of a document, and what it draws from its source:
\* nothing unless it is live and its source is meant.
Share(t, kind) ==
  [b \in Batches |-> IF b \in LiveBatchesBy(kind) THEN batch[b].lines[t] ELSE 0]
Drawn(s) ==
  [b \in Batches |-> IF b \in LiveBatchesOf(s) THEN BatchTotal(batch[b].lines) ELSE 0]

LEMMA BatchTotalIsNumber ==
  ASSUME NEW lines \in Lines
  PROVE  BatchTotal(lines) \in Nat
BY TablesAreFinite, LinesAreNumbers, SumNat DEF BatchTotal

LEMMA LiveLines ==
  ASSUME TypeOK, NEW b \in Batches, Live(b)
  PROVE  batch[b].lines \in Lines /\ batch[b].source \in Sources /\ batch[b].reversed = FALSE
BY DEF TypeOK, Live, BatchRow

LEMMA SharesAreNumbers ==
  ASSUME TypeOK, NEW b \in Batches
  PROVE  /\ \A t \in Targets : \A kind : Share(t, kind)[b] \in Nat
         /\ \A s : Drawn(s)[b] \in Nat
BY LiveLines, LinesAreNumbers, BatchTotalIsNumber
   DEF Share, Drawn, LiveBatchesBy, LiveBatches, LiveBatchesOf

LEMMA AppliedToIsShared ==
  TypeOK => \A t \in Targets : \A kind :
    /\ AppliedTo(t, kind) = SumFunctionOnSet(Share(t, kind), Batches)
    /\ AppliedTo(t, kind) \in Nat
<1> SUFFICES ASSUME TypeOK, NEW t \in Targets, NEW kind
             PROVE  /\ AppliedTo(t, kind) = SumFunctionOnSet(Share(t, kind), Batches)
                    /\ AppliedTo(t, kind) \in Nat
  OBVIOUS
<1> DEFINE R == LiveBatchesBy(kind)
           f == [b \in R |-> batch[b].lines[t]]
           g == Share(t, kind)
<1>1. R \in SUBSET Batches
  BY DEF LiveBatchesBy, LiveBatches
<1>2. \A b \in Batches : g[b] \in Nat
  BY SharesAreNumbers
<1>3. /\ \A b \in R : g[b] = f[b] /\ f[b] \in Int
      /\ \A b \in Batches \ R : g[b] = 0
  BY <1>1, <1>2 DEF Share
<1>4. AppliedTo(t, kind) = SumFunctionOnSet(f, R)
  BY DEF AppliedTo, SumOver
<1> HIDE DEF R, f, g
<1>5. SumFunctionOnSet(g, Batches) = SumFunctionOnSet(f, R)
  BY <1>1, <1>3, TablesAreFinite, SumSupport
<1>6. SumFunctionOnSet(g, Batches) \in Nat
  BY <1>2, TablesAreFinite, SumNat
<1> QED BY <1>4, <1>5, <1>6 DEF g

LEMMA AppliedFromIsDrawn ==
  TypeOK => \A s : /\ AppliedFrom(s) = SumFunctionOnSet(Drawn(s), Batches)
                   /\ AppliedFrom(s) \in Nat
<1> SUFFICES ASSUME TypeOK, NEW s
             PROVE  /\ AppliedFrom(s) = SumFunctionOnSet(Drawn(s), Batches)
                    /\ AppliedFrom(s) \in Nat
  OBVIOUS
<1> DEFINE R == LiveBatchesOf(s)
           f == [b \in R |-> BatchTotal(batch[b].lines)]
           g == Drawn(s)
<1>1. R \in SUBSET Batches
  BY DEF LiveBatchesOf
<1>2. \A b \in Batches : g[b] \in Nat
  BY SharesAreNumbers
<1>3. /\ \A b \in R : g[b] = f[b] /\ f[b] \in Int
      /\ \A b \in Batches \ R : g[b] = 0
  BY <1>1, <1>2 DEF Drawn
<1>4. AppliedFrom(s) = SumFunctionOnSet(f, R)
  BY DEF AppliedFrom, SumOver
<1> HIDE DEF R, f, g
<1>5. SumFunctionOnSet(g, Batches) = SumFunctionOnSet(f, R)
  BY <1>1, <1>3, TablesAreFinite, SumSupport
<1>6. SumFunctionOnSet(g, Batches) \in Nat
  BY <1>2, TablesAreFinite, SumNat
<1> QED BY <1>4, <1>5, <1>6 DEF g

\* The same in the state after a step.
LEMMA SharedAfter ==
  TypeOK' =>
    /\ \A t \in Targets : \A kind :
         /\ AppliedTo(t, kind)' = SumFunctionOnSet(Share(t, kind)', Batches)
         /\ AppliedTo(t, kind)' \in Nat
    /\ \A s : /\ AppliedFrom(s)' = SumFunctionOnSet(Drawn(s)', Batches)
              /\ AppliedFrom(s)' \in Nat
<1>1. (TypeOK => \A t \in Targets : \A kind :
         /\ AppliedTo(t, kind) = SumFunctionOnSet(Share(t, kind), Batches)
         /\ AppliedTo(t, kind) \in Nat)'
  BY AppliedToIsShared, PTL
<1>2. (TypeOK => \A s : /\ AppliedFrom(s) = SumFunctionOnSet(Drawn(s), Batches)
                        /\ AppliedFrom(s) \in Nat)'
  BY AppliedFromIsDrawn, PTL
<1> QED BY <1>1, <1>2

\* A new batch adds its lines to the totals of its source and of its targets.
LEMMA BatchOpens ==
  ASSUME TypeOK, TypeOK', NEW b \in Batches, batch[b] = NoBatch,
         NEW s \in Sources, NEW lines \in Lines,
         batch' = [batch EXCEPT ![b] = NewBatch(s, lines)]
  PROVE  /\ \A t \in Targets : \A kind :
              AppliedTo(t, kind)' = AppliedTo(t, kind) + IF s \in kind THEN lines[t] ELSE 0
         /\ \A q : AppliedFrom(q)' =
              AppliedFrom(q) + IF q = s THEN BatchTotal(lines) ELSE 0
<1>1. /\ ~Live(b)
      /\ batch'[b] = NewBatch(s, lines)
      /\ \A c \in Batches \ {b} : batch'[c] = batch[c]
  BY DEF Live, TypeOK
<1>2. NewBatch(s, lines) # NoBatch
  <2>1. NewBatch(s, lines) \in BatchRow
    BY DEF NewBatch, BatchRow
  <2> QED BY <2>1, NullAssumption
<1>3. Live(b)'
  BY <1>1, <1>2 DEF Live, NewBatch
<1>4. \A c \in Batches \ {b} : Live(c)' <=> Live(c)
  BY <1>1 DEF Live
<1>5. ASSUME NEW t \in Targets, NEW kind
      PROVE  AppliedTo(t, kind)' = AppliedTo(t, kind) + IF s \in kind THEN lines[t] ELSE 0
  <2> DEFINE f == Share(t, kind)
             g == Share(t, kind)'
  <2>1. \A c \in Batches \ {b} : g[c] = f[c]
    BY <1>1, <1>4 DEF Share, LiveBatchesBy, LiveBatches
  <2>2. f[b] = 0 /\ g[b] = IF s \in kind THEN lines[t] ELSE 0
    BY <1>1, <1>3 DEF Share, LiveBatchesBy, LiveBatches, NewBatch
  <2>3. (\A c \in Batches : f[c] \in Int) /\ f[b] \in Int /\ g[b] \in Int
    <3>1. \A c \in Batches : f[c] \in Nat
      BY SharesAreNumbers
    <3> QED BY <2>2, <3>1, LinesAreNumbers
  <2>4. AppliedTo(t, kind) = SumFunctionOnSet(f, Batches) /\ AppliedTo(t, kind) \in Nat
    BY AppliedToIsShared
  <2>5. AppliedTo(t, kind)' = SumFunctionOnSet(g, Batches)
    BY SharedAfter
  <2> HIDE DEF f, g
  <2>6. SumFunctionOnSet(g, Batches) = SumFunctionOnSet(f, Batches) + (g[b] - f[b])
    BY <2>1, <2>3, TablesAreFinite, SumChange
  <2> QED BY <2>2, <2>3, <2>4, <2>5, <2>6
<1>6. ASSUME NEW q
      PROVE  AppliedFrom(q)' = AppliedFrom(q) + IF q = s THEN BatchTotal(lines) ELSE 0
  <2> DEFINE f == Drawn(q)
             g == Drawn(q)'
  <2>1. \A c \in Batches \ {b} : g[c] = f[c]
    BY <1>1, <1>4 DEF Drawn, LiveBatchesOf
  <2>2. f[b] = 0 /\ g[b] = IF q = s THEN BatchTotal(lines) ELSE 0
    BY <1>1, <1>3 DEF Drawn, LiveBatchesOf, NewBatch
  <2>3. (\A c \in Batches : f[c] \in Int) /\ f[b] \in Int /\ g[b] \in Int
    <3>1. \A c \in Batches : f[c] \in Nat
      BY SharesAreNumbers
    <3> QED BY <2>2, <3>1, BatchTotalIsNumber
  <2>4. AppliedFrom(q) = SumFunctionOnSet(f, Batches) /\ AppliedFrom(q) \in Nat
    BY AppliedFromIsDrawn
  <2>5. AppliedFrom(q)' = SumFunctionOnSet(g, Batches)
    BY SharedAfter
  <2> HIDE DEF f, g
  <2>6. SumFunctionOnSet(g, Batches) = SumFunctionOnSet(f, Batches) + (g[b] - f[b])
    BY <2>1, <2>3, TablesAreFinite, SumChange
  <2> QED BY <2>2, <2>3, <2>4, <2>5, <2>6
<1> QED BY <1>5, <1>6

\* A batch that is reversed takes them back.
LEMMA BatchCloses ==
  ASSUME TypeOK, TypeOK', NEW b \in Batches, Live(b),
         batch' = [batch EXCEPT ![b].reversed = TRUE]
  PROVE  /\ \A t \in Targets : \A kind :
              /\ AppliedTo(t, kind)' = AppliedTo(t, kind)
                   - IF batch[b].source \in kind THEN batch[b].lines[t] ELSE 0
              /\ batch[b].source \in kind => batch[b].lines[t] <= AppliedTo(t, kind)
         /\ \A q : AppliedFrom(q)' = AppliedFrom(q)
              - IF q = batch[b].source THEN BatchTotal(batch[b].lines) ELSE 0
<1> DEFINE s == batch[b].source
           lines == batch[b].lines
<1>1. lines \in Lines /\ s \in Sources
  BY LiveLines
<1>2. /\ ~Live(b)'
      /\ \A c \in Batches \ {b} : batch'[c] = batch[c]
  <2>1. batch[b] \in BatchRow
    BY DEF TypeOK, Live
  <2>2. batch'[b].reversed = TRUE
    BY <2>1 DEF TypeOK, BatchRow
  <2> QED BY <2>2 DEF Live, TypeOK
<1>3. \A c \in Batches \ {b} : Live(c)' <=> Live(c)
  BY <1>2 DEF Live
<1>4. ASSUME NEW t \in Targets, NEW kind
      PROVE  /\ AppliedTo(t, kind)' = AppliedTo(t, kind) - IF s \in kind THEN lines[t] ELSE 0
             /\ s \in kind => lines[t] <= AppliedTo(t, kind)
  <2> DEFINE f == Share(t, kind)
             g == Share(t, kind)'
  <2>1. \A c \in Batches \ {b} : g[c] = f[c]
    BY <1>2, <1>3 DEF Share, LiveBatchesBy, LiveBatches
  <2>2. g[b] = 0 /\ f[b] = IF s \in kind THEN lines[t] ELSE 0
    BY <1>2 DEF Share, LiveBatchesBy, LiveBatches
  <2>3. \A c \in Batches : f[c] \in Nat /\ f[c] \in Int
    <3>1. \A c \in Batches : f[c] \in Nat
      BY SharesAreNumbers
    <3> QED BY <3>1
  <2>4. AppliedTo(t, kind) = SumFunctionOnSet(f, Batches) /\ AppliedTo(t, kind) \in Nat
    BY AppliedToIsShared
  <2>5. AppliedTo(t, kind)' = SumFunctionOnSet(g, Batches)
    BY SharedAfter
  <2> HIDE DEF f, g
  <2>6. SumFunctionOnSet(g, Batches) = SumFunctionOnSet(f, Batches) + (g[b] - f[b])
    <3>1. g[b] \in Int /\ \A c \in Batches : f[c] \in Int
      BY <2>2, <2>3
    <3> QED BY <2>1, <3>1, TablesAreFinite, SumChange
  <2>7. f[b] <= SumFunctionOnSet(f, Batches)
    BY <2>3, TablesAreFinite, SumBounds
  <2> HIDE DEF s, lines
  <2>8. f[b] \in Nat
    BY <2>3
  <2> QED BY <2>2, <2>4, <2>5, <2>6, <2>7, <2>8
<1>5. ASSUME NEW q
      PROVE  AppliedFrom(q)' = AppliedFrom(q) - IF q = s THEN BatchTotal(lines) ELSE 0
  <2> DEFINE f == Drawn(q)
             g == Drawn(q)'
  <2>1. \A c \in Batches \ {b} : g[c] = f[c]
    BY <1>2, <1>3 DEF Drawn, LiveBatchesOf
  <2>2. g[b] = 0 /\ f[b] = IF q = s THEN BatchTotal(lines) ELSE 0
    BY <1>2 DEF Drawn, LiveBatchesOf
  <2>3. \A c \in Batches : f[c] \in Nat /\ f[c] \in Int
    <3>1. \A c \in Batches : f[c] \in Nat
      BY SharesAreNumbers
    <3> QED BY <3>1
  <2>4. AppliedFrom(q) = SumFunctionOnSet(f, Batches) /\ AppliedFrom(q) \in Nat
    BY AppliedFromIsDrawn
  <2>5. AppliedFrom(q)' = SumFunctionOnSet(g, Batches)
    BY SharedAfter
  <2> HIDE DEF f, g
  <2>6. SumFunctionOnSet(g, Batches) = SumFunctionOnSet(f, Batches) + (g[b] - f[b])
    <3>1. g[b] \in Int /\ \A c \in Batches : f[c] \in Int
      BY <2>2, <2>3
    <3> QED BY <2>1, <3>1, TablesAreFinite, SumChange
  <2> HIDE DEF s, lines
  <2>7. f[b] \in Nat
    BY <2>3
  <2> QED BY <2>2, <2>4, <2>5, <2>6, <2>7
<1> QED BY <1>4, <1>5

LEMMA BatchesStay ==
  ASSUME batch' = batch
  PROVE  /\ \A t \in Targets : \A kind : AppliedTo(t, kind)' = AppliedTo(t, kind)
         /\ \A s : AppliedFrom(s)' = AppliedFrom(s)
BY DEF AppliedTo, AppliedFrom, SumOver, LiveBatchesBy, LiveBatches, LiveBatchesOf, Live

-----------------------------------------------------------------------------
(* The columns are the sums of the rows.  This is inductive only together  *)
(* with what the bounds and the statuses say, and with what the ledger     *)
(* holds: a draft may be replaced because nothing was drawn from it, and a *)
(* bill is posted over because no live row can name it yet.                *)

PaymentTotals(p) ==
  /\ pay[p].allocated = AppliedFrom(p)
  /\ pay[p].amount \in PaymentAmounts
  /\ pay[p].status = "UNPOSTED" => pay[p].allocated = 0
  /\ pay[p].status \in {"POSTED", "PARTIAL", "COMPLETED"} =>
       pay[p].status = StatusFor(pay[p].unallocated, pay[p].allocated)
CreditTotals(c) == credit[c].allocated = AppliedFrom(c)
DocTotals(t) ==
  /\ doc[t].allocated = AppliedTo(t, Payments)
  /\ doc[t].credited = AppliedTo(t, Credits)
  /\ doc[t].open \in 0 .. Total[t]
  /\ doc[t].status = "COMPLETED" => doc[t].open = 0
  /\ doc[t].status = "PARTIAL" => doc[t].open \in 1 .. Total[t] - 1

TotalsInv ==
  /\ \A p \in Payments : PaymentTotals(p)
  /\ \A c \in Credits : CreditTotals(c)
  /\ \A t \in Targets : DocTotals(t)

LEMMA TotalsAreColumns ==
  RowsInv /\ TotalsInv => ColumnsFollowRows
<1> SUFFICES ASSUME RowsInv, TotalsInv PROVE ColumnsFollowRows
  OBVIOUS
<1>1. TypeOK /\ RemaindersAreDerived
  BY DEF RowsInv
<1>2. \A t \in Targets :
        /\ AppliedTo(t, Payments) \in Nat
        /\ AppliedTo(t, Credits) \in Nat
  BY <1>1, AppliedToIsShared
<1>3. BalancesMatchRows
  BY DEF TotalsInv, PaymentTotals, CreditTotals, DocTotals, BalancesMatchRows
<1>4. NothingOverSettled
  <2> SUFFICES ASSUME NEW t \in Targets
               PROVE  /\ doc[t].allocated \in 0 .. Total[t]
                      /\ doc[t].credited \in 0 .. Total[t]
                      /\ doc[t].open \in 0 .. Total[t]
    BY DEF NothingOverSettled
  <2>1. Total[t] \in Nat
    BY AmountAssumption DEF Documents
  <2>2. /\ doc[t].allocated \in Nat
        /\ doc[t].credited \in Nat
        /\ doc[t].open \in 0 .. Total[t]
    BY <1>2 DEF TotalsInv, DocTotals
  <2>3. doc[t].open = Total[t] - doc[t].allocated - doc[t].credited
    BY <1>1 DEF RemaindersAreDerived
  <2> QED BY <2>1, <2>2, <2>3
<1>5. StatusTellsRemainder
  BY DEF TotalsInv, PaymentTotals, DocTotals, StatusTellsRemainder
<1> QED BY <1>1, <1>3, <1>4, <1>5 DEF ColumnsFollowRows

LEMMA TotalsInit == Init => TotalsInv
<1> SUFFICES ASSUME Init PROVE TotalsInv
  OBVIOUS
<1>1. TypeOK
  BY RowsInit DEF RowsInv
<1>2. \A b \in Batches : ~Live(b)
  BY DEF Init, Live
<1>3. /\ \A t \in Targets : \A kind : \A b \in Batches : Share(t, kind)[b] = 0
      /\ \A s : \A b \in Batches : Drawn(s)[b] = 0
  BY <1>2 DEF Share, Drawn, LiveBatchesBy, LiveBatches, LiveBatchesOf
<1>4. /\ \A t \in Targets : \A kind : SumFunctionOnSet(Share(t, kind), Batches) = 0
      /\ \A s : SumFunctionOnSet(Drawn(s), Batches) = 0
  BY <1>3, TablesAreFinite, SumOfZeros
<1>5. /\ \A t \in Targets : \A kind : AppliedTo(t, kind) = 0
      /\ \A s : AppliedFrom(s) = 0
  BY <1>1, <1>4, AppliedToIsShared, AppliedFromIsDrawn
<1>6. ASSUME NEW p \in Payments PROVE PaymentTotals(p)
  <2>1. PICK a \in PaymentAmounts : pay[p] = Draft(a, 0)
    BY DEF Init
  <2> QED BY <2>1, <1>5 DEF PaymentTotals, Draft
<1>7. ASSUME NEW c \in Credits PROVE CreditTotals(c)
  BY <1>5 DEF Init, CreditTotals
<1>8. ASSUME NEW t \in Targets PROVE DocTotals(t)
  <2>1. Total[t] \in Nat
    BY AmountAssumption DEF Documents
  <2> QED BY <2>1, <1>5 DEF Init, DocTotals
<1> QED BY <1>6, <1>7, <1>8 DEF TotalsInv

\* Settling documents, or taking back what settled them, moves one column of
\* each by what the rows of that kind move, and stays within the bounds.
LEMMA DocsFollow ==
  ASSUME TypeOK, TypeOK', RemaindersAreDerived, TotalsInv,
         NEW s \in Sources, NEW lines \in Lines, NEW sign \in {1, -1},
         doc' = SettledDocs(s, lines, sign),
         \A t \in Targets : \A kind :
           AppliedTo(t, kind)' = AppliedTo(t, kind) + IF s \in kind THEN sign * lines[t] ELSE 0,
         sign = 1 => \A t \in Touched(lines) : lines[t] <= doc[t].open
  PROVE  \A t \in Targets : DocTotals(t)'
<1> SUFFICES ASSUME NEW t \in Targets PROVE DocTotals(t)'
  OBVIOUS
<1> DEFINE al == doc[t].allocated
           cr == doc[t].credited
           n  == lines[t]
<1>1. n \in Nat /\ Total[t] \in Nat /\ sign \in Int
  BY LinesAreNumbers, AmountAssumption DEF Documents
<1>2. /\ al = AppliedTo(t, Payments) /\ al \in Nat
      /\ cr = AppliedTo(t, Credits) /\ cr \in Nat
      /\ doc[t].open \in 0 .. Total[t]
      /\ doc[t].open = Total[t] - al - cr
  BY AppliedToIsShared DEF TotalsInv, DocTotals, RemaindersAreDerived
<1>3. /\ s \in Payments => s \notin Credits
      /\ s \notin Payments => s \in Credits
  BY DisjointAssumption DEF Sources, Documents
<1>4. CASE t \notin Touched(lines)
  <2>1. doc'[t] = doc[t] /\ n = 0
    BY <1>1, <1>4 DEF SettledDocs, Touched
  <2>2. sign * n = 0
    BY <1>1, <2>1
  <2>3. AppliedTo(t, Payments)' = al /\ AppliedTo(t, Credits)' = cr
    BY <1>2, <2>2
  <2> QED BY <2>1, <2>3 DEF TotalsInv, DocTotals
<1>5. CASE t \in Touched(lines)
  <2> DEFINE al2 == IF s \in Payments THEN al + sign * n ELSE al
             cr2 == IF s \in Payments THEN cr ELSE cr + sign * n
             open2 == Total[t] - al2 - cr2
  <2>1. doc'[t] = DocWith(t, al2, cr2)
    BY <1>5 DEF SettledDocs
  <2>2. al2 = AppliedTo(t, Payments)' /\ cr2 = AppliedTo(t, Credits)'
    BY <1>1, <1>2, <1>3
  <2>3. al2 \in Nat /\ cr2 \in Nat
    <3>1. AppliedTo(t, Payments)' \in Nat /\ AppliedTo(t, Credits)' \in Nat
      BY SharedAfter
    <3> QED BY <2>2, <3>1
  <2>4. open2 \in 0 .. Total[t]
    <3>1. CASE sign = 1
      <4>1. n <= doc[t].open
        BY <1>5, <3>1
      <4>2. open2 = doc[t].open - n
        BY <1>1, <1>2, <3>1
      <4> QED BY <1>1, <1>2, <4>1, <4>2
    <3>2. CASE sign = -1
      <4>1. open2 = doc[t].open + n
        BY <1>1, <1>2, <3>2
      <4> QED BY <1>1, <1>2, <2>3, <4>1
    <3> QED BY <3>1, <3>2
  <2>5. /\ doc'[t].allocated = al2 /\ doc'[t].credited = cr2 /\ doc'[t].open = open2
        /\ doc'[t].status = StatusFor(open2, al2 + cr2)
    BY <2>1 DEF DocWith
  <2>6. open2 = Total[t] - al2 - cr2
    OBVIOUS
  <2> HIDE DEF al2, cr2, open2
  <2> QED BY <1>1, <2>2, <2>3, <2>4, <2>5, <2>6 DEF DocTotals, StatusFor
<1> QED BY <1>4, <1>5

LEMMA RowReplaced ==
  ASSUME TypeOK, NEW p \in Payments, NEW row, pay' = [pay EXCEPT ![p] = row]
  PROVE  pay'[p] = row /\ \A q \in Payments \ {p} : pay'[q] = pay[q]
BY DEF TypeOK

\* A payment no step touches keeps its totals while its batches stay.
LEMMA OthersStay ==
  ASSUME TotalsInv
  PROVE  /\ \A p \in Payments : pay'[p] = pay[p] /\ AppliedFrom(p)' = AppliedFrom(p)
              => PaymentTotals(p)'
         /\ \A c \in Credits : credit'[c] = credit[c] /\ AppliedFrom(c)' = AppliedFrom(c)
              => CreditTotals(c)'
         /\ \A t \in Targets : doc'[t] = doc[t] /\ batch' = batch => DocTotals(t)'
BY BatchesStay DEF TotalsInv, PaymentTotals, CreditTotals, DocTotals

LEMMA TotalsStep ==
  RowsInv /\ RowsInv' /\ JournalsInv /\ TotalsInv /\ [Next]_vars => TotalsInv'
<1> SUFFICES ASSUME TypeOK, RemaindersAreDerived, TypeOK', RemaindersAreDerived',
                    JournalsInv, TotalsInv, [Next]_vars
             PROVE  TotalsInv'
  BY DEF RowsInv
<1>t. /\ pay \in [Payments -> PaymentRow]
      /\ doc \in [Targets -> DocRow]
      /\ credit \in [Credits -> CreditRow]
      /\ batch \in [Batches -> BatchRow \cup {NoBatch}]
  BY DEF TypeOK
<1>a. \A p \in Payments : /\ AppliedFrom(p) = pay[p].allocated
                          /\ pay[p].allocated \in Nat
                          /\ pay[p].amount \in PaymentAmounts
                          /\ pay[p].amount \in Nat \ {0}
  BY <1>t, AmountAssumption DEF TotalsInv, PaymentTotals, PaymentRow
<1>1. ASSUME NEW p \in Payments, NEW amount \in PaymentAmounts, NEW fee \in Fees,
             UpdateDraftPayment(p, amount, fee)
      PROVE  TotalsInv'
  <2>1. /\ pay'[p] = Draft(amount, fee)
        /\ \A q \in Payments \ {p} : pay'[q] = pay[q]
        /\ UNCHANGED <<doc, credit, batch>>
    BY <1>1, RowReplaced DEF UpdateDraftPayment
  <2>2. AppliedFrom(p)' = 0
    BY <1>1, <1>a, <2>1, BatchesStay DEF UpdateDraftPayment, TotalsInv, PaymentTotals
  <2>3. PaymentTotals(p)'
    BY <2>1, <2>2 DEF PaymentTotals, Draft
  <2> QED BY <2>1, <2>3, OthersStay, BatchesStay DEF TotalsInv
<1>2. ASSUME NEW p \in Payments, PostPayment(p)
      PROVE  TotalsInv'
  <2> DEFINE row == [pay[p] EXCEPT !.status = "POSTED"]
  <2>1. /\ pay'[p] = row
        /\ \A q \in Payments \ {p} : pay'[q] = pay[q]
        /\ UNCHANGED <<doc, credit, batch>>
        /\ pay[p].allocated = 0 /\ pay[p].unallocated = pay[p].amount
    BY <1>2, <1>t DEF PostPayment
  <2>2. /\ row.status = "POSTED" /\ row.allocated = 0
        /\ row.amount = pay[p].amount /\ row.unallocated = pay[p].amount
    BY <1>t, <2>1 DEF PaymentRow
  <2> HIDE DEF row
  <2>3. StatusFor(pay[p].amount, 0) = "POSTED"
    BY <1>a DEF StatusFor
  <2>4. PaymentTotals(p)'
    BY <1>a, <2>1, <2>2, <2>3, BatchesStay DEF PaymentTotals
  <2> QED BY <2>1, <2>4, OthersStay, BatchesStay DEF TotalsInv
<1>3. ASSUME NEW p \in Payments, ReversePayment(p)
      PROVE  TotalsInv'
  <2> DEFINE row == [pay[p] EXCEPT !.reversed = TRUE, !.status = "REVERSED"]
  <2>1. /\ pay'[p] = row
        /\ \A q \in Payments \ {p} : pay'[q] = pay[q]
        /\ UNCHANGED <<doc, credit, batch>>
    BY <1>3, <1>t DEF ReversePayment
  <2>2. /\ row.status = "REVERSED" /\ row.allocated = pay[p].allocated
        /\ row.amount = pay[p].amount
    BY <1>t DEF PaymentRow
  <2> HIDE DEF row
  <2>3. PaymentTotals(p)'
    BY <1>a, <2>1, <2>2, BatchesStay DEF PaymentTotals
  <2> QED BY <2>1, <2>3, OthersStay, BatchesStay DEF TotalsInv
<1>4. ASSUME NEW p \in Payments, NEW b \in Batches, NEW lines \in Lines,
             AllocatePayment(p, b, lines)
      PROVE  TotalsInv'
  <2> DEFINE total == BatchTotal(lines)
             row == PaymentWith(pay[p], pay[p].allocated + total)
  <2>0. PICK n \in 1 .. Spendable(p) :
          /\ n = total
          /\ pay' = [pay EXCEPT ![p] = PaymentWith(@, @.allocated + n)]
    BY <1>4 DEF AllocatePayment
  <2>1. /\ pay'[p] = row
        /\ \A q \in Payments \ {p} : pay'[q] = pay[q]
        /\ credit' = credit
        /\ batch[b] = NoBatch
        /\ batch' = [batch EXCEPT ![b] = NewBatch(p, lines)]
        /\ doc' = SettledDocs(p, lines, 1)
        /\ p \in Sources
    BY <1>4, <1>t, <2>0 DEF AllocatePayment, Sources
  <2>2. total \in Nat
    BY BatchTotalIsNumber
  <2>3. /\ row.allocated = pay[p].allocated + total
        /\ row.amount = pay[p].amount
        /\ row.status = StatusFor(row.unallocated, row.allocated)
    BY <1>t DEF PaymentWith, PaymentRow
  <2>4. row.status # "UNPOSTED"
    BY <2>3, StatusForIsStatus
  <2>5. /\ \A t \in Targets : \A kind :
             AppliedTo(t, kind)' = AppliedTo(t, kind) + IF p \in kind THEN lines[t] ELSE 0
        /\ \A q : AppliedFrom(q)' = AppliedFrom(q) + IF q = p THEN total ELSE 0
    BY <2>1, BatchOpens
  <2>6. \A q : AppliedFrom(q) \in Nat
    BY AppliedFromIsDrawn
  <2> HIDE DEF total, row
  <2>7. AppliedFrom(p)' = pay[p].allocated + total
    BY <1>a, <2>5
  <2>8. PaymentTotals(p)'
    BY <1>a, <2>1, <2>3, <2>4, <2>7 DEF PaymentTotals
  <2>9. \A q \in Sources \ {p} : AppliedFrom(q)' = AppliedFrom(q)
    BY <2>5, <2>6
  <2>10. \A c \in Credits : c \in Sources \ {p}
    BY DisjointAssumption DEF Sources, Documents
  <2>11. \A t \in Targets : DocTotals(t)'
    <3>1. \A t \in Targets : 1 * lines[t] = lines[t]
      BY LinesAreNumbers
    <3>2. \A t \in Targets : \A kind :
            AppliedTo(t, kind)' = AppliedTo(t, kind) + IF p \in kind THEN 1 * lines[t] ELSE 0
      BY <2>5, <3>1
    <3>3. \A t \in Touched(lines) : lines[t] <= doc[t].open
      BY <1>4 DEF AllocatePayment, ValidTarget
    <3> QED BY <2>1, <3>2, <3>3, DocsFollow
  <2> QED BY <2>1, <2>8, <2>9, <2>10, <2>11, OthersStay DEF TotalsInv, Sources
<1>5. ASSUME NEW b \in Batches, UnapplyPayment(b)
      PROVE  TotalsInv'
  <2> SUFFICES ASSUME NEW p, p = batch[b].source, NEW lines, lines = batch[b].lines
               PROVE  TotalsInv'
    OBVIOUS
  <2> DEFINE total == BatchTotal(lines)
             row == PaymentWith(pay[p], pay[p].allocated - total)
  <2>0. PICK n \in 0 .. pay[p].allocated :
          /\ n = total
          /\ pay' = [pay EXCEPT ![p] = PaymentWith(@, @.allocated - n)]
    BY <1>5 DEF UnapplyPayment
  <2>1. /\ Live(b) /\ p \in Payments
        /\ credit' = credit
        /\ batch' = [batch EXCEPT ![b].reversed = TRUE]
        /\ doc' = SettledDocs(p, lines, -1)
    BY <1>5 DEF UnapplyPayment
  <2>2. /\ pay'[p] = row
        /\ \A q \in Payments \ {p} : pay'[q] = pay[q]
        /\ lines \in Lines /\ p \in Sources
    BY <1>t, <2>0, <2>1, LiveLines
  <2>3. /\ row.allocated = pay[p].allocated - total
        /\ row.amount = pay[p].amount
        /\ row.status = StatusFor(row.unallocated, row.allocated)
    BY <1>t, <2>1 DEF PaymentWith, PaymentRow
  <2>4. row.status # "UNPOSTED"
    BY <2>3, StatusForIsStatus
  <2>5. /\ \A t \in Targets : \A kind :
             AppliedTo(t, kind)' = AppliedTo(t, kind) - IF p \in kind THEN lines[t] ELSE 0
        /\ \A q : AppliedFrom(q)' = AppliedFrom(q) - IF q = p THEN total ELSE 0
    BY <2>1, BatchCloses
  <2>6. /\ \A q : AppliedFrom(q) \in Nat
        /\ \A t \in Targets : \A kind : AppliedTo(t, kind) \in Nat
    BY AppliedFromIsDrawn, AppliedToIsShared
  <2>w. total \in Nat /\ \A t \in Targets : lines[t] \in Nat
    BY <2>2, LinesAreNumbers, BatchTotalIsNumber
  <2> HIDE DEF total, row
  <2>7. AppliedFrom(p)' = pay[p].allocated - total
    BY <1>a, <2>1, <2>5, <2>w
  <2>8. PaymentTotals(p)'
    BY <1>a, <2>1, <2>2, <2>3, <2>4, <2>7 DEF PaymentTotals
  <2>9. \A q \in Sources \ {p} : AppliedFrom(q)' = AppliedFrom(q)
    BY <2>5, <2>6
  <2>10. \A c \in Credits : c \in Sources \ {p}
    BY <2>1, DisjointAssumption DEF Sources, Documents
  <2>11. \A t \in Targets : DocTotals(t)'
    <3>1. \A t \in Targets : \A kind :
            AppliedTo(t, kind)' = AppliedTo(t, kind) + IF p \in kind THEN (-1) * lines[t] ELSE 0
      BY <2>5, <2>6, <2>w
    <3> QED BY <2>1, <2>2, <3>1, DocsFollow
  <2>12. \A q \in Payments \ {p} : PaymentTotals(q)'
    BY <2>2, <2>9, OthersStay DEF Sources
  <2>13. \A c \in Credits : CreditTotals(c)'
    BY <2>1, <2>9, <2>10, OthersStay
  <2> QED BY <2>8, <2>11, <2>12, <2>13 DEF TotalsInv
<1>6. ASSUME NEW c \in Credits, NEW b \in Batches, NEW lines \in Lines,
             ApplyCredit(c, b, lines)
      PROVE  TotalsInv'
  <2> DEFINE total == BatchTotal(lines)
  <2>0. PICK n \in 1 .. credit[c].open :
          /\ n = total
          /\ credit' = [credit EXCEPT ![c] = CreditWith(c, @.allocated + n)]
    BY <1>6 DEF ApplyCredit
  <2>1. /\ credit'[c].allocated = credit[c].allocated + total
        /\ \A d \in Credits \ {c} : credit'[d] = credit[d]
        /\ pay' = pay
        /\ batch[b] = NoBatch
        /\ batch' = [batch EXCEPT ![b] = NewBatch(c, lines)]
        /\ doc' = SettledDocs(c, lines, 1)
        /\ c \in Sources
    BY <1>6, <1>t, <2>0 DEF ApplyCredit, CreditWith, Sources
  <2>2. /\ \A t \in Targets : \A kind :
             AppliedTo(t, kind)' = AppliedTo(t, kind) + IF c \in kind THEN lines[t] ELSE 0
        /\ \A q : AppliedFrom(q)' = AppliedFrom(q) + IF q = c THEN total ELSE 0
    BY <2>1, BatchOpens
  <2>3. \A q : AppliedFrom(q) \in Nat
    BY AppliedFromIsDrawn
  <2> HIDE DEF total
  <2>4. CreditTotals(c)'
    BY <2>1, <2>2 DEF CreditTotals, TotalsInv
  <2>5. \A q \in Sources \ {c} : AppliedFrom(q)' = AppliedFrom(q)
    BY <2>2, <2>3
  <2>6. \A p \in Payments : p \in Sources \ {c}
    BY DisjointAssumption DEF Sources, Documents
  <2>7. \A t \in Targets : DocTotals(t)'
    <3>1. \A t \in Targets : 1 * lines[t] = lines[t]
      BY LinesAreNumbers
    <3>2. \A t \in Targets : \A kind :
            AppliedTo(t, kind)' = AppliedTo(t, kind) + IF c \in kind THEN 1 * lines[t] ELSE 0
      BY <2>2, <3>1
    <3>3. \A t \in Touched(lines) : lines[t] <= doc[t].open
      BY <1>6 DEF ApplyCredit, ValidTarget
    <3> QED BY <2>1, <3>2, <3>3, DocsFollow
  <2> QED BY <2>1, <2>4, <2>5, <2>6, <2>7, OthersStay DEF TotalsInv, Sources
<1>7. ASSUME NEW b \in Batches, UnapplyCredit(b)
      PROVE  TotalsInv'
  <2> SUFFICES ASSUME NEW c, c = batch[b].source, NEW lines, lines = batch[b].lines
               PROVE  TotalsInv'
    OBVIOUS
  <2> DEFINE total == BatchTotal(lines)
  <2>0. PICK n \in 0 .. credit[c].allocated :
          /\ n = total
          /\ credit' = [credit EXCEPT ![c] = CreditWith(c, @.allocated - n)]
    BY <1>7 DEF UnapplyCredit
  <2>1. /\ Live(b) /\ c \in Credits
        /\ pay' = pay
        /\ batch' = [batch EXCEPT ![b].reversed = TRUE]
        /\ doc' = SettledDocs(c, lines, -1)
    BY <1>7 DEF UnapplyCredit
  <2>2. /\ credit'[c].allocated = credit[c].allocated - total
        /\ \A d \in Credits \ {c} : credit'[d] = credit[d]
        /\ lines \in Lines /\ c \in Sources
    BY <1>t, <2>0, <2>1, LiveLines DEF CreditWith
  <2>3. /\ \A t \in Targets : \A kind :
             AppliedTo(t, kind)' = AppliedTo(t, kind) - IF c \in kind THEN lines[t] ELSE 0
        /\ \A q : AppliedFrom(q)' = AppliedFrom(q) - IF q = c THEN total ELSE 0
    BY <2>1, BatchCloses
  <2>4. /\ \A q : AppliedFrom(q) \in Nat
        /\ \A t \in Targets : \A kind : AppliedTo(t, kind) \in Nat
    BY AppliedFromIsDrawn, AppliedToIsShared
  <2>w. total \in Nat /\ \A t \in Targets : lines[t] \in Nat
    BY <2>2, LinesAreNumbers, BatchTotalIsNumber
  <2> HIDE DEF total
  <2>5. CreditTotals(c)'
    BY <2>1, <2>2, <2>3, <2>w DEF CreditTotals, TotalsInv
  <2>6. \A q \in Sources \ {c} : AppliedFrom(q)' = AppliedFrom(q)
    BY <2>3, <2>4
  <2>7. \A p \in Payments : p \in Sources \ {c}
    BY <2>1, DisjointAssumption DEF Sources, Documents
  <2>8. \A t \in Targets : DocTotals(t)'
    <3>1. \A t \in Targets : \A kind :
            AppliedTo(t, kind)' = AppliedTo(t, kind) + IF c \in kind THEN (-1) * lines[t] ELSE 0
      BY <2>3, <2>4, <2>w
    <3> QED BY <2>1, <2>2, <3>1, DocsFollow
  <2>9. \A d \in Credits \ {c} : CreditTotals(d)'
    BY <2>2, <2>6, OthersStay DEF Sources
  <2>10. \A p \in Payments : PaymentTotals(p)'
    BY <2>1, <2>6, <2>7, OthersStay
  <2> QED BY <2>5, <2>8, <2>9, <2>10 DEF TotalsInv
<1>8. ASSUME NEW t \in Targets, PostInvoice(t)
      PROVE  TotalsInv'
  <2> DEFINE row == [doc[t] EXCEPT !.status = "POSTED"]
  <2>1. /\ doc'[t] = row
        /\ \A u \in Targets \ {t} : doc'[u] = doc[u]
        /\ UNCHANGED <<pay, credit, batch>>
    BY <1>8, <1>t DEF PostInvoice
  <2>2. /\ row.status = "POSTED" /\ row.open = doc[t].open
        /\ row.allocated = doc[t].allocated /\ row.credited = doc[t].credited
    BY <1>t DEF DocRow
  <2> HIDE DEF row
  <2>3. DocTotals(t)'
    BY <2>1, <2>2, BatchesStay DEF TotalsInv, DocTotals
  <2> QED BY <2>1, <2>3, OthersStay, BatchesStay DEF TotalsInv
<1>9. ASSUME NEW t \in Targets, PostBill(t)
      PROVE  TotalsInv'
  <2>1. CASE Recorded(PostKey(t))
    <3>1. UNCHANGED <<pay, doc, credit, batch>>
      BY <1>9, <2>1 DEF PostBill
    <3> QED BY <3>1, OthersStay, BatchesStay DEF TotalsInv
  <2>2. CASE ~Recorded(PostKey(t))
    <3>1. /\ doc'[t] = [status |-> "POSTED", allocated |-> 0, credited |-> 0, open |-> Total[t]]
          /\ \A u \in Targets \ {t} : doc'[u] = doc[u]
          /\ UNCHANGED <<pay, credit, batch>>
      BY <1>9, <1>t, <2>2 DEF PostBill
    <3>2. ASSUME NEW kind, NEW b \in Batches
          PROVE  Share(t, kind)[b] = 0
      <4>1. ASSUME Live(b)
            PROVE  batch[b].lines[t] = 0
        <5>1. t \notin Touched(batch[b].lines)
          BY <2>2, <4>1 DEF JournalsInv, BatchOK, Live
        <5>2. batch[b].lines[t] \in Nat
          BY <4>1, LiveLines, LinesAreNumbers
        <5> QED BY <5>1, <5>2 DEF Touched
      <4> QED BY <4>1 DEF Share, LiveBatchesBy, LiveBatches
    <3>3. \A kind : AppliedTo(t, kind) = 0
      <4> SUFFICES ASSUME NEW kind PROVE AppliedTo(t, kind) = 0
        OBVIOUS
      <4>1. SumFunctionOnSet(Share(t, kind), Batches) = 0
        BY <3>2, TablesAreFinite, SumOfZeros
      <4> QED BY <4>1, AppliedToIsShared
    <3>4. Total[t] \in Nat
      BY AmountAssumption DEF Documents
    <3>5. DocTotals(t)'
      BY <3>1, <3>3, <3>4, BatchesStay DEF DocTotals
    <3> QED BY <3>1, <3>5, OthersStay, BatchesStay DEF TotalsInv
  <2> QED BY <2>1, <2>2
<1>10. ASSUME NEW c \in Credits, PostCreditNote(c)
       PROVE  TotalsInv'
  <2> DEFINE row == [credit[c] EXCEPT !.status = "POSTED"]
  <2>1. /\ credit'[c] = row
        /\ \A d \in Credits \ {c} : credit'[d] = credit[d]
        /\ UNCHANGED <<pay, doc, batch>>
    BY <1>10, <1>t DEF PostCreditNote
  <2>2. row.allocated = credit[c].allocated
    BY <1>t DEF CreditRow
  <2> HIDE DEF row
  <2>3. CreditTotals(c)'
    BY <2>1, <2>2, BatchesStay DEF TotalsInv, CreditTotals
  <2> QED BY <2>1, <2>3, OthersStay, BatchesStay DEF TotalsInv
<1>11. ASSUME NEW c \in Credits, PostDebitNote(c)
       PROVE  TotalsInv'
  <2>1. CASE Recorded(PostKey(c))
    <3>1. UNCHANGED <<pay, doc, credit, batch>>
      BY <1>11, <2>1 DEF PostDebitNote
    <3> QED BY <3>1, OthersStay, BatchesStay DEF TotalsInv
  <2>2. CASE ~Recorded(PostKey(c))
    <3>1. /\ credit'[c] = [status |-> "POSTED", allocated |-> 0, open |-> Total[c]]
          /\ \A d \in Credits \ {c} : credit'[d] = credit[d]
          /\ UNCHANGED <<pay, doc, batch>>
      BY <1>11, <1>t, <2>2 DEF PostDebitNote
    <3>2. \A b \in Batches : Drawn(c)[b] = 0
      BY <2>2 DEF Drawn, LiveBatchesOf, Live, JournalsInv, BatchOK
    <3>3. AppliedFrom(c) = 0
      BY <3>2, TablesAreFinite, SumOfZeros, AppliedFromIsDrawn
    <3>4. CreditTotals(c)'
      BY <3>1, <3>3, BatchesStay DEF CreditTotals
    <3> QED BY <3>1, <3>4, OthersStay, BatchesStay DEF TotalsInv
  <2> QED BY <2>1, <2>2
<1>12. ASSUME NEW d \in Documents, LoadDocument(d)
       PROVE  TotalsInv'
  BY <1>12, OthersStay, BatchesStay DEF LoadDocument, TotalsInv
<1>13. CASE UNCHANGED vars
  BY <1>13, OthersStay, BatchesStay DEF vars, TotalsInv
<1> QED BY <1>1, <1>2, <1>3, <1>4, <1>5, <1>6, <1>7, <1>8, <1>9, <1>10, <1>11,
           <1>12, <1>13 DEF Next

LEMMA TotalsAlways == Spec => [](RowsInv /\ JournalsInv /\ TotalsInv)
<1>1. RowsInv => TypeOK
  BY DEF RowsInv
<1> QED BY <1>1, RowsInit, RowsStep, JournalsInit, JournalsStep, TotalsInit, TotalsStep,
           PTL DEF Spec

\* BR-008 for every instance: the cached columns are the sums of the live rows
\* on both sides of every batch, nothing is settled beyond its total and every
\* status tells what is left, whatever was applied, un-applied, posted or
\* reversed before, by any number of calls in flight.
THEOREM ColumnsAlwaysFollowRows == Spec => []ColumnsFollowRows
BY TotalsAreColumns, TotalsAlways, PTL

-----------------------------------------------------------------------------
(* Settlement implements OpenItems.  Two more facts are needed: a draft has *)
(* no journal yet, and no batch is without lines.                          *)

ItemsInv ==
  /\ \A p \in Payments : pay[p].status = "UNPOSTED" => ~Recorded(PostKey(p))
  /\ \A b \in Batches : batch[b] # NoBatch => Touched(batch[b].lines) # {}

LEMMA ItemsInit == Init => ItemsInv
BY KeysAreKeys DEF Init, ItemsInv, Recorded

LEMMA TotalNeedsLines ==
  ASSUME NEW lines \in Lines, BatchTotal(lines) # 0
  PROVE  Touched(lines) # {}
<1> SUFFICES ASSUME Touched(lines) = {} PROVE FALSE
  OBVIOUS
<1>1. \A t \in Targets : lines[t] = 0
  BY LinesAreNumbers DEF Touched
<1> QED BY <1>1, TablesAreFinite, SumOfZeros DEF BatchTotal

\* The ledger gains no journal of a payment by any key but its own.
LEMMA PaymentsJournals ==
  ASSUME TypeOK, ItemsInv, NEW key, GrowsAt(key),
         \A p \in Payments : pay'[p].status = "UNPOSTED" =>
                              pay[p].status = "UNPOSTED" /\ key # PostKey(p)
  PROVE  \A p \in Payments : pay'[p].status = "UNPOSTED" => ~Recorded(PostKey(p))'
BY KeysAreKeys DEF ItemsInv, GrowsAt

\* What each action does to the ledger.
LEMMA StepGrows ==
  ASSUME TypeOK
  PROVE  /\ UNCHANGED journal => \A key : GrowsAt(key)
         /\ \A key \in Keys : \A entry : Post(key, entry) => GrowsAt(key)
BY PostGrows DEF GrowsAt, Recorded

LEMMA LinesKept ==
  ASSUME TypeOK, ItemsInv,
         \/ batch' = batch
         \/ \E b \in Batches, s \in Sources, lines \in Lines :
              /\ Touched(lines) # {}
              /\ batch' = [batch EXCEPT ![b] = NewBatch(s, lines)]
         \/ \E b \in Batches : /\ Live(b)
                               /\ batch' = [batch EXCEPT ![b].reversed = TRUE]
  PROVE  \A b \in Batches : batch'[b] # NoBatch => Touched(batch'[b].lines) # {}
<1> SUFFICES ASSUME NEW b \in Batches, batch'[b] # NoBatch
             PROVE  Touched(batch'[b].lines) # {}
  OBVIOUS
<1>1. \/ batch'[b] = batch[b]
      \/ \E s \in Sources, lines \in Lines :
           Touched(lines) # {} /\ batch'[b] = NewBatch(s, lines)
      \/ Live(b) /\ batch'[b] = [batch[b] EXCEPT !.reversed = TRUE]
  BY DEF TypeOK
<1>2. CASE batch'[b] = batch[b]
  BY <1>2 DEF ItemsInv
<1>3. ASSUME NEW s \in Sources, NEW lines \in Lines,
             Touched(lines) # {}, batch'[b] = NewBatch(s, lines)
      PROVE  Touched(batch'[b].lines) # {}
  BY <1>3 DEF NewBatch
<1>4. CASE Live(b) /\ batch'[b] = [batch[b] EXCEPT !.reversed = TRUE]
  <2>1. batch[b] \in BatchRow
    BY <1>4 DEF TypeOK, Live
  <2>2. batch'[b].lines = batch[b].lines
    BY <1>4, <2>1 DEF BatchRow
  <2> QED BY <1>4, <2>2 DEF ItemsInv, Live
<1> QED BY <1>1, <1>2, <1>3, <1>4

LEMMA ItemsStep == TypeOK /\ ItemsInv /\ [Next]_vars => ItemsInv'
<1> SUFFICES ASSUME TypeOK, ItemsInv, [Next]_vars PROVE ItemsInv'
  OBVIOUS
<1>t. pay \in [Payments -> PaymentRow]
  BY DEF TypeOK
<1>k. \A x \in Payments \cup Documents : PostKey(x) \in Keys
  BY KeysAreKeys
<1>1. ASSUME NEW p \in Payments, NEW amount \in PaymentAmounts, NEW fee \in Fees,
             UpdateDraftPayment(p, amount, fee)
      PROVE  ItemsInv'
  <2>1. /\ \A q \in Payments : pay'[q].status = "UNPOSTED" => pay[q].status = "UNPOSTED"
        /\ batch' = batch /\ journal' = journal
    BY <1>1, RowReplaced DEF UpdateDraftPayment
  <2>2. \A q \in Payments : pay'[q].status = "UNPOSTED" => ~Recorded(PostKey(q))'
    BY <2>1 DEF ItemsInv, Recorded
  <2>3. \A b \in Batches : batch'[b] # NoBatch => Touched(batch'[b].lines) # {}
    BY <2>1, LinesKept
  <2> QED BY <2>2, <2>3 DEF ItemsInv
<1>2. ASSUME NEW p \in Payments, PostPayment(p)
      PROVE  ItemsInv'
  <2>1. /\ pay'[p].status = "POSTED"
        /\ \A q \in Payments \ {p} : pay'[q] = pay[q]
        /\ batch' = batch
        /\ GrowsAt(PostKey(p))
    BY <1>2, <1>t, <1>k, StepGrows DEF PostPayment, PaymentRow
  <2> QED BY <2>1, LinesKept, PaymentsJournals, KeysAreDistinct DEF ItemsInv
<1>3. ASSUME NEW p \in Payments, ReversePayment(p)
      PROVE  ItemsInv'
  <2>1. /\ pay'[p].status = "REVERSED"
        /\ \A q \in Payments \ {p} : pay'[q] = pay[q]
        /\ batch' = batch
        /\ GrowsAt(ReversalKey(p))
    BY <1>3, <1>t, KeysAreKeys, StepGrows DEF ReversePayment, PaymentRow, PostMirror
  <2> QED BY <2>1, LinesKept, PaymentsJournals, KeysAreDistinct DEF ItemsInv
<1>4. ASSUME NEW p \in Payments, NEW b \in Batches, NEW lines \in Lines,
             AllocatePayment(p, b, lines)
      PROVE  ItemsInv'
  <2>0. PICK n \in 1 .. Spendable(p) :
          /\ n = BatchTotal(lines)
          /\ pay' = [pay EXCEPT ![p] = PaymentWith(@, @.allocated + n)]
    BY <1>4 DEF AllocatePayment
  <2>1. /\ pay'[p].status # "UNPOSTED"
        /\ \A q \in Payments \ {p} : pay'[q] = pay[q]
    BY <1>t, <2>0, StatusForIsStatus DEF PaymentWith, PaymentRow
  <2>2. /\ Touched(lines) # {} /\ p \in Sources
        /\ batch' = [batch EXCEPT ![b] = NewBatch(p, lines)]
        /\ GrowsAt(AllocationKey(p, b))
    BY <1>4, <2>0, TotalNeedsLines, KeysAreKeys, StepGrows DEF AllocatePayment, Sources
  <2>3. \A c \in Batches : batch'[c] # NoBatch => Touched(batch'[c].lines) # {}
    BY <2>2, LinesKept
  <2> QED BY <2>1, <2>2, <2>3, PaymentsJournals, KeysAreDistinct DEF ItemsInv
<1>5. ASSUME NEW b \in Batches, UnapplyPayment(b)
      PROVE  ItemsInv'
  <2> SUFFICES ASSUME NEW p, p = batch[b].source
               PROVE  ItemsInv'
    OBVIOUS
  <2>0. PICK n \in 0 .. pay[p].allocated :
          pay' = [pay EXCEPT ![p] = PaymentWith(@, @.allocated - n)]
    BY <1>5 DEF UnapplyPayment
  <2>1. /\ pay'[p].status # "UNPOSTED" /\ p \in Payments
        /\ \A q \in Payments \ {p} : pay'[q] = pay[q]
    BY <1>5, <1>t, <2>0, StatusForIsStatus DEF UnapplyPayment, PaymentWith, PaymentRow
  <2>2. /\ Live(b)
        /\ batch' = [batch EXCEPT ![b].reversed = TRUE]
        /\ GrowsAt(BatchReversalKey(b))
    BY <1>5, KeysAreKeys, StepGrows DEF UnapplyPayment, PostMirror
  <2> QED BY <2>1, <2>2, LinesKept, PaymentsJournals, KeysAreDistinct DEF ItemsInv
<1>6. ASSUME NEW c \in Credits, NEW b \in Batches, NEW lines \in Lines,
             ApplyCredit(c, b, lines)
      PROVE  ItemsInv'
  <2>0. PICK n \in 1 .. credit[c].open : n = BatchTotal(lines)
    BY <1>6 DEF ApplyCredit
  <2>1. /\ Touched(lines) # {} /\ c \in Sources
        /\ batch' = [batch EXCEPT ![b] = NewBatch(c, lines)]
        /\ UNCHANGED <<pay, journal>>
    BY <1>6, <2>0, TotalNeedsLines DEF ApplyCredit, Sources
  <2> QED BY <2>1, LinesKept DEF ItemsInv, Recorded
<1>7. ASSUME NEW b \in Batches, UnapplyCredit(b)
      PROVE  ItemsInv'
  <2>1. /\ Live(b)
        /\ batch' = [batch EXCEPT ![b].reversed = TRUE]
        /\ UNCHANGED <<pay, journal>>
    BY <1>7 DEF UnapplyCredit
  <2> QED BY <2>1, LinesKept DEF ItemsInv, Recorded
<1>8. ASSUME NEW d \in Documents,
             \/ PostInvoice(d) \/ PostBill(d)
             \/ PostCreditNote(d) \/ PostDebitNote(d)
      PROVE  ItemsInv'
  <2>1. /\ UNCHANGED <<pay, batch>>
        /\ GrowsAt(PostKey(d))
    BY <1>8, <1>k, StepGrows DEF PostInvoice, PostBill, PostCreditNote, PostDebitNote
  <2>2. \A p \in Payments : p # d
    BY DisjointAssumption
  <2> QED BY <2>1, <2>2, LinesKept, PaymentsJournals, KeysAreDistinct DEF ItemsInv
<1>9. ASSUME NEW d \in Documents, LoadDocument(d)
      PROVE  ItemsInv'
  BY <1>9, LinesKept DEF LoadDocument, ItemsInv, Recorded
<1>10. CASE UNCHANGED vars
  BY <1>10, LinesKept DEF vars, ItemsInv, Recorded
<1>11. ASSUME NEW t \in Targets, PostInvoice(t) \/ PostBill(t)
       PROVE  ItemsInv'
  BY <1>8, <1>11 DEF Documents
<1>12. ASSUME NEW c \in Credits, PostCreditNote(c) \/ PostDebitNote(c)
       PROVE  ItemsInv'
  BY <1>8, <1>12 DEF Documents
<1> QED BY <1>1, <1>2, <1>3, <1>4, <1>5, <1>6, <1>7, <1>9, <1>10,
           <1>11, <1>12 DEF Next

LEMMA ItemsAlways == Spec => [](RowsInv /\ JournalsInv /\ TotalsInv /\ ItemsInv)
<1>1. RowsInv => TypeOK
  BY DEF RowsInv
<1> QED BY <1>1, TotalsAlways, ItemsInit, ItemsStep, PTL DEF Spec

-----------------------------------------------------------------------------
(* The refinement itself.                                                  *)

\* OpenItems sums as Settlement does.
LEMMA SameSum ==
  \A f, S : Promise!SumFunctionOnSet(f, S) = SumFunctionOnSet(f, S)
BY DEF Promise!SumFunctionOnSet, Promise!FoldFunctionOnSet, Promise!MapThenFoldSet,
       SumFunctionOnSet, FoldFunctionOnSet, MapThenFoldSet

\* What a source has applied altogether is what its batches draw from it.
LEMMA SpreadIsApplied ==
  TypeOK => \A s \in Sources : Promise!Spread(s) = AppliedFrom(s)
<1> SUFFICES ASSUME TypeOK, NEW s \in Sources
             PROVE  SumFunctionOnSet(Applied[s], Targets) = AppliedFrom(s)
  BY SameSum DEF Promise!Spread
<1> DEFINE m == [b \in Batches |-> [t \in Targets |-> Share(t, {s})[b]]]
           n == [t \in Targets |-> Share(t, {s})]
           rows == Drawn(s)
           cols == Applied[s]
<1>1. \A b \in Batches, t \in Targets : m[b][t] \in Int /\ n[t][b] = m[b][t]
  BY SharesAreNumbers
<1>2. ASSUME NEW b \in Batches
      PROVE  rows[b] = SumFunctionOnSet(m[b], Targets)
  <2>1. CASE b \in LiveBatchesOf(s)
    <3> DEFINE lines == batch[b].lines
    <3>1. \A t \in Targets : m[b][t] = lines[t]
      BY <2>1 DEF Share, LiveBatchesBy, LiveBatches, LiveBatchesOf
    <3>2. rows[b] = SumFunctionOnSet(lines, Targets)
      BY <2>1 DEF Drawn, BatchTotal
    <3> HIDE DEF lines, m, rows
    <3> QED BY <3>1, <3>2, TablesAreFinite, SumAgrees
  <2>2. CASE b \notin LiveBatchesOf(s)
    <3>1. \A t \in Targets : m[b][t] = 0
      BY <2>2 DEF Share, LiveBatchesBy, LiveBatches, LiveBatchesOf
    <3>2. rows[b] = 0
      BY <2>2 DEF Drawn
    <3> HIDE DEF m, rows
    <3> QED BY <3>1, <3>2, TablesAreFinite, SumOfZeros
  <2> QED BY <2>1, <2>2
<1>3. ASSUME NEW t \in Targets
      PROVE  cols[t] = SumFunctionOnSet(n[t], Batches)
  <2>1. cols[t] = AppliedTo(t, {s})
    BY DEF Applied
  <2> QED BY <2>1, AppliedToIsShared
<1>4. AppliedFrom(s) = SumFunctionOnSet(rows, Batches)
  BY AppliedFromIsDrawn
<1> HIDE DEF m, n, rows, cols
<1>5. IsFiniteSet(Batches) /\ IsFiniteSet(Targets)
  BY TablesAreFinite
<1>6. Tallied(Batches, Targets, m, n, rows, cols)
  BY <1>1, <1>2, <1>3 DEF Tallied
<1>7. SumFunctionOnSet(rows, Batches) = SumFunctionOnSet(cols, Targets)
  BY <1>5, <1>6, SumExchange
<1> QED BY <1>4, <1>7 DEF cols

\* What a document is settled by altogether is what its two columns hold.
LEMMA SettledIsColumns ==
  TypeOK => \A t \in Targets :
    Promise!Settled(t) = AppliedTo(t, Payments) + AppliedTo(t, Credits)
<1> SUFFICES ASSUME TypeOK, NEW t \in Targets
             PROVE  SumFunctionOnSet([s \in Sources |-> Applied[s][t]], Sources)
                      = AppliedTo(t, Payments) + AppliedTo(t, Credits)
  BY SameSum DEF Promise!Settled
<1> DEFINE m == [s \in Sources |-> Share(t, {s})]
           n == [b \in Batches |-> [s \in Sources |-> Share(t, {s})[b]]]
           rows == [s \in Sources |-> Applied[s][t]]
           cols == Share(t, Sources)
<1>1. \A s \in Sources, b \in Batches : m[s][b] \in Int /\ n[b][s] = m[s][b]
  BY SharesAreNumbers
<1>2. ASSUME NEW s \in Sources
      PROVE  rows[s] = SumFunctionOnSet(m[s], Batches)
  BY AppliedToIsShared DEF Applied
<1>3. ASSUME NEW b \in Batches
      PROVE  cols[b] = SumFunctionOnSet(n[b], Sources)
  <2> DEFINE f == n[b]
  <2>1. CASE ~Live(b)
    <3>1. /\ \A s \in Sources : f[s] = 0
          /\ cols[b] = 0
      BY <2>1 DEF Share, LiveBatchesBy, LiveBatches
    <3> HIDE DEF n, cols
    <3>2. SumFunctionOnSet(f, Sources) = 0
      BY <3>1, TablesAreFinite, SumOfZeros
    <3> QED BY <3>1, <3>2
  <2>2. CASE Live(b)
    <3> DEFINE s == batch[b].source
               x == batch[b].lines[t]
    <3>0. batch[b].lines \in Lines /\ s \in Sources
      BY <2>2, LiveLines
    <3>1. x \in Int
      <4>1. x \in Nat
        BY <3>0, LinesAreNumbers
      <4> QED BY <4>1
    <3>2. /\ \A q \in Sources \ {s} : f[q] = 0
          /\ f[s] = x /\ cols[b] = x
      BY <2>2, <3>0 DEF Share, LiveBatchesBy, LiveBatches
    <3> HIDE DEF n, cols, s, x
    <3>3. \A q \in Sources : f[q] \in Int
      BY <3>1, <3>2
    <3>4. SumFunctionOnSet(f, Sources) = f[s] + SumFunctionOnSet(f, Sources \ {s})
      BY <3>0, <3>3, TablesAreFinite, SumTake
    <3>5. SumFunctionOnSet(f, Sources \ {s}) = 0
      BY <3>2, TablesAreFinite, FS_Subset, SumOfZeros
    <3> QED BY <3>1, <3>2, <3>4, <3>5
  <2> QED BY <2>1, <2>2
<1>4. SumFunctionOnSet(rows, Sources) = SumFunctionOnSet(cols, Batches)
  <2> HIDE DEF m, n, rows, cols
  <2>1. Tallied(Sources, Batches, m, n, rows, cols)
    BY <1>1, <1>2, <1>3 DEF Tallied
  <2> QED BY <2>1, TablesAreFinite, SumExchange
<1>5. SumFunctionOnSet(cols, Batches) =
        SumFunctionOnSet(Share(t, Payments), Batches)
          + SumFunctionOnSet(Share(t, Credits), Batches)
  <2> DEFINE f == Share(t, Payments)
             g == Share(t, Credits)
  <2>1. \A b \in Batches : f[b] \in Int /\ g[b] \in Int /\ cols[b] = f[b] + g[b]
    <3> SUFFICES ASSUME NEW b \in Batches
                 PROVE  f[b] \in Int /\ g[b] \in Int /\ cols[b] = f[b] + g[b]
      OBVIOUS
    <3>1. f[b] \in Int /\ g[b] \in Int
      BY SharesAreNumbers
    <3>2. CASE Live(b)
      <4>1. batch[b].source \in Sources
        BY <3>2, LiveLines
      <4>2. batch[b].source \in Payments <=> batch[b].source \notin Credits
        BY <4>1, DisjointAssumption DEF Sources, Documents
      <4> QED BY <3>1, <3>2, <4>1, <4>2 DEF Share, LiveBatchesBy, LiveBatches
    <3>3. CASE ~Live(b)
      BY <3>1, <3>3 DEF Share, LiveBatchesBy, LiveBatches
    <3> QED BY <3>2, <3>3
  <2> HIDE DEF f, g, cols
  <2>2. SumFunctionOnSet(cols, Batches) = SumFunctionOnSet(f, Batches) + SumFunctionOnSet(g, Batches)
    BY <2>1, TablesAreFinite, SumPlus
  <2> QED BY <2>2 DEF f, g
<1> QED BY <1>4, <1>5, AppliedToIsShared

\* What nobody posted is not settled by anything.
LEMMA UnpostedIsUnsettled ==
  ASSUME TypeOK, JournalsInv, NEW t \in Targets, ~Posted(t)
  PROVE  \A kind : AppliedTo(t, kind) = 0
<1> SUFFICES ASSUME NEW kind PROVE AppliedTo(t, kind) = 0
  OBVIOUS
<1>1. ASSUME NEW b \in Batches, Live(b)
      PROVE  batch[b].lines[t] = 0
  <2>1. t \notin Touched(batch[b].lines)
    BY <1>1 DEF JournalsInv, BatchOK, Live, Posted
  <2>2. batch[b].lines[t] \in Nat
    BY <1>1, LiveLines, LinesAreNumbers
  <2> QED BY <2>1, <2>2 DEF Touched
<1>2. \A b \in Batches : Share(t, kind)[b] = 0
  BY <1>1 DEF Share, LiveBatchesBy, LiveBatches
<1>3. SumFunctionOnSet(Share(t, kind), Batches) = 0
  BY <1>2, TablesAreFinite, SumOfZeros
<1> QED BY <1>3, AppliedToIsShared

LEMMA RefineInit == Init => Promise!Init
<1> SUFFICES ASSUME Init PROVE Promise!Init
  OBVIOUS
<1>1. \A x \in Payments \cup Documents : ~Posted(x)
  BY KeysAreKeys DEF Init, Posted, Recorded
<1>2. \A p \in Payments : ~pay[p].reversed
  BY DEF Init, Draft
<1>3. \A kind : LiveBatchesBy(kind) = {}
  BY DEF Init, LiveBatchesBy, LiveBatches, Live
<1>4. \A t \in Targets : \A kind : AppliedTo(t, kind) = 0
  BY <1>3, SumEmpty DEF AppliedTo, SumOver
<1>5. /\ Funds = [s \in Sources |-> 0]
      /\ Withdrawn = {}
      /\ Owed = [t \in Targets |-> 0]
  BY <1>1, <1>2 DEF Funds, Withdrawn, Owed, Sources, Documents
<1>6. Applied = [s \in Sources |-> [t \in Targets |-> 0]]
  BY <1>4 DEF Applied
<1> QED BY <1>5, <1>6 DEF Promise!Init

\* Only the key a step writes can make something posted.
LEMMA PostedAfter ==
  ASSUME NEW key, GrowsAt(key)
  PROVE  \A x \in Payments \cup Documents :
           /\ Posted(x) => Posted(x)'
           /\ key # PostKey(x) => (Posted(x)' <=> Posted(x))
BY KeysAreKeys DEF GrowsAt, Posted

LEMMA FundsStay ==
  ASSUME \A s \in Sources : Posted(s)' <=> Posted(s),
         \A p \in Payments : /\ pay'[p].reversed = pay[p].reversed
                             /\ Posted(p) => pay'[p].amount = pay[p].amount
  PROVE  Funds' = Funds /\ Withdrawn' = Withdrawn
BY DEF Funds, Withdrawn, Sources

LEMMA OwedStays ==
  ASSUME \A t \in Targets : Posted(t)' <=> Posted(t)
  PROVE  Owed' = Owed
BY DEF Owed

LEMMA AppliedStays == ASSUME batch' = batch PROVE Applied' = Applied
BY BatchesStay DEF Applied

\* How a batch that opens or closes moves what is applied.
LEMMA AppliedIsNumber ==
  TypeOK => \A q \in Sources, t \in Targets :
    Applied[q][t] = AppliedTo(t, {q}) /\ Applied[q][t] \in Nat
BY AppliedToIsShared DEF Applied

LEMMA AppliedAfter ==
  TypeOK' => \A q \in Sources, t \in Targets :
    Applied'[q][t] = AppliedTo(t, {q})' /\ Applied'[q][t] \in Nat
<1>1. (TypeOK => \A q \in Sources, t \in Targets :
         Applied[q][t] = AppliedTo(t, {q}) /\ Applied[q][t] \in Nat)'
  BY AppliedIsNumber, PTL
<1> QED BY <1>1

LEMMA AppliedByOpening ==
  ASSUME TypeOK, TypeOK', NEW b \in Batches, batch[b] = NoBatch,
         NEW s \in Sources, NEW lines \in Lines,
         batch' = [batch EXCEPT ![b] = NewBatch(s, lines)]
  PROVE  \A q \in Sources, t \in Targets :
           Applied'[q][t] = Applied[q][t] + IF q = s THEN lines[t] ELSE 0
<1> SUFFICES ASSUME NEW q \in Sources, NEW t \in Targets
             PROVE  Applied'[q][t] = Applied[q][t] + IF q = s THEN lines[t] ELSE 0
  OBVIOUS
<1>1. /\ \A x \in Targets : \A kind :
           AppliedTo(x, kind)' = AppliedTo(x, kind) + IF s \in kind THEN lines[x] ELSE 0
      /\ \A x : AppliedFrom(x)' = AppliedFrom(x) + IF x = s THEN BatchTotal(lines) ELSE 0
  BY BatchOpens
<1>2. AppliedTo(t, {q})' = AppliedTo(t, {q}) + IF s \in {q} THEN lines[t] ELSE 0
  BY <1>1
<1> QED BY <1>2, AppliedIsNumber, AppliedAfter

LEMMA AppliedByClosing ==
  ASSUME TypeOK, TypeOK', NEW b \in Batches, Live(b),
         batch' = [batch EXCEPT ![b].reversed = TRUE]
  PROVE  \A q \in Sources, t \in Targets :
           Applied'[q][t] = Applied[q][t]
             - IF q = batch[b].source THEN batch[b].lines[t] ELSE 0
<1> SUFFICES ASSUME NEW q \in Sources, NEW t \in Targets
             PROVE  Applied'[q][t] = Applied[q][t]
                      - IF q = batch[b].source THEN batch[b].lines[t] ELSE 0
  OBVIOUS
<1>1. \A kind :
        AppliedTo(t, kind)' = AppliedTo(t, kind)
          - IF batch[b].source \in kind THEN batch[b].lines[t] ELSE 0
  BY BatchCloses
<1>2. AppliedTo(t, {q})' = AppliedTo(t, {q})
        - IF batch[b].source \in {q} THEN batch[b].lines[t] ELSE 0
  BY <1>1
<1> QED BY <1>2, AppliedIsNumber, AppliedAfter

\* The table of what is applied changes in one row only.
LEMMA AppliedRow ==
  ASSUME NEW s \in Sources, NEW d,
         \A t \in Targets : Applied'[s][t] = Applied[s][t] + d[t],
         \A q \in Sources \ {s}, t \in Targets : Applied'[q][t] = Applied[q][t]
  PROVE  Applied' = [Applied EXCEPT ![s] = [t \in Targets |-> @[t] + d[t]]]
<1>1. /\ Applied = [q \in Sources |-> [t \in Targets |-> Applied[q][t]]]
      /\ Applied' = [q \in Sources |-> [t \in Targets |-> Applied'[q][t]]]
  BY DEF Applied
<1> QED BY <1>1

\* A new live batch applies its source to the documents it names.
LEMMA BatchApplies ==
  ASSUME TypeOK, TypeOK', RemaindersAreDerived, JournalsInv, TotalsInv,
         NEW b \in Batches, batch[b] = NoBatch,
         NEW s \in Sources, s \notin Withdrawn, NEW lines \in Lines,
         batch' = [batch EXCEPT ![b] = NewBatch(s, lines)],
         \A t \in Touched(lines) : Posted(t) /\ lines[t] <= doc[t].open,
         BatchTotal(lines) \in 1 .. (Funds[s] - AppliedFrom(s)),
         UNCHANGED <<Funds, Withdrawn, Owed>>
  PROVE  Promise!Apply(s)
<1> DEFINE added == [t \in Targets |-> Applied'[s][t] - Applied[s][t]]
<1>1. \A q \in Sources, t \in Targets : Applied[q][t] \in Nat
  BY AppliedIsNumber
<1>2. \A q \in Sources, t \in Targets :
        Applied'[q][t] = Applied[q][t] + IF q = s THEN lines[t] ELSE 0
  BY AppliedByOpening
<1>3. \A t \in Targets : lines[t] \in Nat /\ added[t] = lines[t]
  <2>1. \A t \in Targets : lines[t] \in Nat
    BY LinesAreNumbers
  <2> QED BY <1>1, <1>2, <2>1
<1>4. added = lines
  BY <1>3 DEF Lines
<1>5. Applied' = [Applied EXCEPT ![s] = [t \in Targets |-> @[t] + added[t]]]
  <2>1. \A t \in Targets : Applied'[s][t] = Applied[s][t] + added[t]
    BY <1>1, <1>2, <1>3
  <2>2. \A q \in Sources \ {s}, t \in Targets : Applied'[q][t] = Applied[q][t]
    BY <1>1, <1>2
  <2> HIDE DEF added
  <2> QED BY <2>1, <2>2, AppliedRow
<1>6. \A t \in Targets : added[t] \in 0 .. Owed[t] - Promise!Settled(t)
  <2> SUFFICES ASSUME NEW t \in Targets
               PROVE  lines[t] \in 0 .. Owed[t] - Promise!Settled(t)
    BY <1>4
  <2>1. /\ Promise!Settled(t) = doc[t].allocated + doc[t].credited
        /\ doc[t].allocated = AppliedTo(t, Payments)
        /\ doc[t].credited = AppliedTo(t, Credits)
        /\ doc[t].open \in 0 .. Total[t]
    BY SettledIsColumns DEF TotalsInv, DocTotals
  <2>2. /\ doc[t].open = Total[t] - doc[t].allocated - doc[t].credited
        /\ doc[t].allocated \in Int /\ doc[t].credited \in Int /\ Total[t] \in Nat
    BY AmountAssumption DEF RemaindersAreDerived, TypeOK, DocRow, Documents
  <2>3. CASE Posted(t)
    <3>1. Owed[t] - Promise!Settled(t) = doc[t].open
      BY <2>1, <2>2, <2>3 DEF Owed
    <3>2. lines[t] <= doc[t].open
      BY <1>3, <2>1, <2>2 DEF Touched
    <3> QED BY <3>1, <3>2, <1>3, <2>1, <2>2
  <2>4. CASE ~Posted(t)
    <3>1. doc[t].allocated = 0 /\ doc[t].credited = 0 /\ Owed[t] = 0
      BY <2>1, <2>4, UnpostedIsUnsettled DEF Owed
    <3>2. lines[t] = 0
      BY <1>3, <2>4 DEF Touched
    <3> QED BY <2>1, <3>1, <3>2
  <2> QED BY <2>3, <2>4
<1>7. SumFunctionOnSet(added, Targets) \in 1 .. (Funds[s] - Promise!Spread(s))
  BY <1>4, SpreadIsApplied DEF BatchTotal
<1> QED BY <1>5, <1>6, <1>7, SameSum DEF Promise!Apply, Promise!Added

\* A batch that is closed takes back what it had applied.
LEMMA BatchUnapplies ==
  ASSUME TypeOK, TypeOK', ItemsInv, NEW b \in Batches, Live(b),
         NEW s, s = batch[b].source,
         batch' = [batch EXCEPT ![b].reversed = TRUE],
         UNCHANGED <<Funds, Withdrawn, Owed>>
  PROVE  s \in Sources /\ Promise!Unapply(s)
<1> SUFFICES ASSUME NEW lines, lines = batch[b].lines
             PROVE  s \in Sources /\ Promise!Unapply(s)
  OBVIOUS
<1> DEFINE added == [t \in Targets |-> Applied'[s][t] - Applied[s][t]]
<1>0. s \in Sources /\ lines \in Lines
  BY LiveLines
<1>1. \A q \in Sources, t \in Targets : Applied[q][t] \in Nat /\ Applied'[q][t] \in Nat
  BY AppliedIsNumber, AppliedAfter
<1>2. \A q \in Sources, t \in Targets :
        Applied'[q][t] = Applied[q][t] - IF q = s THEN lines[t] ELSE 0
  BY AppliedByClosing
<1>3. \A t \in Targets : /\ lines[t] \in Nat
                         /\ added[t] = -lines[t]
                         /\ lines[t] <= Applied[s][t]
                         /\ Applied[s][t] \in Nat
  <2>1. \A t \in Targets : lines[t] \in Nat
    BY <1>0, LinesAreNumbers
  <2> QED BY <1>0, <1>1, <1>2, <2>1
<1>4. Applied' = [Applied EXCEPT ![s] = [t \in Targets |-> @[t] + added[t]]]
  <2>1. \A t \in Targets : Applied'[s][t] = Applied[s][t] + added[t]
    <3> SUFFICES ASSUME NEW t \in Targets
                 PROVE  Applied'[s][t] = Applied[s][t] + added[t]
      OBVIOUS
    <3>1. Applied'[s][t] \in Nat /\ Applied[s][t] \in Nat
      BY <1>0, <1>1
    <3>2. added[t] = Applied'[s][t] - Applied[s][t]
      OBVIOUS
    <3> HIDE DEF added
    <3> QED BY <3>1, <3>2
  <2>2. \A q \in Sources \ {s}, t \in Targets : Applied'[q][t] = Applied[q][t]
    BY <1>1, <1>2
  <2> HIDE DEF added
  <2> QED BY <1>0, <2>1, <2>2, AppliedRow
<1>5. \A t \in Targets : added[t] \in -Applied[s][t] .. 0
  BY <1>3
<1>6. \E t \in Targets : added[t] < 0
  <2>1. PICK t \in Targets : lines[t] > 0
    BY DEF ItemsInv, Live, Touched
  <2> QED BY <1>3, <2>1
<1> QED BY <1>0, <1>4, <1>5, <1>6 DEF Promise!Unapply, Promise!Added

\* Posting a source for the first time receives its money.
LEMMA PostingReceives ==
  ASSUME NEW s \in Sources, GrowsAt(PostKey(s)), ~Posted(s), Posted(s)',
         s \notin Withdrawn,
         \A p \in Payments : /\ pay'[p].reversed = pay[p].reversed
                             /\ pay'[p].amount = pay[p].amount,
         s \in Payments => pay[s].amount \in PaymentAmounts,
         batch' = batch
  PROVE  Promise!Receive(s)
<1>1. \A q \in Sources \cup Targets : q # s => (Posted(q)' <=> Posted(q))
  BY PostedAfter, KeysAreDistinct DEF Sources, Documents
<1>2. Owed' = Owed
  <2>1. s \notin Targets
    BY DisjointAssumption DEF Sources, Documents
  <2> QED BY <1>1, <2>1, OwedStays
<1>3. Applied' = Applied
  BY AppliedStays
<1>4. Withdrawn' = Withdrawn
  BY DEF Withdrawn
<1>5. Funds[s] = 0
  BY DEF Funds
<1>6. \A q \in Sources : q # s => Funds'[q] = Funds[q]
  BY <1>1 DEF Funds, Sources
<1>7. Funds'[s] \in PaymentAmounts \cup {Total[d] : d \in Documents}
  BY DEF Funds, Withdrawn, Sources, Documents
<1>8. Funds' = [Funds EXCEPT ![s] = Funds'[s]]
  BY <1>6 DEF Funds
<1> QED BY <1>2, <1>3, <1>4, <1>5, <1>7, <1>8 DEF Promise!Receive

\* Posting an invoice or a bill for the first time raises its debt.
LEMMA PostingBills ==
  ASSUME NEW t \in Targets, GrowsAt(PostKey(t)), ~Posted(t), Posted(t)',
         UNCHANGED <<pay, batch>>
  PROVE  Promise!Bill(t)
<1>1. \A q \in Sources \cup Targets : q # t => (Posted(q)' <=> Posted(q))
  BY PostedAfter, KeysAreDistinct DEF Sources, Documents
<1>2. Funds' = Funds /\ Withdrawn' = Withdrawn
  <2>1. t \notin Sources
    BY DisjointAssumption DEF Sources, Documents
  <2> QED BY <1>1, <2>1, FundsStay
<1>3. Applied' = Applied
  BY AppliedStays
<1>4. Owed[t] = 0 /\ Owed'[t] \in {Total[d] : d \in Documents}
  BY DEF Owed, Documents
<1>5. Owed' = [Owed EXCEPT ![t] = Owed'[t]]
  BY <1>1 DEF Owed
<1> QED BY <1>2, <1>3, <1>4, <1>5 DEF Promise!Bill

\* A step that leaves the batches, the reversals and the posted keys alone is
\* not seen by OpenItems.
LEMMA NothingSeen ==
  ASSUME \A x \in Payments \cup Documents : Posted(x)' <=> Posted(x),
         \A p \in Payments : /\ pay'[p].reversed = pay[p].reversed
                             /\ Posted(p) => pay'[p].amount = pay[p].amount,
         batch' = batch
  PROVE  UNCHANGED <<Funds, Withdrawn, Owed, Applied>>
BY FundsStay, OwedStays, AppliedStays DEF Sources, Documents

\* Posting a document: the first call brings its credit or its debt, a call
\* that comes late brings nothing.
LEMMA DocumentsRefine ==
  ASSUME TypeOK, NEW d \in Documents, NEW entry,
         Post(PostKey(d), entry) \/ (Posted(d) /\ UNCHANGED journal),
         UNCHANGED <<pay, batch>>
  PROVE  [Promise!Next]_<<Funds, Withdrawn, Owed, Applied>>
<1>1. GrowsAt(PostKey(d)) /\ Posted(d)'
  <2>1. PostKey(d) \in Keys /\ journal \in [Keys -> Entry \cup {NoEntry}]
    BY KeysAreKeys DEF TypeOK
  <2>2. CASE Post(PostKey(d), entry)
    BY <2>1, <2>2, StepGrows, PostAppends DEF Posted
  <2>3. CASE Posted(d) /\ UNCHANGED journal
    BY <2>3, StepGrows DEF Posted, Recorded
  <2> QED BY <2>2, <2>3
<1>2. CASE Posted(d)
  <2>1. \A x \in Payments \cup Documents : Posted(x)' <=> Posted(x)
    BY <1>1, <1>2, PostedAfter, KeysAreDistinct
  <2> QED BY <2>1, NothingSeen
<1>3. CASE ~Posted(d) /\ d \in Targets
  BY <1>1, <1>3, PostingBills DEF Promise!Next
<1>4. CASE ~Posted(d) /\ d \in Credits
  <2>1. d \in Sources /\ d \notin Payments /\ d \notin Withdrawn
    BY <1>4, DisjointAssumption DEF Sources, Withdrawn
  <2>2. Promise!Receive(d)
    BY <1>1, <1>4, <2>1, PostingReceives
  <2> QED BY <2>1, <2>2 DEF Promise!Next
<1> QED BY <1>2, <1>3, <1>4 DEF Documents

\* Every step of a settlement is a step of OpenItems or is not seen by it.
LEMMA RefineStep ==
  RowsInv /\ RowsInv' /\ JournalsInv /\ TotalsInv /\ ItemsInv /\ [Next]_vars
    => [Promise!Next]_<<Funds, Withdrawn, Owed, Applied>>
<1> SUFFICES ASSUME TypeOK, RemaindersAreDerived, TypeOK', JournalsInv, TotalsInv,
                    ItemsInv, [Next]_vars
             PROVE  [Promise!Next]_<<Funds, Withdrawn, Owed, Applied>>
  BY DEF RowsInv
<1> DEFINE Goal == [Promise!Next]_<<Funds, Withdrawn, Owed, Applied>>
<1>t. /\ pay \in [Payments -> PaymentRow]
      /\ credit \in [Credits -> CreditRow]
      /\ journal \in [Keys -> Entry \cup {NoEntry}]
  BY DEF TypeOK
<1>q. \A s \in Sources :
        \/ Promise!Receive(s) \/ Promise!Apply(s) \/ Promise!Unapply(s) \/ Promise!Void(s)
        => Goal
  BY DEF Promise!Next
<1>1. ASSUME NEW p \in Payments, NEW amount \in PaymentAmounts, NEW fee \in Fees,
             UpdateDraftPayment(p, amount, fee)
      PROVE  Goal
  <2>1. /\ pay' = [pay EXCEPT ![p] = Draft(amount, fee)]
        /\ pay[p].status = "UNPOSTED"
        /\ batch' = batch /\ journal' = journal
    BY <1>1 DEF UpdateDraftPayment
  <2>2. ~Posted(p) /\ pay[p].reversed = FALSE
    BY <1>t, <2>1 DEF ItemsInv, Posted, JournalsInv, PaymentOK, PaymentRow
  <2>3. /\ pay'[p].reversed = FALSE
        /\ \A q \in Payments : q # p => pay'[q] = pay[q]
    BY <1>t, <2>1 DEF Draft
  <2>4. \A x \in Payments \cup Documents : Posted(x)' <=> Posted(x)
    BY <2>1 DEF Posted, Recorded
  <2> QED BY <2>1, <2>2, <2>3, <2>4, NothingSeen
<1>2. ASSUME NEW p \in Payments, PostPayment(p)
      PROVE  Goal
  <2>1. /\ pay' = [pay EXCEPT ![p].status = "POSTED"]
        /\ pay[p].status = "UNPOSTED"
        /\ ~pay[p].reversed
        /\ batch' = batch
    BY <1>2 DEF PostPayment
  <2>2. GrowsAt(PostKey(p)) /\ Posted(p)'
    BY <1>2, <1>t, KeysAreKeys, StepGrows, PostAppends DEF PostPayment, Posted
  <2>3. ~Posted(p)
    BY <2>1 DEF ItemsInv, Posted
  <2>4. \A q \in Payments : /\ pay'[q].reversed = pay[q].reversed
                            /\ pay'[q].amount = pay[q].amount
    BY <1>t, <2>1 DEF PaymentRow
  <2>5. p \in Sources /\ p \notin Withdrawn /\ pay[p].amount \in PaymentAmounts
    BY <2>1 DEF Sources, Withdrawn, TotalsInv, PaymentTotals
  <2>6. Promise!Receive(p)
    BY <2>1, <2>2, <2>3, <2>4, <2>5, PostingReceives
  <2> QED BY <2>5, <2>6, <1>q
<1>3. ASSUME NEW p \in Payments, ReversePayment(p)
      PROVE  Goal
  <2>1. /\ pay' = [pay EXCEPT ![p].reversed = TRUE, ![p].status = "REVERSED"]
        /\ ~pay[p].reversed
        /\ Posted(p)
        /\ LiveBatchesOf(p) = {}
        /\ batch' = batch
    BY <1>3 DEF ReversePayment, Posted, NothingApplied
  <2>2. GrowsAt(ReversalKey(p))
    BY <1>3, <1>t, KeysAreKeys, StepGrows DEF ReversePayment, PostMirror
  <2>3. \A x \in Payments \cup Documents : Posted(x)' <=> Posted(x)
    BY <2>2, PostedAfter, KeysAreDistinct
  <2>4. p \in Sources /\ Funds[p] = pay[p].amount /\ p \notin Credits
    BY <2>1, DisjointAssumption DEF Funds, Sources, Documents
  <2>5. Funds[p] > 0
    <3>1. pay[p].amount \in PaymentAmounts
      BY DEF TotalsInv, PaymentTotals
    <3>2. pay[p].amount \in Nat \ {0}
      BY <3>1, AmountAssumption
    <3> QED BY <2>4, <3>2
  <2>6. Promise!Spread(p) = 0
    <3>1. AppliedFrom(p) = 0
      BY <2>1, SumEmpty DEF AppliedFrom, SumOver
    <3> QED BY <2>4, <3>1, SpreadIsApplied
  <2>7. /\ pay'[p].reversed = TRUE
        /\ \A q \in Payments : q # p => pay'[q] = pay[q]
    BY <1>t, <2>1 DEF PaymentRow
  <2>8. Funds' = [Funds EXCEPT ![p] = 0]
    <3>1. \A q \in Sources : q # p => Funds'[q] = Funds[q]
      BY <2>3, <2>7 DEF Funds, Sources, Documents
    <3>2. Funds'[p] = 0
      BY <2>4, <2>7 DEF Funds
    <3> QED BY <3>1, <3>2 DEF Funds
  <2>9. Withdrawn' = Withdrawn \cup {p}
    BY <2>7 DEF Withdrawn
  <2>10. Owed' = Owed /\ Applied' = Applied
    BY <2>1, <2>3, OwedStays, AppliedStays DEF Documents
  <2>11. Promise!Void(p)
    BY <2>5, <2>6, <2>8, <2>9, <2>10 DEF Promise!Void
  <2> QED BY <2>4, <2>11, <1>q
<1>4. ASSUME NEW p \in Payments, NEW b \in Batches, NEW lines \in Lines,
             AllocatePayment(p, b, lines)
      PROVE  Goal
  <2>1. /\ batch[b] = NoBatch
        /\ ~pay[p].reversed
        /\ Posted(p)
        /\ \A t \in Touched(lines) : Posted(t) /\ lines[t] <= doc[t].open
        /\ batch' = [batch EXCEPT ![b] = NewBatch(p, lines)]
    BY <1>4 DEF AllocatePayment, ValidTarget, Posted
  <2>2. PICK total \in 1 .. pay[p].unallocated :
          /\ total = BatchTotal(lines)
          /\ pay' = [pay EXCEPT ![p] = PaymentWith(@, @.allocated + total)]
    BY <1>4 DEF AllocatePayment, Spendable
  <2>3. \A q \in Payments : /\ pay'[q].reversed = pay[q].reversed
                            /\ pay'[q].amount = pay[q].amount
    BY <1>t, <2>2 DEF PaymentWith, PaymentRow
  <2>4. GrowsAt(AllocationKey(p, b))
    BY <1>4, KeysAreKeys, StepGrows DEF AllocatePayment
  <2>5. \A x \in Payments \cup Documents : Posted(x)' <=> Posted(x)
    BY <2>4, PostedAfter, KeysAreDistinct
  <2>6. UNCHANGED <<Funds, Withdrawn, Owed>>
    BY <2>3, <2>5, FundsStay, OwedStays DEF Sources, Documents
  <2>7. p \in Sources /\ p \notin Withdrawn /\ Funds[p] = pay[p].amount
    BY <2>1, DisjointAssumption DEF Funds, Withdrawn, Sources, Documents
  <2>8. pay[p].unallocated = pay[p].amount - AppliedFrom(p)
    BY DEF RemaindersAreDerived, TotalsInv, PaymentTotals
  <2>9. BatchTotal(lines) \in 1 .. (Funds[p] - AppliedFrom(p))
    BY <2>2, <2>7, <2>8
  <2>10. Promise!Apply(p)
    BY <2>1, <2>6, <2>7, <2>9, BatchApplies
  <2> QED BY <2>7, <2>10, <1>q
<1>5. ASSUME NEW b \in Batches, UnapplyPayment(b)
      PROVE  Goal
  <2> SUFFICES ASSUME NEW p, p = batch[b].source
               PROVE  Goal
    OBVIOUS
  <2>1. /\ Live(b) /\ p \in Payments
        /\ batch' = [batch EXCEPT ![b].reversed = TRUE]
    BY <1>5 DEF UnapplyPayment
  <2>2. PICK total \in 0 .. pay[p].allocated :
          pay' = [pay EXCEPT ![p] = PaymentWith(@, @.allocated - total)]
    BY <1>5 DEF UnapplyPayment
  <2>3. \A q \in Payments : /\ pay'[q].reversed = pay[q].reversed
                            /\ pay'[q].amount = pay[q].amount
    BY <1>t, <2>1, <2>2 DEF PaymentWith, PaymentRow
  <2>4. GrowsAt(BatchReversalKey(b))
    BY <1>5, KeysAreKeys, StepGrows DEF UnapplyPayment, PostMirror
  <2>5. \A x \in Payments \cup Documents : Posted(x)' <=> Posted(x)
    BY <2>4, PostedAfter, KeysAreDistinct
  <2>6. UNCHANGED <<Funds, Withdrawn, Owed>>
    BY <2>3, <2>5, FundsStay, OwedStays DEF Sources, Documents
  <2>7. p \in Sources /\ Promise!Unapply(p)
    BY <2>1, <2>6, BatchUnapplies
  <2> QED BY <2>7, <1>q
<1>6. ASSUME NEW c \in Credits, NEW b \in Batches, NEW lines \in Lines,
             ApplyCredit(c, b, lines)
      PROVE  Goal
  <2>1. /\ batch[b] = NoBatch
        /\ Posted(c)
        /\ \A t \in Touched(lines) : Posted(t) /\ lines[t] <= doc[t].open
        /\ batch' = [batch EXCEPT ![b] = NewBatch(c, lines)]
        /\ UNCHANGED <<pay, journal>>
    BY <1>6 DEF ApplyCredit, ValidTarget, Posted
  <2>2. PICK total \in 1 .. credit[c].open : total = BatchTotal(lines)
    BY <1>6 DEF ApplyCredit
  <2>3. \A x \in Payments \cup Documents : Posted(x)' <=> Posted(x)
    BY <2>1 DEF Posted, Recorded
  <2>4. UNCHANGED <<Funds, Withdrawn, Owed>>
    BY <2>1, <2>3, FundsStay, OwedStays DEF Sources, Documents
  <2>5. c \in Sources /\ c \notin Withdrawn /\ Funds[c] = Total[c]
    BY <2>1, DisjointAssumption DEF Funds, Withdrawn, Sources, Documents
  <2>6. credit[c].open = Total[c] - AppliedFrom(c)
    BY DEF RemaindersAreDerived, TotalsInv, CreditTotals
  <2>7. BatchTotal(lines) \in 1 .. (Funds[c] - AppliedFrom(c))
    BY <2>2, <2>5, <2>6
  <2>8. Promise!Apply(c)
    BY <2>1, <2>4, <2>5, <2>7, BatchApplies
  <2> QED BY <2>5, <2>8, <1>q
<1>7. ASSUME NEW b \in Batches, UnapplyCredit(b)
      PROVE  Goal
  <2> SUFFICES ASSUME NEW c, c = batch[b].source
               PROVE  Goal
    OBVIOUS
  <2>1. /\ Live(b)
        /\ batch' = [batch EXCEPT ![b].reversed = TRUE]
        /\ UNCHANGED <<pay, journal>>
    BY <1>7 DEF UnapplyCredit
  <2>2. \A x \in Payments \cup Documents : Posted(x)' <=> Posted(x)
    BY <2>1 DEF Posted, Recorded
  <2>3. UNCHANGED <<Funds, Withdrawn, Owed>>
    BY <2>1, <2>2, FundsStay, OwedStays DEF Sources, Documents
  <2>4. c \in Sources /\ Promise!Unapply(c)
    BY <2>1, <2>3, BatchUnapplies
  <2> QED BY <2>4, <1>q
<1>8. ASSUME NEW t \in Targets, PostInvoice(t) \/ PostBill(t)
      PROVE  Goal
  <2>1. /\ t \in Documents
        /\ UNCHANGED <<pay, batch>>
        /\ \E entry : \/ Post(PostKey(t), entry)
                      \/ Posted(t) /\ UNCHANGED journal
    BY <1>8 DEF PostInvoice, PostBill, Posted, Documents
  <2> QED BY <2>1, DocumentsRefine
<1>9. ASSUME NEW c \in Credits, PostCreditNote(c) \/ PostDebitNote(c)
      PROVE  Goal
  <2>1. /\ c \in Documents
        /\ UNCHANGED <<pay, batch>>
        /\ \E entry : \/ Post(PostKey(c), entry)
                      \/ Posted(c) /\ UNCHANGED journal
    BY <1>9 DEF PostCreditNote, PostDebitNote, Posted, Documents
  <2> QED BY <2>1, DocumentsRefine
<1>10. ASSUME NEW d \in Documents, LoadDocument(d)
       PROVE  Goal
  BY <1>10, NothingSeen DEF LoadDocument, Posted, Recorded
<1>11. CASE UNCHANGED vars
  BY <1>11, NothingSeen DEF vars, Posted, Recorded
<1> QED BY <1>1, <1>2, <1>3, <1>4, <1>5, <1>6, <1>7, <1>8, <1>9, <1>10, <1>11 DEF Next

\* Open-item settlement for every instance: whatever rows, statuses, batches,
\* journals and repeated calls there are, the services only ever receive money,
\* raise debts, apply within what is left on both sides, take back and void.
THEOREM SettlementImplementsOpenItems == Spec => ImplementsOpenItems
<1>1. RowsInv => TypeOK
  BY DEF RowsInv
<1> QED BY RefineInit, RefineStep, ItemsAlways, PTL
        DEF Spec, ImplementsOpenItems, Promise!Spec, Promise!itemVars

-----------------------------------------------------------------------------
(* The ledger reconciles with the rows as long as the exchange rates are   *)
(* whole: the quantum a rounded conversion gains or loses is the only      *)
(* thing that may part the two.                                            *)

WholeRates == \A x \in Payments \cup Documents : \E r \in Nat : Rate[x] = r * RateScale

-----------------------------------------------------------------------------
(* At whole rates a conversion is a multiplication.                        *)

LEMMA MultiplesAreOrdered ==
  ASSUME NEW d \in Nat, NEW i \in Int, NEW j \in Int, i <= j
  PROVE  d * i <= d * j
<1>1. d * (j - i) \in Nat
  <2>1. j - i \in Nat
    OBVIOUS
  <2>2. \A x \in Nat : d * x \in Nat
    OBVIOUS
  <2> QED BY <2>1, <2>2
<1>2. d * j = d * i + d * (j - i)
  OBVIOUS
<1>3. d * i \in Int /\ d * j \in Int
  OBVIOUS
<1> QED BY <1>1, <1>2, <1>3

LEMMA QuotientIsUnique ==
  ASSUME NEW n \in Int, NEW d \in Nat \ {0}, NEW q \in Int, d * q <= n, n < d * q + d
  PROVE  n \div d = q
<1>1. n \div d \in Int /\ d * (n \div d) <= n /\ n < d * (n \div d) + d
  OBVIOUS
<1> SUFFICES ASSUME NEW k \in Int, k = n \div d PROVE k = q
  BY <1>1
<1>2. d * k \in Int /\ d * q \in Int
  OBVIOUS
<1>3. ASSUME k < q PROVE FALSE
  <2>1. d * (k + 1) <= d * q
    BY <1>3, MultiplesAreOrdered
  <2>2. d * (k + 1) = d * k + d
    OBVIOUS
  <2> QED BY <1>1, <1>2, <2>1, <2>2
<1>4. ASSUME q < k PROVE FALSE
  <2>1. d * (q + 1) <= d * k
    BY <1>4, MultiplesAreOrdered
  <2>2. d * (q + 1) = d * q + d
    OBVIOUS
  <2> QED BY <1>1, <1>2, <2>1, <2>2
<1> QED BY <1>3, <1>4

\* What one quantum of a payment's or a document's currency is worth.
Worth(x) == Base(x, 1)

LEMMA BaseMultiplies ==
  ASSUME WholeRates, NEW x \in Payments \cup Documents
  PROVE  Worth(x) \in Nat /\ \A a \in Int : Base(x, a) = Worth(x) * a
<1>1. PICK r \in Nat : Rate[x] = r * RateScale
  BY DEF WholeRates
<1>2. ASSUME NEW a \in Int
      PROVE  Base(x, a) = r * a
  <2> SUFFICES ASSUME NEW S \in Nat \ {0}, NEW R, R = r * S
               PROVE  (2 * a * R + S) \div (2 * S) = r * a
    BY <1>1, AmountAssumption DEF Base
  <2>1. 2 * a * R + S = (2 * S) * (a * r) + S
    OBVIOUS
  <2>2. (2 * S) * (a * r) \in Int /\ 2 * S \in Nat \ {0} /\ a * r \in Int
    OBVIOUS
  <2>3. 2 * a * R + S \in Int
    BY <2>1, <2>2
  <2>4. (2 * a * R + S) \div (2 * S) = a * r
    BY <2>1, <2>2, <2>3, QuotientIsUnique
  <2> QED BY <2>4
<1>3. Worth(x) = r
  BY <1>2 DEF Worth
<1> QED BY <1>2, <1>3

LEMMA TargetsAreConverted ==
  ASSUME WholeRates, NEW t \in Targets
  PROVE  /\ Base(t, 0) = 0
         /\ \A a \in Int : Base(t, a) \in Int
         /\ \A a \in Int, b \in Int : /\ Base(t, a + b) = Base(t, a) + Base(t, b)
                                      /\ Base(t, a - b) = Base(t, a) - Base(t, b)
<1>1. Worth(t) \in Nat /\ \A a \in Int : Base(t, a) = Worth(t) * a
  BY BaseMultiplies DEF Documents
<1> QED BY <1>1

LEMMA PaymentsAreConverted ==
  ASSUME WholeRates, NEW p \in Payments
  PROVE  /\ Base(p, 0) = 0
         /\ \A a \in Int : Base(p, a) \in Int
         /\ \A a \in Int, b \in Int : /\ Base(p, a + b) = Base(p, a) + Base(p, b)
                                      /\ Base(p, a - b) = Base(p, a) - Base(p, b)
<1>1. Worth(p) \in Nat /\ \A a \in Int : Base(p, a) = Worth(p) * a
  BY BaseMultiplies
<1> QED BY <1>1

LEMMA LinesAreConverted ==
  ASSUME WholeRates, NEW lines \in Lines, NEW t \in Targets
  PROVE  /\ lines[t] \in Int
         /\ Base(t, lines[t]) \in Int
         /\ \A p \in Payments : Base(p, lines[t]) \in Int
<1>1. lines[t] \in Nat
  BY LinesAreNumbers
<1>2. \A a \in Int : Base(t, a) \in Int
  BY TargetsAreConverted
<1>3. \A p \in Payments : \A a \in Int : Base(p, a) \in Int
  BY PaymentsAreConverted
<1> QED BY <1>1, <1>2, <1>3

LEMMA TargetBaseIsNumber ==
  ASSUME WholeRates, NEW lines \in Lines
  PROVE  TargetBase(lines) \in Int
<1> DEFINE f == [t \in Targets |-> Base(t, lines[t])]
<1>1. \A t \in Targets : f[t] \in Int
  BY LinesAreConverted
<1> HIDE DEF f
<1>2. SumFunctionOnSet(f, Targets) \in Int
  BY <1>1, TablesAreFinite, SumType
<1> QED BY <1>2 DEF f, TargetBase, SumOver

\* The exchange difference of the lines of a batch is what lies between its
\* two conversions.
LEMMA LinesFx ==
  ASSUME WholeRates, NEW p \in Payments, NEW lines \in Lines
  PROVE  /\ SumFunctionOnSet(
              [t \in Targets |-> Sign(Side[p]) * (Base(p, lines[t]) - Base(t, lines[t]))],
              Targets)
              = Sign(Side[p]) * (Base(p, BatchTotal(lines)) - TargetBase(lines))
         /\ Base(p, BatchTotal(lines)) \in Int
<1> DEFINE f == [t \in Targets |-> Base(p, lines[t])]
           g == [t \in Targets |-> Base(t, lines[t])]
           d == [t \in Targets |-> f[t] - g[t]]
           e == [t \in Targets |-> Sign(Side[p]) * (Base(p, lines[t]) - Base(t, lines[t]))]
           S(h) == SumFunctionOnSet(h, Targets)
<1>1. \A t \in Targets : lines[t] \in Int /\ f[t] \in Int /\ g[t] \in Int
  BY LinesAreConverted
<1>2. Sign(Side[p]) \in Int
  BY DEF Sign
<1>3. S(f) = Base(p, BatchTotal(lines))
  <2>1. /\ Worth(p) \in Int
        /\ \A t \in Targets : lines[t] \in Int /\ f[t] = Worth(p) * lines[t]
    BY <1>1, BaseMultiplies
  <2>2. S(f) = Worth(p) * S(lines)
    <3> HIDE DEF f
    <3> QED BY <2>1, TablesAreFinite, SumScale
  <2>3. BatchTotal(lines) \in Int
    BY BatchTotalIsNumber
  <2> QED BY <2>2, <2>3, BaseMultiplies DEF BatchTotal
<1>4. S(g) = TargetBase(lines)
  BY DEF TargetBase, SumOver
<1>5. \A t \in Targets : /\ d[t] \in Int
                         /\ f[t] = g[t] + d[t]
                         /\ e[t] = Sign(Side[p]) * d[t]
  BY <1>1
<1> HIDE DEF f, g, d, e
<1>6. S(f) = S(g) + S(d)
  BY <1>1, <1>5, TablesAreFinite, SumPlus
<1>7. S(e) = Sign(Side[p]) * S(d)
  BY <1>2, <1>5, TablesAreFinite, SumScale
<1>8. S(f) \in Int /\ S(g) \in Int /\ S(d) \in Int
  BY <1>1, <1>5, TablesAreFinite, SumType
<1>9. S(d) = S(f) - S(g)
  BY <1>6, <1>8
<1> QED BY <1>3, <1>4, <1>7, <1>8, <1>9 DEF e

-----------------------------------------------------------------------------
(* What a journal says is what the row it was written for still says: the  *)
(* amounts of a posted payment and the lines of a batch never change.      *)

EntryOfPayment(p) ==
  PaymentEntry(Side[p], Base(p, pay[p].amount), Base(p, pay[p].fee))
EntryOfBatch(b) ==
  AllocationEntry(Side[batch[b].source],
                  Base(batch[b].source, BatchTotal(batch[b].lines)),
                  TargetBase(batch[b].lines))

PaymentEntries ==
  \A p \in Payments : Posted(p) => journal[PostKey(p)] = EntryOfPayment(p)
BatchEntry(b) ==
  batch[b] # NoBatch =>
    /\ batch[b].source \in Payments =>
         journal[AllocationKey(batch[b].source, b)] = EntryOfBatch(b)
    /\ \A t \in Touched(batch[b].lines) : Side[t] = Side[batch[b].source]
PostedDocs == \A t \in Targets : doc[t].status = "UNPOSTED" <=> ~Posted(t)

EntriesInv == PaymentEntries /\ (\A b \in Batches : BatchEntry(b)) /\ PostedDocs

LEMMA EntriesInit == Init => EntriesInv
BY KeysAreKeys
   DEF Init, EntriesInv, PaymentEntries, BatchEntry, PostedDocs, Posted, Recorded, Documents

\* The entry of a payment stays while no payment is posted.
LEMMA PaymentEntriesKept ==
  ASSUME PaymentEntries, NEW key, GrowsAt(key), \A p \in Payments : key # PostKey(p),
         \A p \in Payments : Posted(p) => /\ pay'[p].amount = pay[p].amount
                                          /\ pay'[p].fee = pay[p].fee
  PROVE  PaymentEntries'
<1> SUFFICES ASSUME NEW p \in Payments, Posted(p)'
             PROVE  journal'[PostKey(p)] = EntryOfPayment(p)'
  BY DEF PaymentEntries
<1>1. Posted(p) /\ journal'[PostKey(p)] = journal[PostKey(p)]
  BY KeysAreKeys DEF GrowsAt, Posted
<1> QED BY <1>1 DEF PaymentEntries, EntryOfPayment

\* So does that of a batch whose source and lines stay.
LEMMA BatchEntryKept ==
  ASSUME JournalsInv, NEW b \in Batches, BatchEntry(b), NEW key, GrowsAt(key),
         \/ batch'[b] = batch[b]
         \/ /\ batch[b] # NoBatch
            /\ batch'[b].source = batch[b].source /\ batch'[b].lines = batch[b].lines
  PROVE  BatchEntry(b)'
<1> SUFFICES ASSUME batch'[b] # NoBatch PROVE BatchEntry(b)'
  BY DEF BatchEntry
<1>1. /\ batch[b] # NoBatch
      /\ batch'[b].source = batch[b].source /\ batch'[b].lines = batch[b].lines
  OBVIOUS
<1>2. batch[b].source \in Payments =>
        journal'[AllocationKey(batch[b].source, b)] = journal[AllocationKey(batch[b].source, b)]
  BY <1>1, KeysAreKeys DEF JournalsInv, BatchOK, GrowsAt
<1> QED BY <1>1, <1>2 DEF BatchEntry, EntryOfBatch, Touched

LEMMA PostedDocsKept ==
  ASSUME PostedDocs, NEW key, GrowsAt(key),
         \A t \in Targets : /\ key # PostKey(t)
                            /\ \/ doc'[t].status = doc[t].status
                               \/ Posted(t) /\ doc'[t].status # "UNPOSTED"
  PROVE  PostedDocs'
BY PostedAfter DEF PostedDocs, Documents

\* Applying or un-applying lines leaves every document it touches posted.
LEMMA SettledStatus ==
  ASSUME NEW s, NEW lines, NEW sign, doc' = SettledDocs(s, lines, sign)
  PROVE  \A t \in Targets : /\ t \notin Touched(lines) => doc'[t] = doc[t]
                            /\ t \in Touched(lines) => doc'[t].status # "UNPOSTED"
BY StatusForIsStatus DEF SettledDocs, DocWith

LEMMA EntriesStep ==
  TypeOK /\ TypeOK' /\ JournalsInv /\ ItemsInv /\ EntriesInv /\ [Next]_vars => EntriesInv'
<1> SUFFICES ASSUME TypeOK, TypeOK', JournalsInv, ItemsInv, EntriesInv, [Next]_vars
             PROVE  EntriesInv'
  OBVIOUS
<1>t. /\ pay \in [Payments -> PaymentRow]
      /\ doc \in [Targets -> DocRow]
      /\ journal \in [Keys -> Entry \cup {NoEntry}]
      /\ batch \in [Batches -> BatchRow \cup {NoBatch}]
  BY DEF TypeOK
<1>e. PaymentEntries /\ (\A b \in Batches : BatchEntry(b)) /\ PostedDocs
  BY DEF EntriesInv
<1>b. ASSUME NEW key, GrowsAt(key), batch' = batch
      PROVE  \A b \in Batches : BatchEntry(b)'
  BY <1>b, <1>e, BatchEntryKept
<1>1. ASSUME NEW p \in Payments, NEW amount \in PaymentAmounts, NEW fee \in Fees,
             UpdateDraftPayment(p, amount, fee)
      PROVE  EntriesInv'
  <2>1. /\ \A q \in Payments : Posted(q) => pay'[q] = pay[q]
        /\ doc' = doc /\ batch' = batch /\ journal' = journal
    BY <1>1, <1>t DEF UpdateDraftPayment, ItemsInv, Posted
  <2>2. GrowsAt(ReversalKey(p))
    BY <2>1, StepGrows
  <2> QED BY <2>1, <2>2, <1>b, <1>e, PaymentEntriesKept, PostedDocsKept, KeysAreDistinct
          DEF EntriesInv
<1>2. ASSUME NEW p \in Payments, PostPayment(p)
      PROVE  EntriesInv'
  <2>1. /\ pay' = [pay EXCEPT ![p].status = "POSTED"]
        /\ pay[p].status = "UNPOSTED"
        /\ doc' = doc /\ batch' = batch
        /\ Post(PostKey(p), EntryOfPayment(p))
    BY <1>2 DEF PostPayment, EntryOfPayment
  <2>2. /\ GrowsAt(PostKey(p)) /\ ~Posted(p)
        /\ journal'[PostKey(p)] = EntryOfPayment(p)
    BY <2>1, <1>t, KeysAreKeys, StepGrows, PostAppends DEF ItemsInv, Posted
  <2>3. \A q \in Payments : pay'[q].amount = pay[q].amount /\ pay'[q].fee = pay[q].fee
    BY <2>1, <1>t DEF PaymentRow
  <2>4. \A q \in Payments : EntryOfPayment(q)' = EntryOfPayment(q)
    BY <2>3 DEF EntryOfPayment
  <2>5. \A q \in Payments : q # p /\ Posted(q)' =>
          Posted(q) /\ journal'[PostKey(q)] = journal[PostKey(q)]
    BY <2>2, KeysAreKeys, KeysAreDistinct DEF GrowsAt, Posted
  <2>6. PaymentEntries'
    BY <1>e, <2>2, <2>4, <2>5 DEF PaymentEntries
  <2>7. \A t \in Targets : PostKey(p) # PostKey(t)
    BY KeysAreDistinct, DisjointAssumption DEF Documents
  <2>8. PostedDocs'
    BY <1>e, <2>1, <2>2, <2>7, PostedDocsKept
  <2> QED BY <2>1, <2>2, <2>6, <2>8, <1>b DEF EntriesInv
<1>3. ASSUME NEW p \in Payments, ReversePayment(p)
      PROVE  EntriesInv'
  <2>1. /\ pay' = [pay EXCEPT ![p].reversed = TRUE, ![p].status = "REVERSED"]
        /\ doc' = doc /\ batch' = batch
    BY <1>3 DEF ReversePayment
  <2>2. GrowsAt(ReversalKey(p))
    BY <1>3, KeysAreKeys, StepGrows DEF ReversePayment, PostMirror
  <2>3. \A q \in Payments : pay'[q].amount = pay[q].amount /\ pay'[q].fee = pay[q].fee
    BY <2>1, <1>t DEF PaymentRow
  <2> QED BY <2>1, <2>2, <2>3, <1>b, <1>e, PaymentEntriesKept, PostedDocsKept, KeysAreDistinct
          DEF EntriesInv
<1>4. ASSUME NEW p \in Payments, NEW b \in Batches, NEW lines \in Lines,
             AllocatePayment(p, b, lines)
      PROVE  EntriesInv'
  <2> DEFINE entry == AllocationEntry(Side[p], Base(p, BatchTotal(lines)), TargetBase(lines))
  <2>1. /\ batch[b] = NoBatch
        /\ \A t \in Touched(lines) : Posted(t) /\ Side[t] = Side[p]
        /\ batch' = [batch EXCEPT ![b] = NewBatch(p, lines)]
        /\ doc' = SettledDocs(p, lines, 1)
        /\ Post(AllocationKey(p, b), entry)
    BY <1>4 DEF AllocatePayment, ValidTarget, Posted
  <2>2. PICK total \in 1 .. pay[p].unallocated :
          pay' = [pay EXCEPT ![p] = PaymentWith(@, @.allocated + total)]
    BY <1>4 DEF AllocatePayment, Spendable
  <2>3. \A q \in Payments : pay'[q].amount = pay[q].amount /\ pay'[q].fee = pay[q].fee
    BY <1>t, <2>2 DEF PaymentWith, PaymentRow
  <2>4. /\ GrowsAt(AllocationKey(p, b))
        /\ journal'[AllocationKey(p, b)] = entry
    <3>1. ~Recorded(AllocationKey(p, b))
      BY <2>1 DEF JournalsInv, BatchOK
    <3> HIDE DEF entry
    <3> QED BY <2>1, <3>1, <1>t, KeysAreKeys, StepGrows, PostAppends
  <2>5. PaymentEntries'
    BY <2>3, <2>4, <1>e, PaymentEntriesKept, KeysAreDistinct
  <2>6. ASSUME NEW c \in Batches
        PROVE  BatchEntry(c)'
    <3>1. CASE c = b
      <4>1. batch'[c].source = p /\ batch'[c].lines = lines
        BY <2>1, <3>1, <1>t DEF NewBatch
      <4> QED BY <2>1, <2>4, <3>1, <4>1 DEF BatchEntry, EntryOfBatch, Touched
    <3>2. CASE c # b
      <4>1. batch'[c] = batch[c]
        BY <2>1, <3>2
      <4> QED BY <2>4, <4>1, <1>e, BatchEntryKept
    <3> QED BY <3>1, <3>2
  <2>7. PostedDocs'
    <3>1. \A t \in Targets : \/ doc'[t].status = doc[t].status
                             \/ Posted(t) /\ doc'[t].status # "UNPOSTED"
      BY <2>1, SettledStatus
    <3> QED BY <2>4, <3>1, <1>e, PostedDocsKept, KeysAreDistinct
  <2> QED BY <2>5, <2>6, <2>7 DEF EntriesInv
<1>5. ASSUME NEW b \in Batches, UnapplyPayment(b) \/ UnapplyCredit(b)
      PROVE  EntriesInv'
  <2> SUFFICES ASSUME NEW s, s = batch[b].source, NEW lines, lines = batch[b].lines
               PROVE  EntriesInv'
    OBVIOUS
  <2>1. /\ Live(b)
        /\ batch' = [batch EXCEPT ![b].reversed = TRUE]
        /\ doc' = SettledDocs(s, lines, -1)
    BY <1>5 DEF UnapplyPayment, UnapplyCredit
  <2>2. GrowsAt(BatchReversalKey(b))
    BY <1>5, KeysAreKeys, StepGrows DEF UnapplyPayment, UnapplyCredit, PostMirror
  <2>3. \A q \in Payments : pay'[q].amount = pay[q].amount /\ pay'[q].fee = pay[q].fee
    <3>1. CASE UnapplyPayment(b)
      <4>1. PICK total \in 0 .. pay[s].allocated :
              pay' = [pay EXCEPT ![s] = PaymentWith(@, @.allocated - total)]
        BY <3>1 DEF UnapplyPayment
      <4> QED BY <1>t, <3>1, <4>1 DEF PaymentWith, PaymentRow, UnapplyPayment
    <3>2. CASE UnapplyCredit(b)
      BY <3>2 DEF UnapplyCredit
    <3> QED BY <1>5, <3>1, <3>2
  <2>4. PaymentEntries'
    BY <2>2, <2>3, <1>e, PaymentEntriesKept, KeysAreDistinct
  <2>5. ASSUME NEW c \in Batches
        PROVE  BatchEntry(c)'
    <3>1. \/ batch'[c] = batch[c]
          \/ /\ batch[c] # NoBatch
             /\ batch'[c].source = batch[c].source /\ batch'[c].lines = batch[c].lines
      <4>1. CASE c = b
        <5>1. batch[b] \in BatchRow /\ batch[b] # NoBatch
          BY <1>t, <2>1 DEF Live
        <5> QED BY <1>t, <2>1, <4>1, <5>1 DEF BatchRow
      <4>2. CASE c # b
        BY <2>1, <4>2
      <4> QED BY <4>1, <4>2
    <3> QED BY <2>2, <3>1, <1>e, BatchEntryKept
  <2>6. PostedDocs'
    <3>1. \A t \in Touched(lines) : Posted(t)
      BY <2>1 DEF JournalsInv, BatchOK, Live, Posted
    <3>2. \A t \in Targets : \/ doc'[t].status = doc[t].status
                             \/ Posted(t) /\ doc'[t].status # "UNPOSTED"
      BY <2>1, <3>1, SettledStatus
    <3> QED BY <2>2, <3>2, <1>e, PostedDocsKept, KeysAreDistinct
  <2> QED BY <2>4, <2>5, <2>6 DEF EntriesInv
<1>6. ASSUME NEW c \in Credits, NEW b \in Batches, NEW lines \in Lines,
             ApplyCredit(c, b, lines)
      PROVE  EntriesInv'
  <2>1. /\ batch[b] = NoBatch
        /\ \A t \in Touched(lines) : Posted(t) /\ Side[t] = Side[c]
        /\ batch' = [batch EXCEPT ![b] = NewBatch(c, lines)]
        /\ doc' = SettledDocs(c, lines, 1)
        /\ UNCHANGED <<pay, journal>>
    BY <1>6 DEF ApplyCredit, ValidTarget, Posted
  <2>2. GrowsAt(BatchReversalKey(b))
    BY <2>1, StepGrows
  <2>3. PaymentEntries'
    BY <2>1, <2>2, <1>e, PaymentEntriesKept, KeysAreDistinct
  <2>4. ASSUME NEW d \in Batches
        PROVE  BatchEntry(d)'
    <3>1. CASE d = b
      <4>1. batch'[d].source = c /\ batch'[d].lines = lines
        BY <2>1, <3>1, <1>t DEF NewBatch
      <4>2. c \notin Payments
        BY DisjointAssumption DEF Documents
      <4> QED BY <2>1, <4>1, <4>2 DEF BatchEntry, Touched
    <3>2. CASE d # b
      <4>1. batch'[d] = batch[d]
        BY <2>1, <3>2
      <4> QED BY <2>2, <4>1, <1>e, BatchEntryKept
    <3> QED BY <3>1, <3>2
  <2>5. PostedDocs'
    <3>1. \A t \in Targets : \/ doc'[t].status = doc[t].status
                             \/ Posted(t) /\ doc'[t].status # "UNPOSTED"
      BY <2>1, SettledStatus
    <3> QED BY <2>2, <3>1, <1>e, PostedDocsKept, KeysAreDistinct
  <2> QED BY <2>3, <2>4, <2>5 DEF EntriesInv
<1>7. ASSUME NEW t \in Targets, PostInvoice(t) \/ PostBill(t)
      PROVE  EntriesInv'
  <2>1. /\ UNCHANGED <<pay, batch>>
        /\ GrowsAt(PostKey(t)) /\ Posted(t)'
        /\ \/ doc'[t].status = "POSTED"
           \/ Posted(t) /\ doc' = doc
        /\ \A u \in Targets : u # t => doc'[u] = doc[u]
    <3>1. PostKey(t) \in Keys
      BY KeysAreKeys DEF Documents
    <3>2. CASE PostInvoice(t)
      BY <3>1, <3>2, <1>t, StepGrows, PostAppends DEF PostInvoice, Posted, DocRow
    <3>3. CASE PostBill(t) /\ Posted(t)
      <4>1. UNCHANGED <<pay, doc, batch, journal>>
        BY <3>3 DEF PostBill, Post, Posted
      <4> QED BY <3>3, <4>1, StepGrows DEF Posted, Recorded
    <3>4. CASE PostBill(t) /\ ~Posted(t)
      BY <3>1, <3>4, <1>t, StepGrows, PostAppends DEF PostBill, Posted
    <3> QED BY <1>7, <3>2, <3>3, <3>4
  <2>2. \A p \in Payments : PostKey(t) # PostKey(p)
    BY KeysAreDistinct, DisjointAssumption DEF Documents
  <2>3. PaymentEntries'
    BY <2>1, <2>2, <1>e, PaymentEntriesKept
  <2>4. \A u \in Targets : u # t => (Posted(u)' <=> Posted(u))
    BY <2>1, PostedAfter, KeysAreDistinct DEF Documents
  <2>5. PostedDocs'
    BY <1>e, <2>1, <2>4 DEF PostedDocs
  <2> QED BY <2>1, <2>3, <2>5, <1>b DEF EntriesInv
<1>8. ASSUME NEW c \in Credits, PostCreditNote(c) \/ PostDebitNote(c)
      PROVE  EntriesInv'
  <2>1. UNCHANGED <<pay, doc, batch>> /\ GrowsAt(PostKey(c))
    BY <1>8, KeysAreKeys, StepGrows DEF PostCreditNote, PostDebitNote, Documents
  <2>2. /\ \A p \in Payments : PostKey(c) # PostKey(p)
        /\ \A t \in Targets : PostKey(c) # PostKey(t)
    BY KeysAreDistinct, DisjointAssumption DEF Documents
  <2> QED BY <2>1, <2>2, <1>b, <1>e, PaymentEntriesKept, PostedDocsKept DEF EntriesInv
<1>9. ASSUME NEW d \in Documents, LoadDocument(d)
      PROVE  EntriesInv'
  BY <1>9, <1>e DEF LoadDocument, EntriesInv, PaymentEntries, EntryOfPayment, BatchEntry,
                    EntryOfBatch, PostedDocs, Posted, Recorded, Touched
<1>10. CASE UNCHANGED vars
  BY <1>10, <1>e DEF vars, EntriesInv, PaymentEntries, EntryOfPayment, BatchEntry,
                     EntryOfBatch, PostedDocs, Posted, Recorded, Touched
<1> QED BY <1>1, <1>2, <1>3, <1>4, <1>5, <1>6, <1>7, <1>8, <1>9, <1>10 DEF Next

LEMMA EntriesAlways ==
  Spec => [](RowsInv /\ JournalsInv /\ TotalsInv /\ ItemsInv /\ EntriesInv)
<1>1. RowsInv => TypeOK
  BY DEF RowsInv
<1> QED BY <1>1, ItemsAlways, EntriesInit, EntriesStep, PTL DEF Spec

-----------------------------------------------------------------------------
(* The balance of an account moves by what the one new entry says of it.   *)

LEMMA ImagesAreFinite ==
  ASSUME NEW S, IsFiniteSet(S), NEW T, NEW f \in [S -> T],
         \A y \in T : \E x \in S : f[x] = y
  PROVE  IsFiniteSet(T)
<1>1. f \in Surjection(S, T)
  BY DEF Surjection
<1> QED BY <1>1, FS_Surjection

LEMMA KeysAreFinite == IsFiniteSet(Keys)
<1> DEFINE X == Payments \cup Documents
           post == {PostKey(x) : x \in X}
           back == {ReversalKey(p) : p \in Payments}
           applied == {AllocationKey(p, b) : p \in Payments, b \in Batches}
           undone == {BatchReversalKey(b) : b \in Batches}
<1>1. IsFiniteSet(post)
  <2> DEFINE f == [x \in X |-> PostKey(x)]
  <2>1. f \in [X -> post] /\ \A y \in post : \E x \in X : f[x] = y
    OBVIOUS
  <2>2. IsFiniteSet(X)
    BY TablesAreFinite, FS_Union DEF Documents
  <2> HIDE DEF f, X, post
  <2> QED BY <2>1, <2>2, ImagesAreFinite
<1>2. IsFiniteSet(back)
  <2> DEFINE f == [p \in Payments |-> ReversalKey(p)]
  <2>1. f \in [Payments -> back] /\ \A y \in back : \E p \in Payments : f[p] = y
    OBVIOUS
  <2> HIDE DEF f, back
  <2> QED BY <2>1, TablesAreFinite, ImagesAreFinite
<1>3. IsFiniteSet(applied)
  <2> DEFINE S == Payments \X Batches
             f == [s \in S |-> AllocationKey(s[1], s[2])]
  <2>1. f \in [S -> applied]
    OBVIOUS
  <2>2. \A y \in applied : \E s \in S : f[s] = y
    <3> SUFFICES ASSUME NEW p \in Payments, NEW b \in Batches
                 PROVE  \E s \in S : f[s] = AllocationKey(p, b)
      OBVIOUS
    <3>1. <<p, b>> \in S /\ f[<<p, b>>] = AllocationKey(p, b)
      OBVIOUS
    <3> QED BY <3>1
  <2>3. IsFiniteSet(S)
    BY TablesAreFinite, FS_Product
  <2> HIDE DEF f, S, applied
  <2> QED BY <2>1, <2>2, <2>3, ImagesAreFinite
<1>4. IsFiniteSet(undone)
  <2> DEFINE f == [b \in Batches |-> BatchReversalKey(b)]
  <2>1. f \in [Batches -> undone] /\ \A y \in undone : \E b \in Batches : f[b] = y
    OBVIOUS
  <2> HIDE DEF f, undone
  <2> QED BY <2>1, TablesAreFinite, ImagesAreFinite
<1>5. Keys = ((post \cup back) \cup applied) \cup undone
  BY DEF Keys
<1> HIDE DEF post, back, applied, undone
<1> QED BY <1>1, <1>2, <1>3, <1>4, <1>5, FS_Union

Effect(a) == [k \in Keys |-> IF Recorded(k) THEN journal[k][a] ELSE 0]

LEMMA EffectsAreNumbers ==
  ASSUME TypeOK, NEW a \in Accounts, NEW k \in Keys
  PROVE  Effect(a)[k] \in Int
<1>1. journal[k] \in Entry \cup {NoEntry}
  BY DEF TypeOK
<1> QED BY <1>1, AmountAssumption DEF Effect, Recorded, Entry

LEMMA BalanceIsSum ==
  TypeOK => \A a \in Accounts : /\ Balance(a) = SumFunctionOnSet(Effect(a), Keys)
                                /\ Balance(a) \in Int
<1> SUFFICES ASSUME TypeOK, NEW a \in Accounts
             PROVE  /\ Balance(a) = SumFunctionOnSet(Effect(a), Keys)
                    /\ Balance(a) \in Int
  OBVIOUS
<1> DEFINE R == {k \in Keys : Recorded(k)}
           f == [k \in R |-> journal[k][a]]
           g == Effect(a)
<1>1. /\ \A k \in R : f[k] \in Int /\ g[k] = f[k]
      /\ \A k \in Keys \ R : g[k] = 0
  BY EffectsAreNumbers DEF Effect
<1>2. \A k \in Keys : g[k] \in Int
  BY EffectsAreNumbers
<1>3. Balance(a) = SumFunctionOnSet(f, R)
  BY DEF Balance, SumOver
<1>4. R \in SUBSET Keys
  OBVIOUS
<1> HIDE DEF R, f, g
<1>5. SumFunctionOnSet(g, Keys) = SumFunctionOnSet(f, R)
  BY <1>1, <1>4, KeysAreFinite, SumSupport
<1>6. SumFunctionOnSet(g, Keys) \in Int
  BY <1>2, KeysAreFinite, SumType
<1> QED BY <1>3, <1>5, <1>6 DEF g

LEMMA BalanceAfter ==
  TypeOK' => \A a \in Accounts : /\ Balance(a)' = SumFunctionOnSet(Effect(a)', Keys)
                                 /\ Balance(a)' \in Int
<1>1. (TypeOK => \A a \in Accounts : /\ Balance(a) = SumFunctionOnSet(Effect(a), Keys)
                                     /\ Balance(a) \in Int)'
  BY BalanceIsSum, PTL
<1> QED BY <1>1

LEMMA BalanceMoves ==
  ASSUME TypeOK, TypeOK', NEW key \in Keys, NEW entry, Post(key, entry), ~Recorded(key)
  PROVE  \A a \in Accounts : entry[a] \in Int /\ Balance(a)' = Balance(a) + entry[a]
<1> SUFFICES ASSUME NEW a \in Accounts
             PROVE  entry[a] \in Int /\ Balance(a)' = Balance(a) + entry[a]
  OBVIOUS
<1> DEFINE f == Effect(a)
           g == Effect(a)'
<1>1. /\ Recorded(key)' /\ journal'[key] = entry
      /\ \A k \in Keys \ {key} : journal'[k] = journal[k] /\ (Recorded(k)' <=> Recorded(k))
  BY PostAppends DEF TypeOK
<1>2. entry[a] \in Int
  BY AmountAssumption DEF Post, Entry
<1>3. f[key] = 0 /\ g[key] = entry[a]
  BY <1>1 DEF Effect
<1>4. /\ g[key] \in Int
      /\ \A k \in Keys : f[k] \in Int
      /\ \A k \in Keys \ {key} : g[k] = f[k]
  BY <1>1, <1>2, <1>3, EffectsAreNumbers DEF Effect
<1> HIDE DEF f, g
<1>5. SumFunctionOnSet(g, Keys) = SumFunctionOnSet(f, Keys) + (g[key] - f[key])
  BY <1>4, KeysAreFinite, SumChange
<1>6. /\ Balance(a) = SumFunctionOnSet(f, Keys)
      /\ Balance(a)' = SumFunctionOnSet(g, Keys)
      /\ Balance(a) \in Int
  BY BalanceIsSum, BalanceAfter DEF f, g
<1> QED BY <1>2, <1>3, <1>5, <1>6

LEMMA BalanceStays ==
  ASSUME journal' = journal
  PROVE  \A a : Balance(a)' = Balance(a)
BY DEF Balance, SumOver, Recorded

LEMMA PostingMoves ==
  ASSUME TypeOK, TypeOK', ItemsInv, NEW p \in Payments, PostPayment(p)
  PROVE  \A a \in Accounts : Balance(a)' = Balance(a) + EntryOfPayment(p)[a]
<1>1. Post(PostKey(p), EntryOfPayment(p)) /\ ~Recorded(PostKey(p)) /\ PostKey(p) \in Keys
  BY KeysAreKeys DEF PostPayment, EntryOfPayment, ItemsInv
<1> QED BY <1>1, BalanceMoves

LEMMA ReversalMoves ==
  ASSUME WholeRates, TypeOK, TypeOK', JournalsInv, EntriesInv,
         NEW p \in Payments, ReversePayment(p)
  PROVE  \A a \in Accounts : Balance(a)' = Balance(a) - EntryOfPayment(p)[a]
<1> DEFINE entry == Mirror(EntryOfPayment(p))
<1>1. /\ Post(ReversalKey(p), entry)
      /\ ~Recorded(ReversalKey(p))
      /\ ReversalKey(p) \in Keys
  BY KeysAreKeys DEF ReversePayment, PostMirror, EntriesInv, PaymentEntries, Posted,
                     JournalsInv, PaymentOK
<1>2. \A a \in Accounts : entry[a] = -EntryOfPayment(p)[a]
  BY DEF Mirror
<1> HIDE DEF entry
<1>3. \A a \in Accounts : entry[a] \in Int /\ Balance(a)' = Balance(a) + entry[a]
  BY <1>1, BalanceMoves
<1>4. \A a \in Accounts : EntryOfPayment(p)[a] \in Int
  <2> SUFFICES ASSUME NEW x \in Int, NEW y \in Int, NEW side
               PROVE  \A a \in Accounts : PaymentEntry(side, x, y)[a] \in Int
    <3>1. pay[p].amount \in Nat /\ pay[p].fee \in Nat
      BY DEF TypeOK, PaymentRow
    <3>2. Base(p, pay[p].amount) \in Int /\ Base(p, pay[p].fee) \in Int
      <4>1. \A a \in Int : Base(p, a) \in Int
        BY PaymentsAreConverted
      <4> QED BY <3>1, <4>1
    <3> QED BY <3>2 DEF EntryOfPayment
  <2> QED BY DEF PaymentEntry, Sign
<1>5. \A a \in Accounts : Balance(a) \in Int
  BY BalanceIsSum
<1> QED BY <1>2, <1>3, <1>4, <1>5

LEMMA AllocationMoves ==
  ASSUME TypeOK, TypeOK', JournalsInv, NEW p \in Payments, NEW b \in Batches,
         NEW lines, AllocatePayment(p, b, lines)
  PROVE  \A a \in Accounts : Balance(a)' = Balance(a)
           + AllocationEntry(Side[p], Base(p, BatchTotal(lines)), TargetBase(lines))[a]
<1> DEFINE entry == AllocationEntry(Side[p], Base(p, BatchTotal(lines)), TargetBase(lines))
<1>1. /\ Post(AllocationKey(p, b), entry)
      /\ ~Recorded(AllocationKey(p, b))
      /\ AllocationKey(p, b) \in Keys
  BY KeysAreKeys DEF AllocatePayment, JournalsInv, BatchOK
<1> HIDE DEF entry
<1>2. \A a \in Accounts : Balance(a)' = Balance(a) + entry[a]
  BY <1>1, BalanceMoves
<1> QED BY <1>2 DEF entry

LEMMA UnapplyMoves ==
  ASSUME WholeRates, TypeOK, TypeOK', JournalsInv, EntriesInv, NEW b \in Batches,
         UnapplyPayment(b)
  PROVE  \A a \in Accounts : /\ EntryOfBatch(b)[a] \in Int
                             /\ Balance(a)' = Balance(a) - EntryOfBatch(b)[a]
<1> DEFINE entry == Mirror(EntryOfBatch(b))
<1>1. /\ Live(b) /\ batch[b].source \in Payments
      /\ PostMirror(BatchReversalKey(b), AllocationKey(batch[b].source, b))
  BY DEF UnapplyPayment
<1>2. /\ Post(BatchReversalKey(b), entry)
      /\ ~Recorded(BatchReversalKey(b))
      /\ BatchReversalKey(b) \in Keys
  BY <1>1, KeysAreKeys DEF PostMirror, EntriesInv, BatchEntry, JournalsInv, BatchOK, Live
<1>3. \A a \in Accounts : entry[a] = -EntryOfBatch(b)[a]
  BY DEF Mirror
<1>4. \A a \in Accounts : EntryOfBatch(b)[a] \in Int
  <2> SUFFICES ASSUME NEW x \in Int, NEW y \in Int, NEW side
               PROVE  \A a \in Accounts : AllocationEntry(side, x, y)[a] \in Int
    <3>1. batch[b].lines \in Lines
      BY <1>1, LiveLines
    <3>2. /\ TargetBase(batch[b].lines) \in Int
          /\ Base(batch[b].source, BatchTotal(batch[b].lines)) \in Int
      BY <1>1, <3>1, TargetBaseIsNumber, LinesFx
    <3> QED BY <3>2 DEF EntryOfBatch
  <2> QED BY DEF AllocationEntry, Sign
<1> HIDE DEF entry
<1>5. \A a \in Accounts : entry[a] \in Int /\ Balance(a)' = Balance(a) + entry[a]
  BY <1>2, BalanceMoves
<1>6. \A a \in Accounts : Balance(a) \in Int
  BY BalanceIsSum
<1> QED BY <1>3, <1>4, <1>5, <1>6

\* A document posts its entry once.
LEMMA DocumentMoves ==
  ASSUME TypeOK, TypeOK', NEW d \in Documents, NEW entry,
         Post(PostKey(d), entry) \/ (Posted(d) /\ UNCHANGED journal)
  PROVE  \A a \in Accounts : Balance(a)' = Balance(a) + IF Posted(d) THEN 0 ELSE entry[a]
<1>1. PostKey(d) \in Keys
  BY KeysAreKeys
<1>2. CASE Posted(d)
  <2>1. journal' = journal
    BY <1>2 DEF Post, Posted
  <2>2. \A a \in Accounts : Balance(a)' = Balance(a) /\ Balance(a) \in Int
    BY <2>1, BalanceStays, BalanceIsSum
  <2> QED BY <1>2, <2>2
<1>3. CASE ~Posted(d)
  <2>1. \A a \in Accounts : Balance(a)' = Balance(a) + entry[a]
    BY <1>1, <1>3, BalanceMoves DEF Posted
  <2> QED BY <1>3, <2>1
<1> QED BY <1>2, <1>3

-----------------------------------------------------------------------------
(* The other side of each equation, as a sum over a whole table.           *)

HeldTotal(side) == SumOver(PostedPayments(side), LAMBDA p : Base(p, pay[p].unallocated))
NotedCredits(side) == {c \in Credits : Side[c] = side /\ Recorded(PostKey(c))}
UsedBatches(side) == {b \in LiveBatchesBy(Credits) : Side[batch[b].source] = side}
GainTotal == SumOver(LiveBatchesBy(Payments), BatchFx)

LEMMA GainOfBatch ==
  ASSUME WholeRates, TypeOK, NEW b \in Batches, Live(b), batch[b].source \in Payments
  PROVE  /\ BatchFx(b) = Sign(Side[batch[b].source])
              * (Base(batch[b].source, BatchTotal(batch[b].lines)) - TargetBase(batch[b].lines))
         /\ BatchFx(b) \in Int
<1> SUFFICES ASSUME NEW p \in Payments, p = batch[b].source,
                    NEW lines \in Lines, lines = batch[b].lines
             PROVE  /\ BatchFx(b) = Sign(Side[p])
                         * (Base(p, BatchTotal(lines)) - TargetBase(lines))
                    /\ BatchFx(b) \in Int
  BY LiveLines
<1>1. BatchFx(b) = SumFunctionOnSet(
        [t \in Targets |-> Sign(Side[p]) * (Base(p, lines[t]) - Base(t, lines[t]))], Targets)
  BY DEF BatchFx, SumOver, RowFx
<1>2. Base(p, BatchTotal(lines)) \in Int /\ TargetBase(lines) \in Int
  BY LinesFx, TargetBaseIsNumber
<1>s. Sign(Side[p]) \in Int
  BY DEF Sign
<1>3. BatchFx(b) = Sign(Side[p]) * (Base(p, BatchTotal(lines)) - TargetBase(lines))
  BY <1>1, LinesFx
<1> QED BY <1>2, <1>s, <1>3

\* What the advance account should hold of each payment.
Held(side) == [p \in Payments |-> IF p \in PostedPayments(side) THEN Base(p, pay[p].unallocated) ELSE 0]

LEMMA HeldIsSum ==
  WholeRates /\ TypeOK => \A z :
    /\ HeldTotal(z) = SumFunctionOnSet(Held(z), Payments)
    /\ \A p \in Payments : Held(z)[p] \in Int
<1> SUFFICES ASSUME NEW side, WholeRates, TypeOK
             PROVE  /\ HeldTotal(side) = SumFunctionOnSet(Held(side), Payments)
                    /\ \A p \in Payments : Held(side)[p] \in Int
  OBVIOUS
<1> DEFINE R == PostedPayments(side)
           f == [p \in R |-> Base(p, pay[p].unallocated)]
           g == Held(side)
<1>1. ASSUME NEW p \in R
      PROVE  Base(p, pay[p].unallocated) \in Int
  <2>1. p \in Payments /\ pay[p].unallocated \in Int
    BY DEF PostedPayments, TypeOK, PaymentRow
  <2>2. \A a \in Int : Base(p, a) \in Int
    BY <2>1, PaymentsAreConverted
  <2> QED BY <2>1, <2>2
<1>2. R \in SUBSET Payments
  BY DEF HeldTotal, PostedPayments
<1>3. /\ \A p \in R : f[p] \in Int /\ g[p] = f[p]
      /\ \A p \in Payments \ R : g[p] = 0
      /\ \A p \in Payments : g[p] \in Int
  BY <1>1, <1>2 DEF Held
<1>4. HeldTotal(side) = SumFunctionOnSet(f, R)
  BY DEF SumOver, HeldTotal, PostedPayments
<1> HIDE DEF R, f, g
<1>5. SumFunctionOnSet(g, Payments) = SumFunctionOnSet(f, R)
  BY <1>2, <1>3, TablesAreFinite, SumSupport
<1> QED BY <1>3, <1>4, <1>5 DEF g

LEMMA HeldMoves ==
  ASSUME WholeRates, TypeOK, TypeOK', NEW side, NEW x \in Payments,
         \A y \in Payments \ {x} : Held(side)'[y] = Held(side)[y]
  PROVE  HeldTotal(side)' = HeldTotal(side) + (Held(side)'[x] - Held(side)[x])
<1>1. (WholeRates /\ TypeOK => \A z :
         /\ HeldTotal(z) = SumFunctionOnSet(Held(z), Payments)
         /\ \A p \in Payments : Held(z)[p] \in Int)'
  BY HeldIsSum, PTL
<1>2. WholeRates'
  BY DEF WholeRates
<1> DEFINE f == Held(side)
           g == Held(side)'
<1>3. /\ HeldTotal(side) = SumFunctionOnSet(f, Payments)
      /\ HeldTotal(side)' = SumFunctionOnSet(g, Payments)
      /\ \A y \in Payments : f[y] \in Int /\ g[y] \in Int
  BY <1>1, <1>2, HeldIsSum
<1> HIDE DEF f, g
<1>4. \A y \in Payments \ {x} : g[y] = f[y]
  BY DEF f, g
<1>5. SumFunctionOnSet(g, Payments) = SumFunctionOnSet(f, Payments) + (g[x] - f[x])
  BY <1>3, <1>4, TablesAreFinite, SumChange
<1> QED BY <1>3, <1>5 DEF f, g

LEMMA HeldStays ==
  ASSUME WholeRates, TypeOK, TypeOK', NEW side, Held(side)' = Held(side)
  PROVE  HeldTotal(side)' = HeldTotal(side)
<1>1. (WholeRates /\ TypeOK => \A z :
         /\ HeldTotal(z) = SumFunctionOnSet(Held(z), Payments)
         /\ \A p \in Payments : Held(z)[p] \in Int)'
  BY HeldIsSum, PTL
<1> QED BY <1>1, HeldIsSum DEF WholeRates

\* What the control account should show of each document.
Due(side) == [t \in Targets |-> IF t \in OpenDocs(side) THEN Base(t, doc[t].open) ELSE 0]

LEMMA DueIsSum ==
  WholeRates /\ TypeOK => \A z :
    /\ OpenBase(z) = SumFunctionOnSet(Due(z), Targets)
    /\ \A t \in Targets : Due(z)[t] \in Int
<1> SUFFICES ASSUME NEW side, WholeRates, TypeOK
             PROVE  /\ OpenBase(side) = SumFunctionOnSet(Due(side), Targets)
                    /\ \A t \in Targets : Due(side)[t] \in Int
  OBVIOUS
<1> DEFINE R == OpenDocs(side)
           f == [t \in R |-> Base(t, doc[t].open)]
           g == Due(side)
<1>1. ASSUME NEW t \in R
      PROVE  Base(t, doc[t].open) \in Int
  <2>1. t \in Targets /\ doc[t].open \in Int
    BY DEF OpenDocs, TypeOK, DocRow
  <2>2. \A a \in Int : Base(t, a) \in Int
    BY <2>1, TargetsAreConverted
  <2> QED BY <2>1, <2>2
<1>2. R \in SUBSET Targets
  BY DEF OpenBase, OpenDocs
<1>3. /\ \A t \in R : f[t] \in Int /\ g[t] = f[t]
      /\ \A t \in Targets \ R : g[t] = 0
      /\ \A t \in Targets : g[t] \in Int
  BY <1>1, <1>2 DEF Due
<1>4. OpenBase(side) = SumFunctionOnSet(f, R)
  BY DEF SumOver, OpenBase, OpenDocs
<1> HIDE DEF R, f, g
<1>5. SumFunctionOnSet(g, Targets) = SumFunctionOnSet(f, R)
  BY <1>2, <1>3, TablesAreFinite, SumSupport
<1> QED BY <1>3, <1>4, <1>5 DEF g

LEMMA DueMoves ==
  ASSUME WholeRates, TypeOK, TypeOK', NEW side, NEW x \in Targets,
         \A y \in Targets \ {x} : Due(side)'[y] = Due(side)[y]
  PROVE  OpenBase(side)' = OpenBase(side) + (Due(side)'[x] - Due(side)[x])
<1>1. (WholeRates /\ TypeOK => \A z :
         /\ OpenBase(z) = SumFunctionOnSet(Due(z), Targets)
         /\ \A t \in Targets : Due(z)[t] \in Int)'
  BY DueIsSum, PTL
<1>2. WholeRates'
  BY DEF WholeRates
<1> DEFINE f == Due(side)
           g == Due(side)'
<1>3. /\ OpenBase(side) = SumFunctionOnSet(f, Targets)
      /\ OpenBase(side)' = SumFunctionOnSet(g, Targets)
      /\ \A y \in Targets : f[y] \in Int /\ g[y] \in Int
  BY <1>1, <1>2, DueIsSum
<1> HIDE DEF f, g
<1>4. \A y \in Targets \ {x} : g[y] = f[y]
  BY DEF f, g
<1>5. SumFunctionOnSet(g, Targets) = SumFunctionOnSet(f, Targets) + (g[x] - f[x])
  BY <1>3, <1>4, TablesAreFinite, SumChange
<1> QED BY <1>3, <1>5 DEF f, g

LEMMA DueStays ==
  ASSUME WholeRates, TypeOK, TypeOK', NEW side, Due(side)' = Due(side)
  PROVE  OpenBase(side)' = OpenBase(side)
<1>1. (WholeRates /\ TypeOK => \A z :
         /\ OpenBase(z) = SumFunctionOnSet(Due(z), Targets)
         /\ \A t \in Targets : Due(z)[t] \in Int)'
  BY DueIsSum, PTL
<1> QED BY <1>1, DueIsSum DEF WholeRates

LEMMA CreditEffectIsNumber ==
  ASSUME WholeRates, NEW c \in Credits
  PROVE  CreditEffect(c) \in Int
<1>1. c \in Payments \cup Documents /\ Total[c] \in Int
  BY AmountAssumption DEF Documents
<1>2. Worth(c) \in Nat /\ \A a \in Int : Base(c, a) = Worth(c) * a
  BY <1>1, BaseMultiplies
<1>3. Base(c, Total[c]) = Worth(c) * Total[c]
  BY <1>1, <1>2
<1> QED BY <1>1, <1>2, <1>3 DEF CreditEffect

\* What each posted credit took off the control account.
Noted(side) == [c \in Credits |-> IF c \in NotedCredits(side) THEN CreditEffect(c) ELSE 0]

LEMMA NotedIsSum ==
  WholeRates /\ TypeOK => \A z :
    /\ CreditsPosted(z) = SumFunctionOnSet(Noted(z), Credits)
    /\ \A c \in Credits : Noted(z)[c] \in Int
<1> SUFFICES ASSUME NEW side, WholeRates, TypeOK
             PROVE  /\ CreditsPosted(side) = SumFunctionOnSet(Noted(side), Credits)
                    /\ \A c \in Credits : Noted(side)[c] \in Int
  OBVIOUS
<1> DEFINE R == NotedCredits(side)
           f == [c \in R |-> CreditEffect(c)]
           g == Noted(side)
<1>1. ASSUME NEW c \in R
      PROVE  CreditEffect(c) \in Int
  BY CreditEffectIsNumber DEF NotedCredits
<1>2. R \in SUBSET Credits
  BY DEF CreditsPosted, NotedCredits
<1>3. /\ \A c \in R : f[c] \in Int /\ g[c] = f[c]
      /\ \A c \in Credits \ R : g[c] = 0
      /\ \A c \in Credits : g[c] \in Int
  BY <1>1, <1>2 DEF Noted
<1>4. CreditsPosted(side) = SumFunctionOnSet(f, R)
  BY DEF SumOver, CreditsPosted, NotedCredits
<1> HIDE DEF R, f, g
<1>5. SumFunctionOnSet(g, Credits) = SumFunctionOnSet(f, R)
  BY <1>2, <1>3, TablesAreFinite, SumSupport
<1> QED BY <1>3, <1>4, <1>5 DEF g

LEMMA NotedMoves ==
  ASSUME WholeRates, TypeOK, TypeOK', NEW side, NEW x \in Credits,
         \A y \in Credits \ {x} : Noted(side)'[y] = Noted(side)[y]
  PROVE  CreditsPosted(side)' = CreditsPosted(side) + (Noted(side)'[x] - Noted(side)[x])
<1>1. (WholeRates /\ TypeOK => \A z :
         /\ CreditsPosted(z) = SumFunctionOnSet(Noted(z), Credits)
         /\ \A c \in Credits : Noted(z)[c] \in Int)'
  BY NotedIsSum, PTL
<1>2. WholeRates'
  BY DEF WholeRates
<1> DEFINE f == Noted(side)
           g == Noted(side)'
<1>3. /\ CreditsPosted(side) = SumFunctionOnSet(f, Credits)
      /\ CreditsPosted(side)' = SumFunctionOnSet(g, Credits)
      /\ \A y \in Credits : f[y] \in Int /\ g[y] \in Int
  BY <1>1, <1>2, NotedIsSum
<1> HIDE DEF f, g
<1>4. \A y \in Credits \ {x} : g[y] = f[y]
  BY DEF f, g
<1>5. SumFunctionOnSet(g, Credits) = SumFunctionOnSet(f, Credits) + (g[x] - f[x])
  BY <1>3, <1>4, TablesAreFinite, SumChange
<1> QED BY <1>3, <1>5 DEF f, g

LEMMA NotedStays ==
  ASSUME WholeRates, TypeOK, TypeOK', NEW side, Noted(side)' = Noted(side)
  PROVE  CreditsPosted(side)' = CreditsPosted(side)
<1>1. (WholeRates /\ TypeOK => \A z :
         /\ CreditsPosted(z) = SumFunctionOnSet(Noted(z), Credits)
         /\ \A c \in Credits : Noted(z)[c] \in Int)'
  BY NotedIsSum, PTL
<1> QED BY <1>1, NotedIsSum DEF WholeRates

\* What each live batch of a credit took off the documents.
Used(side) == [b \in Batches |-> IF b \in UsedBatches(side) THEN TargetBase(batch[b].lines) ELSE 0]

LEMMA UsedIsSum ==
  WholeRates /\ TypeOK => \A z :
    /\ CreditsApplied(z) = SumFunctionOnSet(Used(z), Batches)
    /\ \A b \in Batches : Used(z)[b] \in Int
<1> SUFFICES ASSUME NEW side, WholeRates, TypeOK
             PROVE  /\ CreditsApplied(side) = SumFunctionOnSet(Used(side), Batches)
                    /\ \A b \in Batches : Used(side)[b] \in Int
  OBVIOUS
<1> DEFINE R == UsedBatches(side)
           f == [b \in R |-> TargetBase(batch[b].lines)]
           g == Used(side)
<1>1. ASSUME NEW b \in R
      PROVE  TargetBase(batch[b].lines) \in Int
  <2>1. b \in Batches /\ Live(b)
    BY DEF UsedBatches, LiveBatchesBy, LiveBatches
  <2> QED BY <2>1, LiveLines, TargetBaseIsNumber
<1>2. R \in SUBSET Batches
  BY DEF CreditsApplied, UsedBatches, LiveBatchesBy, LiveBatches
<1>3. /\ \A b \in R : f[b] \in Int /\ g[b] = f[b]
      /\ \A b \in Batches \ R : g[b] = 0
      /\ \A b \in Batches : g[b] \in Int
  BY <1>1, <1>2 DEF Used
<1>4. CreditsApplied(side) = SumFunctionOnSet(f, R)
  BY DEF SumOver, CreditsApplied, UsedBatches, LiveBatchesBy, LiveBatches
<1> HIDE DEF R, f, g
<1>5. SumFunctionOnSet(g, Batches) = SumFunctionOnSet(f, R)
  BY <1>2, <1>3, TablesAreFinite, SumSupport
<1> QED BY <1>3, <1>4, <1>5 DEF g

LEMMA UsedMoves ==
  ASSUME WholeRates, TypeOK, TypeOK', NEW side, NEW x \in Batches,
         \A y \in Batches \ {x} : Used(side)'[y] = Used(side)[y]
  PROVE  CreditsApplied(side)' = CreditsApplied(side) + (Used(side)'[x] - Used(side)[x])
<1>1. (WholeRates /\ TypeOK => \A z :
         /\ CreditsApplied(z) = SumFunctionOnSet(Used(z), Batches)
         /\ \A b \in Batches : Used(z)[b] \in Int)'
  BY UsedIsSum, PTL
<1>2. WholeRates'
  BY DEF WholeRates
<1> DEFINE f == Used(side)
           g == Used(side)'
<1>3. /\ CreditsApplied(side) = SumFunctionOnSet(f, Batches)
      /\ CreditsApplied(side)' = SumFunctionOnSet(g, Batches)
      /\ \A y \in Batches : f[y] \in Int /\ g[y] \in Int
  BY <1>1, <1>2, UsedIsSum
<1> HIDE DEF f, g
<1>4. \A y \in Batches \ {x} : g[y] = f[y]
  BY DEF f, g
<1>5. SumFunctionOnSet(g, Batches) = SumFunctionOnSet(f, Batches) + (g[x] - f[x])
  BY <1>3, <1>4, TablesAreFinite, SumChange
<1> QED BY <1>3, <1>5 DEF f, g

LEMMA UsedStays ==
  ASSUME WholeRates, TypeOK, TypeOK', NEW side, Used(side)' = Used(side)
  PROVE  CreditsApplied(side)' = CreditsApplied(side)
<1>1. (WholeRates /\ TypeOK => \A z :
         /\ CreditsApplied(z) = SumFunctionOnSet(Used(z), Batches)
         /\ \A b \in Batches : Used(z)[b] \in Int)'
  BY UsedIsSum, PTL
<1> QED BY <1>1, UsedIsSum DEF WholeRates

\* The exchange result of each live batch of a payment.
Gain == [b \in Batches |-> IF b \in LiveBatchesBy(Payments) THEN BatchFx(b) ELSE 0]

LEMMA GainIsSum ==
  WholeRates /\ TypeOK =>
    /\ GainTotal = SumFunctionOnSet(Gain, Batches)
    /\ \A b \in Batches : Gain[b] \in Int
<1> SUFFICES ASSUME WholeRates, TypeOK
             PROVE  /\ GainTotal = SumFunctionOnSet(Gain, Batches)
                    /\ \A b \in Batches : Gain[b] \in Int
  OBVIOUS
<1> DEFINE R == LiveBatchesBy(Payments)
           f == [b \in R |-> BatchFx(b)]
           g == Gain
<1>1. ASSUME NEW b \in R
      PROVE  BatchFx(b) \in Int
  <2>1. b \in Batches /\ Live(b) /\ batch[b].source \in Payments
    BY DEF LiveBatchesBy, LiveBatches
  <2> QED BY <2>1, GainOfBatch
<1>2. R \in SUBSET Batches
  BY DEF GainTotal, LiveBatchesBy, LiveBatches
<1>3. /\ \A b \in R : f[b] \in Int /\ g[b] = f[b]
      /\ \A b \in Batches \ R : g[b] = 0
      /\ \A b \in Batches : g[b] \in Int
  BY <1>1, <1>2 DEF Gain
<1>4. GainTotal = SumFunctionOnSet(f, R)
  BY DEF SumOver, GainTotal, LiveBatchesBy, LiveBatches
<1> HIDE DEF R, f, g
<1>5. SumFunctionOnSet(g, Batches) = SumFunctionOnSet(f, R)
  BY <1>2, <1>3, TablesAreFinite, SumSupport
<1> QED BY <1>3, <1>4, <1>5 DEF g

LEMMA GainMoves ==
  ASSUME WholeRates, TypeOK, TypeOK', NEW x \in Batches,
         \A y \in Batches \ {x} : Gain'[y] = Gain[y]
  PROVE  GainTotal' = GainTotal + (Gain'[x] - Gain[x])
<1>1. (WholeRates /\ TypeOK =>
         /\ GainTotal = SumFunctionOnSet(Gain, Batches)
         /\ \A b \in Batches : Gain[b] \in Int)'
  BY GainIsSum, PTL
<1>2. WholeRates'
  BY DEF WholeRates
<1> DEFINE f == Gain
           g == Gain'
<1>3. /\ GainTotal = SumFunctionOnSet(f, Batches)
      /\ GainTotal' = SumFunctionOnSet(g, Batches)
      /\ \A y \in Batches : f[y] \in Int /\ g[y] \in Int
  BY <1>1, <1>2, GainIsSum
<1> HIDE DEF f, g
<1>4. \A y \in Batches \ {x} : g[y] = f[y]
  BY DEF f, g
<1>5. SumFunctionOnSet(g, Batches) = SumFunctionOnSet(f, Batches) + (g[x] - f[x])
  BY <1>3, <1>4, TablesAreFinite, SumChange
<1> QED BY <1>3, <1>5 DEF f, g

LEMMA GainStays ==
  ASSUME WholeRates, TypeOK, TypeOK', Gain' = Gain
  PROVE  GainTotal' = GainTotal
<1>1. (WholeRates /\ TypeOK =>
         /\ GainTotal = SumFunctionOnSet(Gain, Batches)
         /\ \A b \in Batches : Gain[b] \in Int)'
  BY GainIsSum, PTL
<1> QED BY <1>1, GainIsSum DEF WholeRates


-----------------------------------------------------------------------------
(* What each kind of entry says of the accounts the equations are about.   *)

LEMMA SideOfPayment ==
  /\ \A p \in Payments : Side[p] \in Sides
  /\ \A d \in Documents : Side[d] \in Sides
BY SideAssumption

LEMMA SignsAreUnits ==
  \A side \in Sides : /\ Sign(side) \in {1, -1}
                      /\ \A x \in Int : Sign(side) * (Sign(side) * x) = x
BY DEF Sign

LEMMA AdvanceEntries ==
  ASSUME NEW own \in Sides, NEW side \in Sides, NEW x \in Int, NEW y \in Int
  PROVE  /\ PaymentEntry(own, x, y)[Advance(side)] = IF side = own THEN -Sign(own) * x ELSE 0
         /\ AllocationEntry(own, x, y)[Advance(side)] = IF side = own THEN Sign(own) * x ELSE 0
         /\ DocumentEntry(own, x)[Advance(side)] = 0
BY DEF PaymentEntry, AllocationEntry, DocumentEntry, Advance, Control, Accounts, Sides, Sign

LEMMA ControlEntries ==
  ASSUME NEW own \in Sides, NEW side \in Sides, NEW x \in Int, NEW y \in Int
  PROVE  /\ PaymentEntry(own, x, y)[Control(side)] = 0
         /\ AllocationEntry(own, x, y)[Control(side)] = IF side = own THEN -Sign(own) * y ELSE 0
         /\ DocumentEntry(own, x)[Control(side)] = IF side = own THEN Sign(own) * x ELSE 0
BY DEF PaymentEntry, AllocationEntry, DocumentEntry, Advance, Control, Accounts, Sides, Sign

LEMMA FxEntries ==
  ASSUME NEW own \in Sides, NEW x \in Int, NEW y \in Int
  PROVE  /\ PaymentEntry(own, x, y)["fx"] = 0
         /\ AllocationEntry(own, x, y)["fx"] = Sign(own) * (y - x)
         /\ DocumentEntry(own, x)["fx"] = 0
BY DEF PaymentEntry, AllocationEntry, DocumentEntry, Advance, Control, Accounts, Sides, Sign

LEMMA AccountsNamed ==
  /\ \A side \in Sides : Advance(side) \in Accounts /\ Control(side) \in Accounts
  /\ "fx" \in Accounts
BY DEF Advance, Control, Accounts

-----------------------------------------------------------------------------
(* The advance accounts.                                                   *)

LEMMA AdvanceMeans ==
  AdvanceReconciles <=>
    \A side \in Sides : -Sign(side) * Balance(Advance(side)) = HeldTotal(side)
BY DEF AdvanceReconciles, HeldTotal

LEMMA AdvanceKept ==
  ASSUME WholeRates, TypeOK, TypeOK', AdvanceReconciles,
         \A side \in Sides : Balance(Advance(side))' = Balance(Advance(side)),
         \A side \in Sides : Held(side)' = Held(side)
  PROVE  AdvanceReconciles'
<1>1. \A side \in Sides : HeldTotal(side)' = HeldTotal(side)
  BY HeldStays
<1>2. (AdvanceReconciles <=>
         \A side \in Sides : -Sign(side) * Balance(Advance(side)) = HeldTotal(side))'
  BY AdvanceMeans, PTL
<1> QED BY <1>1, <1>2, AdvanceMeans

\* One payment moves and the ledger moves with it.
LEMMA AdvanceFollows ==
  ASSUME WholeRates, TypeOK, TypeOK', AdvanceReconciles, NEW p \in Payments, NEW e,
         \A side \in Sides :
           /\ Balance(Advance(side))' = Balance(Advance(side)) + e[Advance(side)]
           /\ e[Advance(side)] \in Int
           /\ \A q \in Payments \ {p} : Held(side)'[q] = Held(side)[q]
           /\ Held(side)'[p] = Held(side)[p] - Sign(side) * e[Advance(side)]
  PROVE  AdvanceReconciles'
<1>1. (AdvanceReconciles <=>
         \A side \in Sides : -Sign(side) * Balance(Advance(side)) = HeldTotal(side))'
  BY AdvanceMeans, PTL
<1> SUFFICES ASSUME NEW side \in Sides
             PROVE  -Sign(side) * Balance(Advance(side))' = HeldTotal(side)'
  BY <1>1
<1>2. HeldTotal(side)' = HeldTotal(side) + (Held(side)'[p] - Held(side)[p])
  BY HeldMoves
<1>3. -Sign(side) * Balance(Advance(side)) = HeldTotal(side)
  BY AdvanceMeans
<1>4. /\ Balance(Advance(side)) \in Int
      /\ Held(side)[p] \in Int
  BY BalanceIsSum, AccountsNamed, HeldIsSum
<1>5. Sign(side) = 1 \/ Sign(side) = -1
  BY SignsAreUnits
<1> QED BY <1>2, <1>3, <1>4, <1>5

LEMMA HeldSame ==
  ASSUME NEW q \in Payments, Posted(q)' <=> Posted(q),
         pay'[q].reversed = pay[q].reversed,
         Posted(q) => pay'[q].unallocated = pay[q].unallocated
  PROVE  \A side : Held(side)'[q] = Held(side)[q]
BY DEF Held, PostedPayments, Posted

LEMMA AllHeldSame ==
  ASSUME \A q \in Payments : /\ Posted(q)' <=> Posted(q)
                             /\ pay'[q].reversed = pay[q].reversed
                             /\ Posted(q) => pay'[q].unallocated = pay[q].unallocated
  PROVE  \A side : Held(side)' = Held(side)
BY DEF Held, PostedPayments, Posted

LEMMA AdvanceStep ==
  ASSUME WholeRates, TypeOK, TypeOK', RemaindersAreDerived, JournalsInv, TotalsInv,
         ItemsInv, EntriesInv, AdvanceReconciles, [Next]_vars
  PROVE  AdvanceReconciles'
<1>t. pay \in [Payments -> PaymentRow]
  BY DEF TypeOK
<1>k. ASSUME UNCHANGED <<pay, journal>>
      PROVE  AdvanceReconciles'
  <2>1. \A side \in Sides : Balance(Advance(side))' = Balance(Advance(side))
    BY <1>k, BalanceStays
  <2>2. \A side : Held(side)' = Held(side)
    BY <1>k, AllHeldSame DEF Posted, Recorded
  <2> QED BY <2>1, <2>2, AdvanceKept
<1>d. ASSUME NEW d \in Documents, NEW x \in Int, UNCHANGED pay,
             \/ Post(PostKey(d), DocumentEntry(Side[d], x))
             \/ Posted(d) /\ UNCHANGED journal
      PROVE  AdvanceReconciles'
  <2>1. \A side \in Sides : Balance(Advance(side))' = Balance(Advance(side))
    <3> SUFFICES ASSUME NEW side \in Sides
                 PROVE  Balance(Advance(side))' = Balance(Advance(side))
      OBVIOUS
    <3>1. DocumentEntry(Side[d], x)[Advance(side)] = 0
      BY SideOfPayment, AdvanceEntries
    <3>2. Balance(Advance(side))' = Balance(Advance(side))
            + IF Posted(d) THEN 0 ELSE DocumentEntry(Side[d], x)[Advance(side)]
      BY <1>d, DocumentMoves, AccountsNamed
    <3>3. Balance(Advance(side)) \in Int
      BY BalanceIsSum, AccountsNamed
    <3> QED BY <3>1, <3>2, <3>3
  <2>2. GrowsAt(PostKey(d))
    BY <1>d, KeysAreKeys, StepGrows
  <2>3. \A p \in Payments : Posted(p)' <=> Posted(p)
    BY <2>2, PostedAfter, KeysAreDistinct, DisjointAssumption
  <2>4. \A side : Held(side)' = Held(side)
    BY <1>d, <2>3, AllHeldSame
  <2> QED BY <2>1, <2>4, AdvanceKept
<1>1. ASSUME NEW p \in Payments, NEW amount \in PaymentAmounts, NEW fee \in Fees,
             UpdateDraftPayment(p, amount, fee)
      PROVE  AdvanceReconciles'
  <2>1. /\ pay' = [pay EXCEPT ![p] = Draft(amount, fee)]
        /\ pay[p].status = "UNPOSTED"
        /\ journal' = journal
    BY <1>1 DEF UpdateDraftPayment
  <2>2. ~Posted(p) /\ pay[p].reversed = FALSE
    BY <1>t, <2>1 DEF ItemsInv, Posted, JournalsInv, PaymentOK, PaymentRow
  <2>3. /\ pay'[p].reversed = FALSE
        /\ \A q \in Payments : q # p => pay'[q] = pay[q]
    BY <1>t, <2>1 DEF Draft
  <2>4. \A q \in Payments : Posted(q)' <=> Posted(q)
    BY <2>1 DEF Posted, Recorded
  <2>5. \A side : Held(side)' = Held(side)
    BY <2>2, <2>3, <2>4, AllHeldSame
  <2> QED BY <2>1, <2>5, BalanceStays, AdvanceKept
<1>2. ASSUME NEW p \in Payments, PostPayment(p)
      PROVE  AdvanceReconciles'
  <2> DEFINE e == EntryOfPayment(p)
             x == Base(p, pay[p].amount)
  <2>1. /\ pay' = [pay EXCEPT ![p].status = "POSTED"]
        /\ ~pay[p].reversed
        /\ pay[p].unallocated = pay[p].amount
        /\ ~Posted(p)
    BY <1>2 DEF PostPayment, ItemsInv, Posted
  <2>2. GrowsAt(PostKey(p)) /\ Posted(p)'
    BY <1>2, KeysAreKeys, StepGrows, PostAppends DEF PostPayment, Posted, TypeOK
  <2>3. \A q \in Payments : /\ pay'[q].reversed = pay[q].reversed
                            /\ pay'[q].unallocated = pay[q].unallocated
    BY <1>t, <2>1 DEF PaymentRow
  <2>4. \A q \in Payments \ {p} : Posted(q)' <=> Posted(q)
    BY <2>2, PostedAfter, KeysAreDistinct
  <2>5. ASSUME NEW side \in Sides
        PROVE  /\ Balance(Advance(side))' = Balance(Advance(side)) + e[Advance(side)]
               /\ e[Advance(side)] \in Int
               /\ \A q \in Payments \ {p} : Held(side)'[q] = Held(side)[q]
               /\ Held(side)'[p] = Held(side)[p] - Sign(side) * e[Advance(side)]
    <3>1. x \in Int /\ Base(p, pay[p].fee) \in Int
      <4>1. pay[p].amount \in Int /\ pay[p].fee \in Int
        BY <1>t DEF PaymentRow
      <4>2. \A a \in Int : Base(p, a) \in Int
        BY PaymentsAreConverted
      <4> QED BY <4>1, <4>2
    <3>2. e[Advance(side)] = IF side = Side[p] THEN -Sign(Side[p]) * x ELSE 0
      BY <3>1, SideOfPayment, AdvanceEntries DEF EntryOfPayment
    <3>3. Held(side)[p] = 0 /\ Held(side)'[p] = IF side = Side[p] THEN x ELSE 0
      BY <2>1, <2>2, <2>3 DEF Held, PostedPayments, Posted
    <3>4. Sign(side) = 1 \/ Sign(side) = -1
      BY SignsAreUnits
    <3>5. \A q \in Payments \ {p} : Held(side)'[q] = Held(side)[q]
      BY <2>3, <2>4, HeldSame
    <3>6. Balance(Advance(side))' = Balance(Advance(side)) + e[Advance(side)]
      BY <1>2, PostingMoves, AccountsNamed
    <3> HIDE DEF e, x
    <3> QED BY <3>1, <3>2, <3>3, <3>4, <3>5, <3>6
  <2> HIDE DEF e
  <2> QED BY <2>5, AdvanceFollows
<1>3. ASSUME NEW p \in Payments, ReversePayment(p)
      PROVE  AdvanceReconciles'
  <2> DEFINE d == EntryOfPayment(p)
             e == [a \in Accounts |-> -d[a]]
             x == Base(p, pay[p].amount)
  <2>1. /\ pay' = [pay EXCEPT ![p].reversed = TRUE, ![p].status = "REVERSED"]
        /\ ~pay[p].reversed /\ Posted(p) /\ LiveBatchesOf(p) = {}
    BY <1>3 DEF ReversePayment, Posted, NothingApplied
  <2>2. GrowsAt(ReversalKey(p))
    BY <1>3, KeysAreKeys, StepGrows DEF ReversePayment, PostMirror
  <2>3. \A q \in Payments : /\ Posted(q)' <=> Posted(q)
                            /\ q # p => pay'[q] = pay[q]
    BY <1>t, <2>1, <2>2, PostedAfter, KeysAreDistinct
  <2>4. pay[p].unallocated = pay[p].amount /\ pay'[p].reversed = TRUE
    <3>1. AppliedFrom(p) = 0
      BY <2>1, SumEmpty DEF AppliedFrom, SumOver
    <3>2. /\ pay[p].allocated = 0
          /\ pay[p].unallocated = pay[p].amount - pay[p].allocated
          /\ pay[p].amount \in Nat
      BY <1>t, <3>1 DEF TotalsInv, PaymentTotals, RemaindersAreDerived, PaymentRow
    <3> QED BY <1>t, <2>1, <3>2 DEF PaymentRow
  <2>5. ASSUME NEW side \in Sides
        PROVE  /\ Balance(Advance(side))' = Balance(Advance(side)) + e[Advance(side)]
               /\ e[Advance(side)] \in Int
               /\ \A q \in Payments \ {p} : Held(side)'[q] = Held(side)[q]
               /\ Held(side)'[p] = Held(side)[p] - Sign(side) * e[Advance(side)]
    <3>1. x \in Int /\ Base(p, pay[p].fee) \in Int
      <4>1. pay[p].amount \in Int /\ pay[p].fee \in Int
        BY <1>t DEF PaymentRow
      <4>2. \A a \in Int : Base(p, a) \in Int
        BY PaymentsAreConverted
      <4> QED BY <4>1, <4>2
    <3>2. d[Advance(side)] = IF side = Side[p] THEN -Sign(Side[p]) * x ELSE 0
      BY <3>1, SideOfPayment, AdvanceEntries DEF EntryOfPayment
    <3>3. Held(side)'[p] = 0 /\ Held(side)[p] = IF side = Side[p] THEN x ELSE 0
      BY <2>1, <2>4 DEF Held, PostedPayments, Posted
    <3>4. Sign(side) = 1 \/ Sign(side) = -1
      BY SignsAreUnits
    <3>5. \A q \in Payments \ {p} : Held(side)'[q] = Held(side)[q]
      BY <2>3, HeldSame
    <3>6. /\ Balance(Advance(side))' = Balance(Advance(side)) - d[Advance(side)]
          /\ Balance(Advance(side)) \in Int
      BY <1>3, ReversalMoves, BalanceIsSum, AccountsNamed
    <3>7. e[Advance(side)] = -d[Advance(side)]
      BY AccountsNamed
    <3> HIDE DEF d, e, x
    <3> QED BY <3>1, <3>2, <3>3, <3>4, <3>5, <3>6, <3>7
  <2> HIDE DEF e
  <2> QED BY <2>5, AdvanceFollows
<1>4. ASSUME NEW p \in Payments, NEW b \in Batches, NEW lines \in Lines,
             AllocatePayment(p, b, lines)
      PROVE  AdvanceReconciles'
  <2> DEFINE x == Base(p, BatchTotal(lines))
             e == AllocationEntry(Side[p], x, TargetBase(lines))
  <2>1. /\ ~pay[p].reversed /\ Posted(p)
        /\ BatchTotal(lines) \in Int
        /\ pay' = [pay EXCEPT ![p] = PaymentWith(@, @.allocated + BatchTotal(lines))]
    BY <1>4 DEF AllocatePayment, Posted
  <2>2. GrowsAt(AllocationKey(p, b))
    BY <1>4, KeysAreKeys, StepGrows DEF AllocatePayment
  <2>3. \A q \in Payments : /\ Posted(q)' <=> Posted(q)
                            /\ q # p => pay'[q] = pay[q]
    BY <1>t, <2>1, <2>2, PostedAfter, KeysAreDistinct
  <2>4. /\ pay'[p].unallocated = pay[p].unallocated - BatchTotal(lines)
        /\ pay'[p].reversed = FALSE
        /\ pay[p].unallocated \in Int
    BY <1>t, <2>1 DEF PaymentWith, PaymentRow, RemaindersAreDerived
  <2> HIDE DEF x, e
  <2>5. ASSUME NEW side \in Sides
        PROVE  /\ Balance(Advance(side))' = Balance(Advance(side)) + e[Advance(side)]
               /\ e[Advance(side)] \in Int
               /\ \A q \in Payments \ {p} : Held(side)'[q] = Held(side)[q]
               /\ Held(side)'[p] = Held(side)[p] - Sign(side) * e[Advance(side)]
    <3>1. x \in Int /\ TargetBase(lines) \in Int
      BY LinesFx, TargetBaseIsNumber DEF x
    <3>2. e[Advance(side)] = IF side = Side[p] THEN Sign(Side[p]) * x ELSE 0
      BY <3>1, SideOfPayment, AdvanceEntries DEF e
    <3>3. /\ Base(p, pay'[p].unallocated) = Base(p, pay[p].unallocated) - x
          /\ Base(p, pay[p].unallocated) \in Int
      <4>1. /\ \A a \in Int : Base(p, a) \in Int
            /\ \A a \in Int, c \in Int : Base(p, a - c) = Base(p, a) - Base(p, c)
        BY PaymentsAreConverted
      <4> QED BY <2>1, <2>4, <4>1 DEF x
    <3>4. /\ Held(side)[p] = IF side = Side[p] THEN Base(p, pay[p].unallocated) ELSE 0
          /\ Held(side)'[p] = IF side = Side[p] THEN Base(p, pay'[p].unallocated) ELSE 0
      BY <2>1, <2>3, <2>4 DEF Held, PostedPayments, Posted
    <3>5. Sign(side) = 1 \/ Sign(side) = -1
      BY SignsAreUnits
    <3>6. \A q \in Payments \ {p} : Held(side)'[q] = Held(side)[q]
      BY <2>3, HeldSame
    <3>7. Balance(Advance(side))' = Balance(Advance(side)) + e[Advance(side)]
      BY <1>4, AllocationMoves, AccountsNamed DEF e, x
    <3>8. Held(side)'[p] = Held(side)[p] - Sign(side) * e[Advance(side)]
      BY <3>1, <3>2, <3>3, <3>4, <3>5
    <3>9. e[Advance(side)] \in Int
      BY <3>1, <3>2, <3>5
    <3> QED BY <3>6, <3>7, <3>8, <3>9
  <2> QED BY <2>5, AdvanceFollows
<1>5. ASSUME NEW b \in Batches, UnapplyPayment(b)
      PROVE  AdvanceReconciles'
  <2>s. SUFFICES ASSUME NEW p \in Payments, p = batch[b].source,
                       NEW lines \in Lines, lines = batch[b].lines
               PROVE  AdvanceReconciles'
    BY <1>5, LiveLines DEF UnapplyPayment
  <2> DEFINE x == Base(p, BatchTotal(lines))
             d == AllocationEntry(Side[p], x, TargetBase(lines))
             e == [a \in Accounts |-> -d[a]]
  <2>1. /\ Live(b)
        /\ BatchTotal(lines) \in Int
        /\ pay' = [pay EXCEPT ![p] = PaymentWith(@, @.allocated - BatchTotal(lines))]
    BY <2>s, <1>5 DEF UnapplyPayment
  <2>3. GrowsAt(BatchReversalKey(b))
    BY <2>s, <1>5, KeysAreKeys, StepGrows DEF UnapplyPayment, PostMirror
  <2>4. \A q \in Payments : /\ Posted(q)' <=> Posted(q)
                            /\ q # p => pay'[q] = pay[q]
    BY <2>s, <1>t, <2>1, <2>3, PostedAfter, KeysAreDistinct
  <2>5. /\ pay'[p].unallocated = pay[p].unallocated + BatchTotal(lines)
        /\ pay'[p].reversed = pay[p].reversed
        /\ pay[p].unallocated \in Int
    BY <2>s, <1>t, <2>1 DEF PaymentWith, PaymentRow, RemaindersAreDerived
  <2>6. Posted(p) /\ ~pay[p].reversed
    <3>1. Posted(p) /\ b \in LiveBatchesOf(p)
      BY <2>s, <2>1 DEF JournalsInv, BatchOK, Live, Posted, LiveBatchesOf
    <3>2. ~Recorded(BatchReversalKey(b))
      BY <2>s, <2>1 DEF JournalsInv, BatchOK, Live
    <3> QED BY <2>s, <2>1, <3>1, <3>2 DEF JournalsInv, BatchOK, Live
  <2> HIDE DEF x, d, e
  <2>7. ASSUME NEW side \in Sides
        PROVE  /\ Balance(Advance(side))' = Balance(Advance(side)) + e[Advance(side)]
               /\ e[Advance(side)] \in Int
               /\ \A q \in Payments \ {p} : Held(side)'[q] = Held(side)[q]
               /\ Held(side)'[p] = Held(side)[p] - Sign(side) * e[Advance(side)]
    <3>1. x \in Int /\ TargetBase(lines) \in Int
      BY <2>s, LinesFx, TargetBaseIsNumber DEF x
    <3>2. d[Advance(side)] = IF side = Side[p] THEN Sign(Side[p]) * x ELSE 0
      BY <2>s, <3>1, SideOfPayment, AdvanceEntries DEF d
    <3>3. /\ Base(p, pay'[p].unallocated) = Base(p, pay[p].unallocated) + x
          /\ Base(p, pay[p].unallocated) \in Int
      <4>1. /\ \A a \in Int : Base(p, a) \in Int
            /\ \A a \in Int, c \in Int : Base(p, a + c) = Base(p, a) + Base(p, c)
        BY <2>s, PaymentsAreConverted
      <4> QED BY <2>1, <2>5, <4>1 DEF x
    <3>4. /\ Held(side)[p] = IF side = Side[p] THEN Base(p, pay[p].unallocated) ELSE 0
          /\ Held(side)'[p] = IF side = Side[p] THEN Base(p, pay'[p].unallocated) ELSE 0
      BY <2>s, <2>1, <2>4, <2>5, <2>6 DEF Held, PostedPayments, Posted
    <3>5. Sign(side) = 1 \/ Sign(side) = -1
      BY SignsAreUnits
    <3>6. \A q \in Payments \ {p} : Held(side)'[q] = Held(side)[q]
      BY <2>s, <2>4, HeldSame
    <3>7. /\ Balance(Advance(side))' = Balance(Advance(side)) - d[Advance(side)]
          /\ Balance(Advance(side)) \in Int
      BY <2>s, <1>5, UnapplyMoves, BalanceIsSum, AccountsNamed DEF d, x, EntryOfBatch
    <3>8. e[Advance(side)] = -d[Advance(side)]
      BY AccountsNamed DEF e
    <3>9. d[Advance(side)] \in Int
      BY <3>1, <3>2, <3>5
    <3>10. Held(side)'[p] = Held(side)[p] - Sign(side) * e[Advance(side)]
      BY <3>1, <3>2, <3>3, <3>4, <3>5, <3>8
    <3> QED BY <3>6, <3>7, <3>8, <3>9, <3>10
  <2>8. p \in Payments
    BY <2>s
  <2> QED BY <2>7, <2>8, AdvanceFollows
<1>6. ASSUME NEW t \in Targets, PostInvoice(t) \/ PostBill(t)
      PROVE  AdvanceReconciles'
  <2>1. UNCHANGED pay /\ t \in Documents /\ Base(t, Total[t]) \in Int
    <3>1. Total[t] \in Int /\ \A a \in Int : Base(t, a) \in Int
      BY TargetsAreConverted, AmountAssumption DEF Documents
    <3> QED BY <1>6, <3>1 DEF PostInvoice, PostBill, Documents
  <2>2. \/ Post(PostKey(t), DocumentEntry(Side[t], Base(t, Total[t])))
        \/ Posted(t) /\ UNCHANGED journal
    BY <1>6 DEF PostInvoice, PostBill, Posted
  <2> QED BY <2>1, <2>2, <1>d
<1>7. ASSUME NEW c \in Credits, PostCreditNote(c) \/ PostDebitNote(c)
      PROVE  AdvanceReconciles'
  <2>1. UNCHANGED pay /\ c \in Documents /\ -CreditEffect(c) \in Int
    BY <1>7, CreditEffectIsNumber DEF PostCreditNote, PostDebitNote, Documents
  <2>2. \/ Post(PostKey(c), DocumentEntry(Side[c], -CreditEffect(c)))
        \/ Posted(c) /\ UNCHANGED journal
    BY <1>7 DEF PostCreditNote, PostDebitNote, Posted
  <2> QED BY <2>1, <2>2, <1>d
<1>8. CASE \/ \E c \in Credits, b \in Batches, lines \in Lines : ApplyCredit(c, b, lines)
           \/ \E b \in Batches : UnapplyCredit(b)
           \/ \E d \in Documents : LoadDocument(d)
           \/ UNCHANGED vars
  BY <1>8, <1>k DEF ApplyCredit, UnapplyCredit, LoadDocument, vars
<1> QED BY <1>1, <1>2, <1>3, <1>4, <1>5, <1>6, <1>7, <1>8 DEF Next

-----------------------------------------------------------------------------
(* The exchange account.                                                   *)

LEMMA FxKept ==
  ASSUME WholeRates, TypeOK, TypeOK', FxReconciles,
         Balance("fx")' = Balance("fx"), Gain' = Gain
  PROVE  FxReconciles'
<1>1. GainTotal' = GainTotal
  BY GainStays
<1> QED BY <1>1 DEF FxReconciles, GainTotal

\* One batch moves and the ledger moves with it.
LEMMA FxFollows ==
  ASSUME WholeRates, TypeOK, TypeOK', FxReconciles, NEW b \in Batches, NEW x \in Int,
         Balance("fx")' = Balance("fx") - x,
         \A c \in Batches \ {b} : Gain'[c] = Gain[c],
         Gain'[b] = Gain[b] + x
  PROVE  FxReconciles'
<1>1. GainTotal' = GainTotal + (Gain'[b] - Gain[b])
  BY GainMoves
<1>2. -Balance("fx") = GainTotal /\ Balance("fx") \in Int /\ Gain[b] \in Int
  BY BalanceIsSum, AccountsNamed, GainIsSum DEF FxReconciles, GainTotal
<1>3. -Balance("fx")' = GainTotal'
  BY <1>1, <1>2
<1> QED BY <1>3 DEF FxReconciles, GainTotal

LEMMA GainSame ==
  ASSUME NEW b \in Batches, batch'[b] = batch[b]
  PROVE  Gain'[b] = Gain[b]
BY DEF Gain, LiveBatchesBy, LiveBatches, Live, BatchFx, SumOver, RowFx

LEMMA GainUnchanged ==
  ASSUME UNCHANGED batch
  PROVE  Gain' = Gain
BY DEF Gain, LiveBatchesBy, LiveBatches, Live, BatchFx, SumOver, RowFx

\* A batch of a credit has no exchange result.
LEMMA CreditsGainNothing ==
  ASSUME NEW b \in Batches, batch[b] = NoBatch \/ batch[b].source \notin Payments,
         batch'[b] = NoBatch \/ batch'[b].source \notin Payments,
         \A c \in Batches \ {b} : batch'[c] = batch[c]
  PROVE  Gain' = Gain
<1>1. \A c \in Batches \ {b} : Gain'[c] = Gain[c]
  BY GainSame
<1>2. Gain[b] = 0 /\ Gain'[b] = 0
  BY DEF Gain, LiveBatchesBy, LiveBatches, Live
<1>3. \A c \in Batches : Gain'[c] = Gain[c]
  BY <1>1, <1>2
<1> QED BY <1>3 DEF Gain

LEMMA FxStep ==
  ASSUME WholeRates, TypeOK, TypeOK', JournalsInv, ItemsInv, EntriesInv, FxReconciles,
         [Next]_vars
  PROVE  FxReconciles'
<1>t. pay \in [Payments -> PaymentRow] /\ batch \in [Batches -> BatchRow \cup {NoBatch}]
  BY DEF TypeOK
<1>f. Balance("fx") \in Int
  BY BalanceIsSum, AccountsNamed
<1>p. ASSUME NEW p \in Payments
      PROVE  EntryOfPayment(p)["fx"] = 0
  <2>1. pay[p].amount \in Int /\ pay[p].fee \in Int
    BY <1>t DEF PaymentRow
  <2>2. \A a \in Int : Base(p, a) \in Int
    BY PaymentsAreConverted
  <2>3. Base(p, pay[p].amount) \in Int /\ Base(p, pay[p].fee) \in Int
    BY <2>1, <2>2
  <2> QED BY <2>3, SideOfPayment, FxEntries DEF EntryOfPayment
<1>d. ASSUME NEW d \in Documents, NEW x \in Int, UNCHANGED batch,
             \/ Post(PostKey(d), DocumentEntry(Side[d], x))
             \/ Posted(d) /\ UNCHANGED journal
      PROVE  FxReconciles'
  <2>1. DocumentEntry(Side[d], x)["fx"] = 0
    BY SideOfPayment, FxEntries
  <2>2. Balance("fx")' = Balance("fx")
          + IF Posted(d) THEN 0 ELSE DocumentEntry(Side[d], x)["fx"]
    BY <1>d, DocumentMoves, AccountsNamed
  <2>3. Balance("fx")' = Balance("fx")
    BY <1>f, <2>1, <2>2
  <2> QED BY <1>d, <2>3, GainUnchanged, FxKept
<1>1. CASE UNCHANGED <<batch, journal>>
  BY <1>1, BalanceStays, GainUnchanged, FxKept
<1>2. ASSUME NEW p \in Payments, PostPayment(p)
      PROVE  FxReconciles'
  <2>1. Balance("fx")' = Balance("fx") + EntryOfPayment(p)["fx"]
    BY <1>2, PostingMoves, AccountsNamed
  <2>2. Balance("fx")' = Balance("fx")
    BY <1>f, <1>p, <2>1
  <2>3. UNCHANGED batch
    BY <1>2 DEF PostPayment
  <2> QED BY <2>2, <2>3, GainUnchanged, FxKept
<1>3. ASSUME NEW p \in Payments, ReversePayment(p)
      PROVE  FxReconciles'
  <2>1. Balance("fx")' = Balance("fx") - EntryOfPayment(p)["fx"]
    BY <1>3, ReversalMoves, AccountsNamed
  <2>2. Balance("fx")' = Balance("fx")
    BY <1>f, <1>p, <2>1
  <2>3. UNCHANGED batch
    BY <1>3 DEF ReversePayment
  <2> QED BY <2>2, <2>3, GainUnchanged, FxKept
<1>4. ASSUME NEW p \in Payments, NEW b \in Batches, NEW lines \in Lines,
             AllocatePayment(p, b, lines)
      PROVE  FxReconciles'
  <2> DEFINE x == Base(p, BatchTotal(lines))
             y == TargetBase(lines)
  <2>1. /\ batch[b] = NoBatch
        /\ batch' = [batch EXCEPT ![b] = NewBatch(p, lines)]
    BY <1>4 DEF AllocatePayment
  <2>2. x \in Int /\ y \in Int
    BY LinesFx, TargetBaseIsNumber
  <2>3. Sign(Side[p]) = 1 \/ Sign(Side[p]) = -1
    BY SideOfPayment, SignsAreUnits
  <2>4. Balance("fx")' = Balance("fx") + Sign(Side[p]) * (y - x)
    <3>1. Balance("fx")' = Balance("fx") + AllocationEntry(Side[p], x, y)["fx"]
      BY <1>4, AllocationMoves, AccountsNamed
    <3> HIDE DEF x, y
    <3> QED BY <2>2, <3>1, SideOfPayment, FxEntries
  <2>5. Gain[b] = 0
    BY <2>1 DEF Gain, LiveBatchesBy, LiveBatches, Live
  <2>6. batch'[b] = NewBatch(p, lines) /\ \A c \in Batches \ {b} : batch'[c] = batch[c]
    BY <1>t, <2>1
  <2>7. Gain'[b] = Sign(Side[p]) * (x - y)
    <3>1. batch'[b] # NoBatch
      <4>1. NewBatch(p, lines) \in BatchRow
        BY DEF NewBatch, BatchRow, Sources
      <4> QED BY <2>6, <4>1, NullAssumption
    <3>2. Gain'[b] = BatchFx(b)'
      BY <2>6, <3>1 DEF Gain, LiveBatchesBy, LiveBatches, Live, NewBatch
    <3>3. BatchFx(b)' = SumFunctionOnSet(
            [t \in Targets |-> Sign(Side[p]) * (Base(p, lines[t]) - Base(t, lines[t]))],
            Targets)
      BY <2>6 DEF BatchFx, SumOver, RowFx, NewBatch
    <3> QED BY <3>2, <3>3, LinesFx
  <2>8. \A c \in Batches \ {b} : Gain'[c] = Gain[c]
    BY <2>6, GainSame
  <2> HIDE DEF x, y
  <2> DEFINE z == Sign(Side[p]) * (x - y)
  <2>9. /\ z \in Int
        /\ Balance("fx")' = Balance("fx") - z
        /\ Gain'[b] = Gain[b] + z
    BY <1>f, <2>2, <2>3, <2>4, <2>5, <2>7
  <2> HIDE DEF z
  <2> QED BY <2>8, <2>9, FxFollows
<1>5. ASSUME NEW b \in Batches, UnapplyPayment(b)
      PROVE  FxReconciles'
  <2>s. SUFFICES ASSUME NEW p \in Payments, p = batch[b].source,
                        NEW lines \in Lines, lines = batch[b].lines
                 PROVE  FxReconciles'
    BY <1>5, LiveLines DEF UnapplyPayment
  <2> DEFINE x == Base(p, BatchTotal(lines))
             y == TargetBase(lines)
  <2>1. /\ Live(b)
        /\ batch' = [batch EXCEPT ![b].reversed = TRUE]
    BY <1>5 DEF UnapplyPayment
  <2>2. x \in Int /\ y \in Int
    BY <2>s, LinesFx, TargetBaseIsNumber
  <2>3. Sign(Side[p]) = 1 \/ Sign(Side[p]) = -1
    BY <2>s, SideOfPayment, SignsAreUnits
  <2>4. Balance("fx")' = Balance("fx") - Sign(Side[p]) * (y - x)
    <3>1. Balance("fx")' = Balance("fx") - AllocationEntry(Side[p], x, y)["fx"]
      BY <2>s, <1>5, UnapplyMoves, AccountsNamed DEF EntryOfBatch
    <3> HIDE DEF x, y
    <3>2. AllocationEntry(Side[p], x, y)["fx"] = Sign(Side[p]) * (y - x)
      BY <2>s, <2>2, SideOfPayment, FxEntries
    <3> QED BY <3>1, <3>2
  <2>5. Gain[b] = Sign(Side[p]) * (x - y)
    <3>1. Gain[b] = BatchFx(b)
      BY <2>s, <2>1 DEF Gain, LiveBatchesBy, LiveBatches
    <3> QED BY <2>s, <2>1, <3>1, GainOfBatch
  <2>6. \A c \in Batches \ {b} : Gain'[c] = Gain[c]
    BY <1>t, <2>1, GainSame
  <2>7. Gain'[b] = 0
    <3>1. batch[b] \in BatchRow
      BY <1>t, <2>1 DEF Live
    <3>2. batch'[b].reversed
      BY <1>t, <2>1, <3>1 DEF BatchRow
    <3> QED BY <3>2 DEF Gain, LiveBatchesBy, LiveBatches, Live
  <2> HIDE DEF x, y
  <2> DEFINE z == Sign(Side[p]) * (y - x)
  <2>8. /\ z \in Int
        /\ Balance("fx")' = Balance("fx") - z
        /\ Gain'[b] = Gain[b] + z
    BY <1>f, <2>2, <2>3, <2>4, <2>5, <2>7
  <2> HIDE DEF z
  <2> QED BY <2>6, <2>8, FxFollows
<1>6. ASSUME NEW c \in Credits, NEW b \in Batches, NEW lines \in Lines,
             ApplyCredit(c, b, lines)
      PROVE  FxReconciles'
  <2>1. /\ batch[b] = NoBatch /\ UNCHANGED journal
        /\ batch'[b].source = c
        /\ \A d \in Batches \ {b} : batch'[d] = batch[d]
    BY <1>6, <1>t DEF ApplyCredit, NewBatch
  <2>2. c \notin Payments
    BY DisjointAssumption DEF Documents
  <2>3. Gain' = Gain
    BY <2>1, <2>2, CreditsGainNothing
  <2> QED BY <2>1, <2>3, BalanceStays, FxKept
<1>7. ASSUME NEW b \in Batches, UnapplyCredit(b)
      PROVE  FxReconciles'
  <2>1. /\ batch[b] # NoBatch /\ UNCHANGED journal
        /\ batch[b].source \notin Payments
        /\ batch' = [batch EXCEPT ![b].reversed = TRUE]
    BY <1>7, DisjointAssumption DEF UnapplyCredit, Live, Documents
  <2>2. batch[b] \in BatchRow
    BY <1>t, <2>1
  <2>3. /\ batch'[b].source = batch[b].source
        /\ \A d \in Batches \ {b} : batch'[d] = batch[d]
    BY <1>t, <2>1, <2>2 DEF BatchRow
  <2>4. Gain' = Gain
    BY <2>1, <2>3, CreditsGainNothing
  <2> QED BY <2>1, <2>4, BalanceStays, FxKept
<1>8. ASSUME NEW t \in Targets, PostInvoice(t) \/ PostBill(t)
      PROVE  FxReconciles'
  <2>1. UNCHANGED batch /\ t \in Documents /\ Base(t, Total[t]) \in Int
    <3>1. Total[t] \in Int /\ \A a \in Int : Base(t, a) \in Int
      BY TargetsAreConverted, AmountAssumption DEF Documents
    <3> QED BY <1>8, <3>1 DEF PostInvoice, PostBill, Documents
  <2>2. \/ Post(PostKey(t), DocumentEntry(Side[t], Base(t, Total[t])))
        \/ Posted(t) /\ UNCHANGED journal
    BY <1>8 DEF PostInvoice, PostBill, Posted
  <2> QED BY <2>1, <2>2, <1>d
<1>9. ASSUME NEW c \in Credits, PostCreditNote(c) \/ PostDebitNote(c)
      PROVE  FxReconciles'
  <2>1. UNCHANGED batch /\ c \in Documents /\ -CreditEffect(c) \in Int
    BY <1>9, CreditEffectIsNumber DEF PostCreditNote, PostDebitNote, Documents
  <2>2. \/ Post(PostKey(c), DocumentEntry(Side[c], -CreditEffect(c)))
        \/ Posted(c) /\ UNCHANGED journal
    BY <1>9 DEF PostCreditNote, PostDebitNote, Posted
  <2> QED BY <2>1, <2>2, <1>d
<1>10. CASE \/ \E p \in Payments, amount \in PaymentAmounts, fee \in Fees :
                 UpdateDraftPayment(p, amount, fee)
            \/ \E d \in Documents : LoadDocument(d)
            \/ UNCHANGED vars
  BY <1>10, <1>1 DEF UpdateDraftPayment, LoadDocument, vars
<1> QED BY <1>2, <1>3, <1>4, <1>5, <1>6, <1>7, <1>8, <1>9, <1>10 DEF Next

-----------------------------------------------------------------------------
(* The control accounts.                                                   *)

\* The account and its three subledger sums move by amounts that agree.
ControlMoves(side, e, x, y, z) ==
  /\ e \in Int /\ x \in Int /\ y \in Int /\ z \in Int
  /\ Balance(Control(side))' = Balance(Control(side)) + e
  /\ OpenBase(side)' = OpenBase(side) + x
  /\ CreditsPosted(side)' = CreditsPosted(side) + y
  /\ CreditsApplied(side)' = CreditsApplied(side) + z
  /\ Sign(side) * e = x - y + z

LEMMA SubledgersAreNumbers ==
  ASSUME WholeRates, TypeOK, NEW side
  PROVE  OpenBase(side) \in Int /\ CreditsPosted(side) \in Int /\ CreditsApplied(side) \in Int
BY DueIsSum, NotedIsSum, UsedIsSum, TablesAreFinite, SumType

LEMMA ControlFollows ==
  ASSUME WholeRates, TypeOK, ControlReconciles,
         \A side \in Sides : \E e, x, y, z : ControlMoves(side, e, x, y, z)
  PROVE  ControlReconciles'
<1> SUFFICES ASSUME NEW side \in Sides
             PROVE  Sign(side) * Balance(Control(side))' =
                      OpenBase(side)' - CreditsPosted(side)' + CreditsApplied(side)'
  BY DEF ControlReconciles
<1>1. PICK e, x, y, z : ControlMoves(side, e, x, y, z)
  OBVIOUS
<1>2. Sign(side) * Balance(Control(side)) =
        OpenBase(side) - CreditsPosted(side) + CreditsApplied(side)
  BY DEF ControlReconciles
<1>3. /\ Balance(Control(side)) \in Int
      /\ OpenBase(side) \in Int
      /\ CreditsPosted(side) \in Int
      /\ CreditsApplied(side) \in Int
  BY BalanceIsSum, AccountsNamed, SubledgersAreNumbers
<1>4. Sign(side) = 1 \/ Sign(side) = -1
  BY SignsAreUnits
<1> QED BY <1>1, <1>2, <1>3, <1>4 DEF ControlMoves

LEMMA DueUnchanged ==
  ASSUME UNCHANGED doc
  PROVE  \A side : Due(side)' = Due(side)
BY DEF Due, OpenDocs

LEMMA NotedUnchanged ==
  ASSUME NEW key, GrowsAt(key), \A c \in Credits : key # PostKey(c)
  PROVE  \A side : Noted(side)' = Noted(side)
<1>1. \A c \in Credits : Recorded(PostKey(c))' <=> Recorded(PostKey(c))
  BY PostedAfter DEF Posted, Documents
<1> QED BY <1>1 DEF Noted, NotedCredits

LEMMA UsedSame ==
  ASSUME NEW b \in Batches, batch'[b] = batch[b]
  PROVE  \A side : Used(side)'[b] = Used(side)[b]
BY DEF Used, UsedBatches, LiveBatchesBy, LiveBatches, Live

LEMMA UsedUnchanged ==
  ASSUME UNCHANGED batch
  PROVE  \A side : Used(side)' = Used(side)
BY DEF Used, UsedBatches, LiveBatchesBy, LiveBatches, Live

\* A batch of a payment uses no credit.
LEMMA PaymentsUseNothing ==
  ASSUME NEW b \in Batches, batch[b] = NoBatch \/ batch[b].source \notin Credits,
         batch'[b] = NoBatch \/ batch'[b].source \notin Credits,
         \A c \in Batches \ {b} : batch'[c] = batch[c]
  PROVE  \A side : Used(side)' = Used(side)
<1> SUFFICES ASSUME NEW side PROVE Used(side)' = Used(side)
  OBVIOUS
<1>1. \A c \in Batches \ {b} : Used(side)'[c] = Used(side)[c]
  BY UsedSame
<1>2. Used(side)[b] = 0 /\ Used(side)'[b] = 0
  BY DEF Used, UsedBatches, LiveBatchesBy, LiveBatches, Live
<1>3. \A c \in Batches : Used(side)'[c] = Used(side)[c]
  BY <1>1, <1>2
<1> QED BY <1>3 DEF Used

LEMMA ControlKept ==
  ASSUME WholeRates, TypeOK, TypeOK', ControlReconciles,
         \A side \in Sides : /\ Balance(Control(side))' = Balance(Control(side))
                             /\ Due(side)' = Due(side)
                             /\ Noted(side)' = Noted(side)
                             /\ Used(side)' = Used(side)
  PROVE  ControlReconciles'
<1>1. \A side \in Sides : /\ OpenBase(side)' = OpenBase(side)
                          /\ CreditsPosted(side)' = CreditsPosted(side)
                          /\ CreditsApplied(side)' = CreditsApplied(side)
  BY DueStays, NotedStays, UsedStays
<1> QED BY <1>1 DEF ControlReconciles

LEMMA DueAfter ==
  WholeRates /\ TypeOK' => \A z :
    /\ OpenBase(z)' = SumFunctionOnSet(Due(z)', Targets)
    /\ \A t \in Targets : Due(z)'[t] \in Int
<1>1. (WholeRates /\ TypeOK => \A z :
         /\ OpenBase(z) = SumFunctionOnSet(Due(z), Targets)
         /\ \A t \in Targets : Due(z)[t] \in Int)'
  BY DueIsSum, PTL
<1> QED BY <1>1 DEF WholeRates

\* Settling documents takes the lines, converted, off what is open.
LEMMA OpenBaseSettled ==
  ASSUME WholeRates, TypeOK, TypeOK', RemaindersAreDerived, RemaindersAreDerived', PostedDocs,
         NEW s \in Sources, NEW lines \in Lines, NEW sign \in {1, -1},
         doc' = SettledDocs(s, lines, sign),
         \A t \in Touched(lines) : Posted(t) /\ Side[t] = Side[s]
  PROVE  \A side : OpenBase(side)' =
           OpenBase(side) - IF side = Side[s] THEN sign * TargetBase(lines) ELSE 0
<1> SUFFICES ASSUME NEW side
             PROVE  OpenBase(side)' =
                      OpenBase(side) - IF side = Side[s] THEN sign * TargetBase(lines) ELSE 0
  OBVIOUS
<1> DEFINE k == IF side = Side[s] THEN sign ELSE 0
           f == Due(side)
           g == Due(side)'
           w == [t \in Targets |-> Base(t, lines[t])]
           h == [t \in Targets |-> k * w[t]]
           S(u) == SumFunctionOnSet(u, Targets)
<1>t. /\ doc \in [Targets -> DocRow] /\ doc' \in [Targets -> DocRow]
      /\ \A t \in Targets : lines[t] \in Nat
  BY LinesAreNumbers DEF TypeOK
<1>1. \A t \in Targets : w[t] \in Int /\ h[t] \in Int
  BY LinesAreConverted
<1>2. ASSUME NEW t \in Targets
      PROVE  f[t] = g[t] + h[t]
  <2>c. /\ Base(t, 0) = 0
        /\ \A a \in Int : Base(t, a) \in Int
        /\ \A a \in Int, b \in Int : /\ Base(t, a + b) = Base(t, a) + Base(t, b)
                                     /\ Base(t, a - b) = Base(t, a) - Base(t, b)
    BY TargetsAreConverted
  <2>1. CASE t \in Touched(lines)
    <3>1. Posted(t) /\ Side[t] = Side[s]
      BY <2>1
    <3>2. doc[t].status \in PostedStates /\ doc'[t].status \in PostedStates
      <4>1. doc[t].status # "UNPOSTED" /\ doc'[t].status # "UNPOSTED"
        BY <2>1, <3>1, SettledStatus DEF PostedDocs
      <4> QED BY <1>t, <4>1 DEF DocRow, Statuses, PostedStates
    <3>3. doc'[t].open = doc[t].open - sign * lines[t]
      <4>1. /\ doc[t].open = Total[t] - doc[t].allocated - doc[t].credited
            /\ doc'[t].open = Total[t] - doc'[t].allocated - doc'[t].credited
        BY DEF RemaindersAreDerived
      <4>2. \/ /\ doc'[t].allocated = doc[t].allocated + sign * lines[t]
               /\ doc'[t].credited = doc[t].credited
            \/ /\ doc'[t].allocated = doc[t].allocated
               /\ doc'[t].credited = doc[t].credited + sign * lines[t]
        BY <2>1 DEF SettledDocs, DocWith
      <4>3. Total[t] \in Int /\ sign * lines[t] \in Int
        BY <1>t, AmountAssumption DEF Documents
      <4>4. doc[t].allocated \in Int /\ doc[t].credited \in Int
        BY <1>t DEF DocRow
      <4> QED BY <4>1, <4>2, <4>3, <4>4
    <3>4. /\ f[t] = IF side = Side[s] THEN Base(t, doc[t].open) ELSE 0
          /\ g[t] = IF side = Side[s] THEN Base(t, doc'[t].open) ELSE 0
      BY <3>1, <3>2 DEF Due, OpenDocs
    <3>5. /\ doc[t].open \in Int /\ doc'[t].open \in Int /\ lines[t] \in Int
          /\ Base(t, doc[t].open) \in Int /\ Base(t, doc'[t].open) \in Int
      <4>1. doc[t].open \in Int /\ doc'[t].open \in Int
        BY <1>t DEF DocRow
      <4>2. lines[t] \in Int
        BY <1>t
      <4>3. Base(t, doc[t].open) \in Int /\ Base(t, doc'[t].open) \in Int
        BY <2>c, <4>1
      <4> QED BY <4>1, <4>2, <4>3
    <3>6. CASE sign = 1
      <4>1. Base(t, doc'[t].open) = Base(t, doc[t].open) - w[t]
        <5>1. doc'[t].open = doc[t].open - lines[t]
          BY <3>3, <3>5, <3>6
        <5>2. Base(t, doc[t].open - lines[t]) = Base(t, doc[t].open) - Base(t, lines[t])
          BY <2>c, <3>5
        <5> QED BY <5>1, <5>2
      <4>2. w[t] \in Int
        BY <1>1
      <4> HIDE DEF f, g, w
      <4> QED BY <3>4, <3>5, <3>6, <4>1, <4>2
    <3>7. CASE sign = -1
      <4>1. Base(t, doc'[t].open) = Base(t, doc[t].open) + w[t]
        <5>1. doc'[t].open = doc[t].open + lines[t]
          BY <3>3, <3>5, <3>7
        <5>2. Base(t, doc[t].open + lines[t]) = Base(t, doc[t].open) + Base(t, lines[t])
          BY <2>c, <3>5
        <5> QED BY <5>1, <5>2
      <4>2. w[t] \in Int
        BY <1>1
      <4> HIDE DEF f, g, w
      <4> QED BY <3>4, <3>5, <3>7, <4>1, <4>2
    <3> QED BY <3>6, <3>7
  <2>2. CASE t \notin Touched(lines)
    <3>1. lines[t] = 0 /\ doc'[t] = doc[t]
      BY <1>t, <2>2, SettledStatus DEF Touched
    <3>2. f[t] = g[t] /\ f[t] \in Int
      <4>1. f[t] \in Int
        BY DueIsSum
      <4>2. f[t] = g[t]
        BY <3>1 DEF Due, OpenDocs
      <4> QED BY <4>1, <4>2
    <3>3. h[t] = 0
      <4>1. w[t] = 0
        BY <2>c, <3>1
      <4>2. k \in {1, -1, 0}
        OBVIOUS
      <4> HIDE DEF w, k
      <4> QED BY <4>1, <4>2
    <3> HIDE DEF f, g, h
    <3> QED BY <3>2, <3>3
  <2> QED BY <2>1, <2>2
<1>3. S(w) = TargetBase(lines) /\ TargetBase(lines) \in Int
  BY TargetBaseIsNumber DEF TargetBase, SumOver
<1>4. OpenBase(side) = S(f) /\ OpenBase(side)' = S(g) /\ \A t \in Targets : g[t] \in Int
  BY DueIsSum, DueAfter
<1>5. k \in Int
  OBVIOUS
<1>6. \A t \in Targets : h[t] = k * w[t]
  OBVIOUS
<1> HIDE DEF f, g, h, w, k
<1>7. S(f) = S(g) + S(h)
  BY <1>1, <1>2, <1>4, TablesAreFinite, SumPlus
<1>8. S(h) = k * S(w)
  BY <1>1, <1>5, <1>6, TablesAreFinite, SumScale
<1>9. S(g) \in Int
  BY <1>4, TablesAreFinite, SumType
<1>10. OpenBase(side)' = OpenBase(side) - k * TargetBase(lines)
  BY <1>3, <1>4, <1>5, <1>7, <1>8, <1>9
<1>11. CASE side = Side[s]
  BY <1>10, <1>11 DEF k
<1>12. CASE side # Side[s]
  <2>1. k * TargetBase(lines) = 0
    BY <1>3, <1>12 DEF k
  <2> QED BY <1>10, <1>12, <2>1
<1> QED BY <1>11, <1>12

LEMMA ControlStep ==
  ASSUME WholeRates, TypeOK, TypeOK', RemaindersAreDerived, RemaindersAreDerived',
         JournalsInv, TotalsInv, ItemsInv, EntriesInv, ControlReconciles, [Next]_vars
  PROVE  ControlReconciles'
<1>t. /\ pay \in [Payments -> PaymentRow]
      /\ doc \in [Targets -> DocRow]
      /\ batch \in [Batches -> BatchRow \cup {NoBatch}]
      /\ PostedDocs
  BY DEF TypeOK, EntriesInv
<1>f. \A side \in Sides : Balance(Control(side)) \in Int
  BY BalanceIsSum, AccountsNamed
<1>k. ASSUME NEW key, GrowsAt(key), \A c \in Credits : key # PostKey(c),
             UNCHANGED <<doc, batch>>,
             \A side \in Sides : Balance(Control(side))' = Balance(Control(side))
      PROVE  ControlReconciles'
  <2>1. \A side \in Sides : /\ Due(side)' = Due(side)
                            /\ Noted(side)' = Noted(side)
                            /\ Used(side)' = Used(side)
    BY <1>k, DueUnchanged, NotedUnchanged, UsedUnchanged
  <2> QED BY <1>k, <2>1, ControlKept
<1>p. ASSUME NEW p \in Payments, NEW side \in Sides
      PROVE  EntryOfPayment(p)[Control(side)] = 0
  <2>1. pay[p].amount \in Int /\ pay[p].fee \in Int
    BY <1>t DEF PaymentRow
  <2>2. \A a \in Int : Base(p, a) \in Int
    BY PaymentsAreConverted
  <2>3. Base(p, pay[p].amount) \in Int /\ Base(p, pay[p].fee) \in Int
    BY <2>1, <2>2
  <2> QED BY <2>3, SideOfPayment, ControlEntries DEF EntryOfPayment
<1>1. CASE UNCHANGED <<doc, batch, journal>>
  <2>1. \A side \in Sides : Noted(side)' = Noted(side)
    BY <1>1 DEF Noted, NotedCredits, Recorded
  <2> QED BY <1>1, <2>1, BalanceStays, DueUnchanged, UsedUnchanged, ControlKept
<1>2. ASSUME NEW p \in Payments, PostPayment(p)
      PROVE  ControlReconciles'
  <2>1. GrowsAt(PostKey(p)) /\ UNCHANGED <<doc, batch>>
    BY <1>2, KeysAreKeys, StepGrows DEF PostPayment
  <2>2. \A c \in Credits : PostKey(p) # PostKey(c)
    BY KeysAreDistinct, DisjointAssumption DEF Documents
  <2>3. \A side \in Sides : Balance(Control(side))' = Balance(Control(side))
    <3>1. \A side \in Sides : Balance(Control(side))' =
            Balance(Control(side)) + EntryOfPayment(p)[Control(side)]
      BY <1>2, PostingMoves, AccountsNamed
    <3> QED BY <1>f, <1>p, <3>1
  <2> QED BY <2>1, <2>2, <2>3, <1>k
<1>3. ASSUME NEW p \in Payments, ReversePayment(p)
      PROVE  ControlReconciles'
  <2>1. GrowsAt(ReversalKey(p)) /\ UNCHANGED <<doc, batch>>
    BY <1>3, KeysAreKeys, StepGrows DEF ReversePayment, PostMirror
  <2>2. \A c \in Credits : ReversalKey(p) # PostKey(c)
    BY KeysAreDistinct
  <2>3. \A side \in Sides : Balance(Control(side))' = Balance(Control(side))
    <3>1. \A side \in Sides : Balance(Control(side))' =
            Balance(Control(side)) - EntryOfPayment(p)[Control(side)]
      BY <1>3, ReversalMoves, AccountsNamed
    <3> QED BY <1>f, <1>p, <3>1
  <2> QED BY <2>1, <2>2, <2>3, <1>k
<1>4. ASSUME NEW p \in Payments, NEW b \in Batches, NEW lines \in Lines,
             AllocatePayment(p, b, lines)
      PROVE  ControlReconciles'
  <2> DEFINE x == Base(p, BatchTotal(lines))
             y == TargetBase(lines)
             k(side) == IF side = Side[p] THEN y ELSE 0
             e(side) == AllocationEntry(Side[p], x, y)[Control(side)]
  <2>1. /\ batch[b] = NoBatch
        /\ batch' = [batch EXCEPT ![b] = NewBatch(p, lines)]
        /\ doc' = SettledDocs(p, lines, 1)
        /\ \A t \in Touched(lines) : Posted(t) /\ Side[t] = Side[p]
    BY <1>4 DEF AllocatePayment, ValidTarget, Posted
  <2>2. x \in Int /\ y \in Int
    BY LinesFx, TargetBaseIsNumber
  <2>3. GrowsAt(AllocationKey(p, b))
    BY <1>4, KeysAreKeys, StepGrows DEF AllocatePayment
  <2>4. \A side : OpenBase(side)' = OpenBase(side) - k(side)
    <3>1. p \in Sources /\ 1 \in {1, -1}
      BY DEF Sources
    <3>2. \A side : OpenBase(side)' = OpenBase(side) - IF side = Side[p] THEN 1 * y ELSE 0
      BY <1>t, <2>1, <3>1, OpenBaseSettled
    <3> QED BY <2>2, <3>2
  <2>5. \A side : CreditsPosted(side)' = CreditsPosted(side)
    BY <2>3, KeysAreDistinct, NotedUnchanged, NotedStays
  <2>6. \A side : CreditsApplied(side)' = CreditsApplied(side)
    <3>1. batch'[b].source = p /\ \A c \in Batches \ {b} : batch'[c] = batch[c]
      BY <1>t, <2>1 DEF NewBatch
    <3>2. p \notin Credits
      BY DisjointAssumption DEF Documents
    <3> QED BY <2>1, <3>1, <3>2, PaymentsUseNothing, UsedStays
  <2>7. \A side \in Sides : Balance(Control(side))' = Balance(Control(side)) + e(side)
    BY <1>4, AllocationMoves, AccountsNamed
  <2> HIDE DEF x, y
  <2>8. \A side \in Sides : e(side) = IF side = Side[p] THEN -Sign(Side[p]) * y ELSE 0
    BY <2>2, SideOfPayment, ControlEntries
  <2>9. ASSUME NEW side \in Sides
        PROVE  ControlMoves(side, e(side), -k(side), 0, 0)
    <3>1. OpenBase(side) \in Int /\ CreditsPosted(side) \in Int /\ CreditsApplied(side) \in Int
      BY SubledgersAreNumbers
    <3>2. Sign(side) = 1 \/ Sign(side) = -1
      BY SignsAreUnits
    <3>3. /\ e(side) \in Int /\ k(side) \in Int
          /\ Sign(side) * e(side) = -k(side)
      BY <2>2, <2>8, <3>2
    <3> HIDE DEF e, k
    <3> QED BY <2>4, <2>5, <2>6, <2>7, <3>1, <3>3 DEF ControlMoves
  <2> QED BY <2>9, ControlFollows
<1>5. ASSUME NEW b \in Batches, UnapplyPayment(b)
      PROVE  ControlReconciles'
  <2>s. SUFFICES ASSUME NEW p \in Payments, p = batch[b].source,
                        NEW lines \in Lines, lines = batch[b].lines
                 PROVE  ControlReconciles'
    BY <1>5, LiveLines DEF UnapplyPayment
  <2> DEFINE x == Base(p, BatchTotal(lines))
             y == TargetBase(lines)
             k(side) == IF side = Side[p] THEN y ELSE 0
             e(side) == AllocationEntry(Side[p], x, y)[Control(side)]
  <2>1. /\ Live(b)
        /\ batch' = [batch EXCEPT ![b].reversed = TRUE]
        /\ doc' = SettledDocs(p, lines, -1)
    BY <2>s, <1>5 DEF UnapplyPayment
  <2>2. x \in Int /\ y \in Int
    BY <2>s, LinesFx, TargetBaseIsNumber
  <2>3. GrowsAt(BatchReversalKey(b))
    BY <1>5, KeysAreKeys, StepGrows DEF UnapplyPayment, PostMirror
  <2>4. \A side : OpenBase(side)' = OpenBase(side) + k(side)
    <3>1. p \in Sources /\ -1 \in {1, -1}
      BY <2>s DEF Sources
    <3>2. \A t \in Touched(lines) : Posted(t) /\ Side[t] = Side[p]
      <4>1. batch[b] # NoBatch
        BY <2>1 DEF Live
      <4> QED BY <2>s, <4>1 DEF JournalsInv, BatchOK, EntriesInv, BatchEntry, Posted
    <3>3. \A side : OpenBase(side)' = OpenBase(side) - IF side = Side[p] THEN (-1) * y ELSE 0
      <4>1. lines \in Lines
        BY <2>s
      <4> QED BY <1>t, <2>1, <3>1, <3>2, <4>1, OpenBaseSettled
    <3>4. \A side : OpenBase(side) \in Int
      BY SubledgersAreNumbers
    <3> HIDE DEF y
    <3> QED BY <2>2, <3>3, <3>4
  <2>5. \A side : CreditsPosted(side)' = CreditsPosted(side)
    BY <2>3, KeysAreDistinct, NotedUnchanged, NotedStays
  <2>6. \A side : CreditsApplied(side)' = CreditsApplied(side)
    <3>1. batch[b] \in BatchRow
      BY <1>t, <2>1 DEF Live
    <3>2. /\ batch'[b].source = batch[b].source
          /\ \A c \in Batches \ {b} : batch'[c] = batch[c]
      BY <1>t, <2>1, <3>1 DEF BatchRow
    <3>3. batch[b].source \notin Credits
      BY <2>s, DisjointAssumption DEF Documents
    <3> QED BY <3>2, <3>3, PaymentsUseNothing, UsedStays
  <2>7. \A side \in Sides : Balance(Control(side))' = Balance(Control(side)) - e(side)
    BY <2>s, <1>5, UnapplyMoves, AccountsNamed DEF EntryOfBatch
  <2> HIDE DEF x, y
  <2>8. \A side \in Sides : e(side) = IF side = Side[p] THEN -Sign(Side[p]) * y ELSE 0
    BY <2>s, <2>2, SideOfPayment, ControlEntries
  <2>9. ASSUME NEW side \in Sides
        PROVE  ControlMoves(side, -e(side), k(side), 0, 0)
    <3>1. OpenBase(side) \in Int /\ CreditsPosted(side) \in Int /\ CreditsApplied(side) \in Int
      BY SubledgersAreNumbers
    <3>2. Sign(side) = 1 \/ Sign(side) = -1
      BY SignsAreUnits
    <3>3. /\ e(side) \in Int /\ k(side) \in Int
          /\ Sign(side) * e(side) = -k(side)
          /\ Sign(side) * (-e(side)) = k(side)
      BY <2>2, <2>8, <3>2
    <3> HIDE DEF e, k
    <3> QED BY <1>f, <2>4, <2>5, <2>6, <2>7, <3>1, <3>3 DEF ControlMoves
  <2> QED BY <2>9, ControlFollows
<1>6. ASSUME NEW c \in Credits, NEW b \in Batches, NEW lines \in Lines,
             ApplyCredit(c, b, lines)
      PROVE  ControlReconciles'
  <2> DEFINE y == TargetBase(lines)
             k(side) == IF side = Side[c] THEN y ELSE 0
  <2>1. /\ batch[b] = NoBatch
        /\ batch' = [batch EXCEPT ![b] = NewBatch(c, lines)]
        /\ doc' = SettledDocs(c, lines, 1)
        /\ \A t \in Touched(lines) : Posted(t) /\ Side[t] = Side[c]
        /\ UNCHANGED journal
    BY <1>6 DEF ApplyCredit, ValidTarget, Posted
  <2>2. y \in Int
    BY TargetBaseIsNumber
  <2>3. \A side : OpenBase(side)' = OpenBase(side) - k(side)
    <3>1. c \in Sources /\ 1 \in {1, -1}
      BY DEF Sources
    <3>2. \A side : OpenBase(side)' = OpenBase(side) - IF side = Side[c] THEN 1 * y ELSE 0
      BY <1>t, <2>1, <3>1, OpenBaseSettled
    <3> QED BY <2>2, <3>2
  <2>4. \A side : CreditsPosted(side)' = CreditsPosted(side)
    <3>1. \A side : Noted(side)' = Noted(side)
      BY <2>1 DEF Noted, NotedCredits, Recorded
    <3> QED BY <3>1, NotedStays
  <2>5. \A side : CreditsApplied(side)' = CreditsApplied(side) + k(side)
    <3> SUFFICES ASSUME NEW side
                 PROVE  CreditsApplied(side)' = CreditsApplied(side) + k(side)
      OBVIOUS
    <3>1. /\ batch'[b] = NewBatch(c, lines)
          /\ \A d \in Batches \ {b} : batch'[d] = batch[d]
      BY <1>t, <2>1
    <3>2. NewBatch(c, lines) # NoBatch
      <4>1. NewBatch(c, lines) \in BatchRow
        BY DEF NewBatch, BatchRow, Sources
      <4> QED BY <4>1, NullAssumption
    <3>3. Used(side)[b] = 0
      BY <2>1 DEF Used, UsedBatches, LiveBatchesBy, LiveBatches, Live
    <3>4. Used(side)'[b] = k(side)
      BY <3>1, <3>2 DEF Used, UsedBatches, LiveBatchesBy, LiveBatches, Live, NewBatch
    <3>5. CreditsApplied(side)' = CreditsApplied(side) + (Used(side)'[b] - Used(side)[b])
      BY <3>1, UsedSame, UsedMoves
    <3> HIDE DEF y
    <3> QED BY <2>2, <3>3, <3>4, <3>5
  <2>6. \A side \in Sides : Balance(Control(side))' = Balance(Control(side))
    BY <2>1, BalanceStays
  <2>7. ASSUME NEW side \in Sides
        PROVE  ControlMoves(side, 0, -k(side), 0, k(side))
    <3>1. OpenBase(side) \in Int /\ CreditsPosted(side) \in Int /\ CreditsApplied(side) \in Int
      BY SubledgersAreNumbers
    <3>2. Sign(side) = 1 \/ Sign(side) = -1
      BY SignsAreUnits
    <3>3. k(side) \in Int
      BY <2>2
    <3> HIDE DEF k
    <3> QED BY <1>f, <2>3, <2>4, <2>5, <2>6, <3>1, <3>2, <3>3 DEF ControlMoves
  <2> QED BY <2>7, ControlFollows
<1>7. ASSUME NEW b \in Batches, UnapplyCredit(b)
      PROVE  ControlReconciles'
  <2>s. SUFFICES ASSUME NEW c \in Credits, c = batch[b].source,
                        NEW lines \in Lines, lines = batch[b].lines
                 PROVE  ControlReconciles'
    BY <1>7, LiveLines DEF UnapplyCredit
  <2> DEFINE y == TargetBase(lines)
             k(side) == IF side = Side[c] THEN y ELSE 0
  <2>1. /\ Live(b)
        /\ batch' = [batch EXCEPT ![b].reversed = TRUE]
        /\ doc' = SettledDocs(c, lines, -1)
        /\ UNCHANGED journal
    BY <2>s, <1>7 DEF UnapplyCredit
  <2>2. y \in Int
    BY <2>s, TargetBaseIsNumber
  <2>3. \A side : OpenBase(side)' = OpenBase(side) + k(side)
    <3>1. c \in Sources /\ -1 \in {1, -1}
      BY <2>s DEF Sources
    <3>2. \A t \in Touched(lines) : Posted(t) /\ Side[t] = Side[c]
      <4>1. batch[b] # NoBatch
        BY <2>1 DEF Live
      <4> QED BY <2>s, <4>1 DEF JournalsInv, BatchOK, EntriesInv, BatchEntry, Posted
    <3>3. \A side : OpenBase(side)' = OpenBase(side) - IF side = Side[c] THEN (-1) * y ELSE 0
      <4>1. lines \in Lines
        BY <2>s
      <4> QED BY <1>t, <2>1, <3>1, <3>2, <4>1, OpenBaseSettled
    <3>4. \A side : OpenBase(side) \in Int
      BY SubledgersAreNumbers
    <3> HIDE DEF y
    <3> QED BY <2>2, <3>3, <3>4
  <2>4. \A side : CreditsPosted(side)' = CreditsPosted(side)
    <3>1. \A side : Noted(side)' = Noted(side)
      BY <2>1 DEF Noted, NotedCredits, Recorded
    <3> QED BY <3>1, NotedStays
  <2>5. \A side : CreditsApplied(side)' = CreditsApplied(side) - k(side)
    <3> SUFFICES ASSUME NEW side
                 PROVE  CreditsApplied(side)' = CreditsApplied(side) - k(side)
      OBVIOUS
    <3>1. batch[b] \in BatchRow
      BY <1>t, <2>1 DEF Live
    <3>2. /\ batch'[b].reversed
          /\ \A d \in Batches \ {b} : batch'[d] = batch[d]
      BY <1>t, <2>1, <3>1 DEF BatchRow
    <3>3. Used(side)'[b] = 0
      BY <3>2 DEF Used, UsedBatches, LiveBatchesBy, LiveBatches, Live
    <3>4. Used(side)[b] = k(side)
      BY <2>s, <2>1 DEF Used, UsedBatches, LiveBatchesBy, LiveBatches
    <3>5. CreditsApplied(side)' = CreditsApplied(side) + (Used(side)'[b] - Used(side)[b])
      BY <3>2, UsedSame, UsedMoves
    <3>6. CreditsApplied(side) \in Int /\ k(side) \in Int
      BY <2>2, SubledgersAreNumbers
    <3> HIDE DEF k
    <3> QED BY <3>3, <3>4, <3>5, <3>6
  <2>6. \A side \in Sides : Balance(Control(side))' = Balance(Control(side))
    BY <2>1, BalanceStays
  <2>7. ASSUME NEW side \in Sides
        PROVE  ControlMoves(side, 0, k(side), 0, -k(side))
    <3>1. OpenBase(side) \in Int /\ CreditsPosted(side) \in Int /\ CreditsApplied(side) \in Int
      BY SubledgersAreNumbers
    <3>2. Sign(side) = 1 \/ Sign(side) = -1
      BY SignsAreUnits
    <3>3. k(side) \in Int
      BY <2>2
    <3> HIDE DEF k
    <3> QED BY <1>f, <2>3, <2>4, <2>5, <2>6, <3>1, <3>2, <3>3 DEF ControlMoves
  <2> QED BY <2>7, ControlFollows
<1>8. ASSUME NEW t \in Targets, PostInvoice(t) \/ PostBill(t)
      PROVE  ControlReconciles'
  <2> DEFINE x == Base(t, Total[t])
             k(side) == IF ~Posted(t) /\ side = Side[t] THEN x ELSE 0
             e(side) == IF Posted(t) THEN 0 ELSE DocumentEntry(Side[t], x)[Control(side)]
  <2>1. t \in Documents /\ x \in Int
    <3>1. Total[t] \in Int /\ \A a \in Int : Base(t, a) \in Int
      BY TargetsAreConverted, AmountAssumption DEF Documents
    <3> QED BY <3>1 DEF Documents
  <2>2. \/ Post(PostKey(t), DocumentEntry(Side[t], x))
        \/ Posted(t) /\ UNCHANGED journal
    BY <1>8 DEF PostInvoice, PostBill, Posted
  <2>3. \A side \in Sides : Balance(Control(side))' = Balance(Control(side)) + e(side)
    BY <2>1, <2>2, DocumentMoves, AccountsNamed
  <2>4. GrowsAt(PostKey(t))
    BY <2>1, <2>2, KeysAreKeys, StepGrows
  <2>5. \A side : CreditsPosted(side)' = CreditsPosted(side)
    <3>1. \A c \in Credits : PostKey(t) # PostKey(c)
      BY KeysAreDistinct, DisjointAssumption DEF Documents
    <3> QED BY <2>4, <3>1, NotedUnchanged, NotedStays
  <2>6. \A side : CreditsApplied(side)' = CreditsApplied(side)
    <3>1. UNCHANGED batch
      BY <1>8 DEF PostInvoice, PostBill
    <3> QED BY <3>1, UsedUnchanged, UsedStays
  <2>7. /\ doc'[t].status \in PostedStates
        /\ doc'[t].open = doc[t].open
        /\ \A u \in Targets \ {t} : doc'[u] = doc[u]
        /\ Posted(t) => doc[t].status \in PostedStates
        /\ ~Posted(t) => doc[t].open = Total[t] /\ doc[t].status \notin PostedStates
    <3>1. Posted(t) => doc[t].status \in PostedStates
      BY <1>t DEF PostedDocs, DocRow, Statuses, PostedStates
    <3>2. ~Posted(t) => doc[t].open = Total[t] /\ doc[t].status \notin PostedStates
      <4> SUFFICES ASSUME ~Posted(t)
                   PROVE  doc[t].open = Total[t] /\ doc[t].status \notin PostedStates
        OBVIOUS
      <4>1. doc[t].allocated = 0 /\ doc[t].credited = 0
        BY UnpostedIsUnsettled DEF TotalsInv, DocTotals
      <4>2. Total[t] \in Int
        BY AmountAssumption DEF Documents
      <4>3. doc[t].open = Total[t]
        BY <4>1, <4>2 DEF RemaindersAreDerived
      <4> QED BY <1>t, <4>3 DEF PostedDocs, PostedStates
    <3>3. CASE PostInvoice(t)
      BY <1>t, <3>1, <3>2, <3>3 DEF PostInvoice, DocRow, PostedStates
    <3>4. CASE PostBill(t) /\ Posted(t)
      BY <3>1, <3>4 DEF PostBill, Posted, Post
    <3>5. CASE PostBill(t) /\ ~Posted(t)
      BY <1>t, <3>2, <3>5 DEF PostBill, Posted, PostedStates
    <3> QED BY <1>8, <3>3, <3>4, <3>5
  <2>8. \A side : OpenBase(side)' = OpenBase(side) + k(side)
    <3> SUFFICES ASSUME NEW side PROVE OpenBase(side)' = OpenBase(side) + k(side)
      OBVIOUS
    <3>1. \A u \in Targets \ {t} : Due(side)'[u] = Due(side)[u]
      BY <2>7 DEF Due, OpenDocs
    <3>2. OpenBase(side)' = OpenBase(side) + (Due(side)'[t] - Due(side)[t])
      BY <3>1, DueMoves
    <3>3. CASE Posted(t)
      <4>1. Due(side)'[t] = Due(side)[t]
        BY <2>7, <3>3 DEF Due, OpenDocs
      <4>2. Due(side)[t] \in Int
        BY DueIsSum
      <4> QED BY <3>2, <3>3, <4>1, <4>2
    <3>4. CASE ~Posted(t)
      <4>1. Due(side)[t] = 0
        BY <2>7, <3>4 DEF Due, OpenDocs
      <4>2. Due(side)'[t] = k(side)
        BY <2>7, <3>4 DEF Due, OpenDocs
      <4>3. k(side) \in Int
        BY <2>1
      <4> HIDE DEF k
      <4> QED BY <3>2, <4>1, <4>2, <4>3
    <3> QED BY <3>3, <3>4
  <2> HIDE DEF x
  <2>9. ASSUME NEW side \in Sides
        PROVE  ControlMoves(side, e(side), k(side), 0, 0)
    <3>1. OpenBase(side) \in Int /\ CreditsPosted(side) \in Int /\ CreditsApplied(side) \in Int
      BY SubledgersAreNumbers
    <3>2. Sign(side) = 1 \/ Sign(side) = -1
      BY SignsAreUnits
    <3>3. DocumentEntry(Side[t], x)[Control(side)] =
            IF side = Side[t] THEN Sign(Side[t]) * x ELSE 0
      BY <2>1, SideOfPayment, ControlEntries
    <3>4. /\ e(side) \in Int /\ k(side) \in Int
          /\ Sign(side) * e(side) = k(side)
      BY <2>1, <3>2, <3>3
    <3> HIDE DEF e, k
    <3> QED BY <2>3, <2>5, <2>6, <2>8, <3>1, <3>4 DEF ControlMoves
  <2> QED BY <2>9, ControlFollows
<1>9. ASSUME NEW c \in Credits, PostCreditNote(c) \/ PostDebitNote(c)
      PROVE  ControlReconciles'
  <2> DEFINE x == CreditEffect(c)
             k(side) == IF ~Posted(c) /\ side = Side[c] THEN x ELSE 0
             e(side) == IF Posted(c) THEN 0 ELSE DocumentEntry(Side[c], -x)[Control(side)]
  <2>1. c \in Documents /\ x \in Int /\ -x \in Int
    BY CreditEffectIsNumber DEF Documents
  <2>2. \/ Post(PostKey(c), DocumentEntry(Side[c], -x))
        \/ Posted(c) /\ UNCHANGED journal
    BY <1>9 DEF PostCreditNote, PostDebitNote, Posted
  <2>3. \A side \in Sides : Balance(Control(side))' = Balance(Control(side)) + e(side)
    BY <2>1, <2>2, DocumentMoves, AccountsNamed
  <2>4. GrowsAt(PostKey(c)) /\ Posted(c)'
    <3>1. PostKey(c) \in Keys
      BY <2>1, KeysAreKeys
    <3>2. GrowsAt(PostKey(c))
      BY <2>2, <3>1, StepGrows
    <3>3. CASE Posted(c)
      BY <3>1, <3>2, <3>3 DEF GrowsAt, Posted
    <3>4. CASE ~Posted(c)
      <4>1. journal \in [Keys -> Entry \cup {NoEntry}]
        BY DEF TypeOK
      <4>2. Recorded(PostKey(c))'
        BY <2>2, <3>1, <3>4, <4>1, PostAppends DEF Posted
      <4> QED BY <3>2, <4>2 DEF Posted
    <3> QED BY <3>2, <3>3, <3>4
  <2>5. UNCHANGED <<doc, batch>>
    BY <1>9 DEF PostCreditNote, PostDebitNote
  <2>6. \A side : OpenBase(side)' = OpenBase(side) /\ CreditsApplied(side)' = CreditsApplied(side)
    BY <2>5, DueUnchanged, DueStays, UsedUnchanged, UsedStays
  <2>7. \A side : CreditsPosted(side)' = CreditsPosted(side) + k(side)
    <3> SUFFICES ASSUME NEW side PROVE CreditsPosted(side)' = CreditsPosted(side) + k(side)
      OBVIOUS
    <3>1. \A d \in Credits \ {c} : Posted(d)' <=> Posted(d)
      BY <2>4, PostedAfter, KeysAreDistinct DEF Documents
    <3>2. \A d \in Credits \ {c} : Noted(side)'[d] = Noted(side)[d]
      BY <3>1 DEF Noted, NotedCredits, Posted
    <3>3. CreditsPosted(side)' = CreditsPosted(side) + (Noted(side)'[c] - Noted(side)[c])
      BY <3>2, NotedMoves
    <3>4. Noted(side)[c] = IF Posted(c) /\ side = Side[c] THEN x ELSE 0
      BY DEF Noted, NotedCredits, Posted
    <3>5. Noted(side)'[c] = IF side = Side[c] THEN x ELSE 0
      BY <2>4 DEF Noted, NotedCredits, Posted
    <3>6. CreditsPosted(side) \in Int
      BY SubledgersAreNumbers
    <3> HIDE DEF x
    <3> QED BY <2>1, <3>3, <3>4, <3>5, <3>6
  <2> HIDE DEF x
  <2>8. ASSUME NEW side \in Sides
        PROVE  ControlMoves(side, e(side), 0, k(side), 0)
    <3>1. OpenBase(side) \in Int /\ CreditsPosted(side) \in Int /\ CreditsApplied(side) \in Int
      BY SubledgersAreNumbers
    <3>2. Sign(side) = 1 \/ Sign(side) = -1
      BY SignsAreUnits
    <3>3. DocumentEntry(Side[c], -x)[Control(side)] =
            IF side = Side[c] THEN Sign(Side[c]) * (-x) ELSE 0
      BY <2>1, SideOfPayment, ControlEntries
    <3>4. /\ e(side) \in Int /\ k(side) \in Int
          /\ Sign(side) * e(side) = -k(side)
      BY <2>1, <3>2, <3>3
    <3> HIDE DEF e, k
    <3> QED BY <2>3, <2>6, <2>7, <3>1, <3>4 DEF ControlMoves
  <2> QED BY <2>8, ControlFollows
<1>10. CASE \/ \E p \in Payments, amount \in PaymentAmounts, fee \in Fees :
                 UpdateDraftPayment(p, amount, fee)
            \/ \E d \in Documents : LoadDocument(d)
            \/ UNCHANGED vars
  BY <1>10, <1>1 DEF UpdateDraftPayment, LoadDocument, vars
<1> QED BY <1>2, <1>3, <1>4, <1>5, <1>6, <1>7, <1>8, <1>9, <1>10 DEF Next

-----------------------------------------------------------------------------
(* Together.                                                               *)

LEMMA LedgerInit == WholeRates /\ Init => LedgerReconciles
<1> SUFFICES ASSUME WholeRates, Init PROVE LedgerReconciles
  OBVIOUS
<1>1. TypeOK
  BY RowsInit DEF RowsInv
<1>2. \A a \in Accounts : Balance(a) = 0
  <2>1. {k \in Keys : Recorded(k)} = {}
    BY DEF Init, Recorded
  <2> QED BY <2>1, SumEmpty DEF Balance, SumOver
<1>3. ASSUME NEW side
      PROVE  /\ HeldTotal(side) = 0 /\ OpenBase(side) = 0
             /\ CreditsPosted(side) = 0 /\ CreditsApplied(side) = 0
  <2>1. PostedPayments(side) = {}
    BY KeysAreKeys DEF Init, PostedPayments, Recorded
  <2>2. OpenDocs(side) = {}
    BY DEF Init, OpenDocs, PostedStates
  <2>3. {c \in Credits : Side[c] = side /\ Recorded(PostKey(c))} = {}
    BY KeysAreKeys DEF Init, Recorded, Documents
  <2>4. {b \in LiveBatchesBy(Credits) : Side[batch[b].source] = side} = {}
    BY DEF Init, LiveBatchesBy, LiveBatches, Live
  <2> QED BY <2>1, <2>2, <2>3, <2>4, SumEmpty
          DEF HeldTotal, OpenBase, CreditsPosted, CreditsApplied, SumOver
<1>4. GainTotal = 0
  <2>1. LiveBatchesBy(Payments) = {}
    BY DEF Init, LiveBatchesBy, LiveBatches, Live
  <2> QED BY <2>1, SumEmpty DEF GainTotal, SumOver
<1>5. \A side \in Sides : Sign(side) = 1 \/ Sign(side) = -1
  BY SignsAreUnits
<1>6. AdvanceReconciles
  BY <1>2, <1>3, <1>5, AccountsNamed, AdvanceMeans
<1>7. ControlReconciles
  BY <1>2, <1>3, <1>5, AccountsNamed DEF ControlReconciles
<1>8. FxReconciles
  BY <1>2, <1>4, AccountsNamed DEF FxReconciles, GainTotal
<1> QED BY <1>6, <1>7, <1>8 DEF LedgerReconciles

\* At whole exchange rates the ledger always tells the story of the rows: the
\* advance accounts hold what is unapplied, the control accounts what is open
\* (less the credits not applied yet), and the exchange account the realised
\* differences of the live allocations, after any history of posting,
\* allocating, un-allocating and reversing.
THEOREM LedgerAlwaysReconciles ==
  ASSUME WholeRates
  PROVE  Spec => []LedgerReconciles
<1>1. Init => LedgerReconciles
  BY LedgerInit
<1> DEFINE Rows == RowsInv /\ JournalsInv /\ TotalsInv /\ ItemsInv /\ EntriesInv
<1>2. Rows /\ Rows' /\ LedgerReconciles /\ [Next]_vars => LedgerReconciles'
  BY AdvanceStep, ControlStep, FxStep DEF LedgerReconciles, RowsInv
<1>3. Spec => []Rows
  BY EntriesAlways
<1> HIDE DEF Rows
<1> QED BY <1>1, <1>2, <1>3, PTL DEF Spec
=============================================================================
