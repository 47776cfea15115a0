---------------------------- MODULE StripeProofs -----------------------------
(***************************************************************************)
(* Proofs about StripeCheckout, for any invoices, links and requests: the  *)
(* receipts first, payment by payment and request by request, then what it *)
(* promises as a whole: which links can be paid side by side, that no      *)
(* payment is forgotten, and that its steps are those of CardReceipts.     *)
(***************************************************************************)
EXTENDS StripeCheckout, Sums, TLAPS

Settles == {"fetched", "recorded", "posting", "refused"}

-----------------------------------------------------------------------------
(* What Stripe is asked to charge.                                         *)

LEMMA Division ==
  ASSUME NEW n \in Nat, NEW d \in Nat \ {0}
  PROVE  /\ n \div d \in Nat
         /\ d * (n \div d) <= n
         /\ n < d * (n \div d) + d
OBVIOUS

\* Rounding half up is off by half a unit at most, and never charges more units
\* than the books count.
LEMMA Rounds ==
  ASSUME NEW amount \in Money
  PROVE  /\ to_minor(amount) \in Nat
         /\ to_minor(amount) <= amount
         /\ Near(amount, to_minor(amount) * Minor)
<1> DEFINE q == to_minor(amount)
<1>1. amount \in Nat /\ Minor \in Nat /\ Minor > 0
  BY MinorAssumption DEF Money
<1>2. q \in Nat /\ (2 * Minor) * q <= 2 * amount + Minor
      /\ 2 * amount + Minor < (2 * Minor) * q + 2 * Minor
  <2>1. 2 * amount + Minor \in Nat /\ 2 * Minor \in Nat \ {0}
    BY <1>1
  <2>2. q = (2 * amount + Minor) \div (2 * Minor)
    BY DEF to_minor
  <2> QED BY ONLY <2>1, <2>2, Division
<1> HIDE DEF q
<1>3. q * Minor \in Nat /\ (2 * Minor) * q = 2 * (q * Minor)
  BY <1>1, <1>2
<1>4. q <= amount
  <2>1. ASSUME q >= amount + 1
        PROVE  FALSE
    <3>1. (q - 1 - amount) * Minor >= 0
      BY <1>1, <1>2, <2>1
    <3>2. q * Minor >= (amount + 1) * Minor
      BY <1>1, <1>2, <3>1
    <3>3. amount * Minor >= amount
      BY <1>1
    <3>4. (amount + 1) * Minor = amount * Minor + Minor
      BY <1>1
    <3> QED BY <1>1, <1>2, <1>3, <3>2, <3>3, <3>4
  <2> QED BY <1>1, <1>2, <2>1
<1>5. Near(amount, q * Minor)
  BY <1>1, <1>2, <1>3 DEF Near
<1> QED BY <1>2, <1>4, <1>5 DEF q

-----------------------------------------------------------------------------
(* What a request carries, by the place it is at.                          *)

LEMMA ChargingAt ==
  ASSUME StripeTypeOK, NEW w \in Workers, worker[w].at = "loaded"
  PROVE  worker[w].invoice \in Invoices /\ worker[w].open \in Money
BY DEF StripeTypeOK, Idle, Charging, Replacing, Settling

LEMMA ReplacingAt ==
  ASSUME StripeTypeOK, NEW w \in Workers, worker[w].at = "replacing"
  PROVE  /\ worker[w].invoice \in Invoices
         /\ worker[w].open \in Money
         /\ worker[w].existing \in Links \cup {NoLink}
BY DEF StripeTypeOK, Idle, Charging, Replacing, Settling

LEMMA SettlingAt ==
  ASSUME StripeTypeOK, NEW w \in Workers, worker[w].at \in Settles
  PROVE  worker[w] \in Settling
BY DEF StripeTypeOK, Idle, Charging, Replacing, Settling, Settles

LEMMA SettlingFields ==
  ASSUME NEW task \in Settling
  PROVE  /\ task.at \in Settles
         /\ task.link \in Links
         /\ task.event \in BOOLEAN
         /\ task.take \in Nat
BY DEF Settling, Settles

\* Moving on within a settlement keeps what is carried.
LEMMA MovedOn ==
  ASSUME NEW task \in Settling, NEW place \in Settles, NEW n \in Nat
  PROVE  /\ [task EXCEPT !.at = place] \in Settling
         /\ [task EXCEPT !.at = place, !.take = n] \in Settling
         /\ [task EXCEPT !.at = place].link = task.link
         /\ [task EXCEPT !.at = place, !.take = n].link = task.link
BY DEF Settling, Settles

LEMMA RowWith ==
  ASSUME StripeTypeOK, NEW l \in Links, HasRow(l), NEW status \in CheckoutStatuses,
         NEW refused \in BOOLEAN
  PROVE  /\ row[l] \in Checkout
         /\ [row[l] EXCEPT !.status = status] \in Checkout
         /\ [row[l] EXCEPT !.refused = refused] \in Checkout
         /\ [row[l] EXCEPT !.receipt = TRUE, !.refused = FALSE] \in Checkout
BY DEF StripeTypeOK, HasRow, Checkout

-----------------------------------------------------------------------------
(* The invariant.                                                          *)

\* A request that settles, or replaces, has a row to write to.
Linked ==
  \A w \in Workers :
    /\ worker[w].at \in Settles => HasRow(worker[w].link)
    /\ worker[w].at = "replacing" /\ worker[w].existing # NoLink
         => HasRow(worker[w].existing)

\* A row repeats what its session was created for; Stripe charges that, rounded.
SessionsKnown ==
  \A l \in Links : HasRow(l) =>
    /\ session[l] # NoSession
    /\ row[l].amount = session[l].asked
    /\ session[l].amount = to_minor(session[l].asked)
    /\ row[l].invoice = session[l].invoice

\* Nobody takes a session for paid before Stripe does.
PaidIsPaid ==
  /\ \A l \in Links : HasRow(l) /\ row[l].status = "PAID" => session[l].state = "paid"
  /\ \A w \in Workers :
       worker[w].at = "fetched" => session[worker[w].link].state = "paid"

\* Only a row that is paid, and stays so, has a receipt.
ReceiptsHangOnPaid ==
  \A l \in Links : HasRow(l) /\ row[l].receipt => row[l].status = "PAID"

\* A receipt is posted for a row without one, by one request at a time.
PostersHoldRows ==
  /\ \A w \in Workers : worker[w].at = "posting" =>
       row[worker[w].link].status = "PAID" /\ ~row[worker[w].link].receipt
  /\ \A v, w \in Workers :
       worker[v].at = "posting" /\ worker[w].at = "posting"
         /\ worker[v].link = worker[w].link => v = w

StripeInv ==
  /\ StripeTypeOK
  /\ Linked
  /\ SessionsKnown
  /\ PaidIsPaid
  /\ ReceiptsHangOnPaid
  /\ PostersHoldRows
  /\ OneReceiptPerSession

LEMMA StripeInit == Init => StripeInv
BY TotalAssumption
   DEF Init, StripeInv, StripeTypeOK, Linked, SessionsKnown, PaidIsPaid, ReceiptsHangOnPaid,
       PostersHoldRows, OneReceiptPerSession, HasRow, Idle, Settles

-----------------------------------------------------------------------------
(* Creating a link.                                                        *)

\* A request that changes only its own place keeps the invariant, when the new
\* place is no settling one.
LEMMA OnlyWorker ==
  ASSUME StripeInv, NEW w \in Workers, NEW task \in {Idle} \cup Charging \cup Replacing,
         Goto(w, task), UNCHANGED <<row, stripeVars, booksVars>>,
         task.at = "replacing" /\ task.existing # NoLink => HasRow(task.existing)
  PROVE  StripeInv'
<1>1. task.at \notin Settles
  BY DEF Idle, Charging, Replacing, Settles
<1>2. StripeTypeOK'
  BY DEF StripeInv, StripeTypeOK, Goto, stripeVars, booksVars
<1>3. \A v \in Workers : worker'[v] = IF v = w THEN task ELSE worker[v]
  BY DEF StripeInv, StripeTypeOK, Goto
<1>4. Linked'
  BY <1>1, <1>3 DEF StripeInv, Linked, HasRow
<1>5. SessionsKnown' /\ PaidIsPaid' /\ ReceiptsHangOnPaid' /\ OneReceiptPerSession'
  BY <1>1, <1>3 DEF StripeInv, SessionsKnown, PaidIsPaid, ReceiptsHangOnPaid,
     OneReceiptPerSession, HasRow, stripeVars, booksVars, Settles
<1>6. PostersHoldRows'
  BY <1>1, <1>3 DEF StripeInv, PostersHoldRows, Settles
<1> QED BY <1>2, <1>4, <1>5, <1>6 DEF StripeInv

LEMMA LoadInvoiceKeeps ==
  ASSUME StripeInv, NEW w \in Workers, NEW i \in Invoices, LoadInvoice(w, i)
  PROVE  StripeInv'
<1>1. PICK open \in 1 .. Total[i] : Goto(w, [at |-> "loaded", invoice |-> i, open |-> open])
  BY DEF LoadInvoice
<1>2. [at |-> "loaded", invoice |-> i, open |-> open] \in Charging
  BY TotalAssumption DEF Charging, Money
<1> QED BY <1>1, <1>2, OnlyWorker DEF LoadInvoice

LEMMA FindLiveLinkKeeps ==
  ASSUME StripeInv, NEW w \in Workers, FindLiveLink(w)
  PROVE  StripeInv'
<1> DEFINE live == LiveLinks(worker[w].invoice)
           next(existing) == [at |-> "replacing", invoice |-> worker[w].invoice,
                              open |-> worker[w].open, existing |-> existing]
<1>1. PICK existing \in (IF live = {} THEN {NoLink} ELSE live) :
        Goto(w, IF existing # NoLink /\ row[existing].amount = worker[w].open
                THEN Idle ELSE next(existing))
  BY DEF FindLiveLink
<1>2. worker[w].invoice \in Invoices /\ worker[w].open \in Money
  BY ChargingAt DEF StripeInv, FindLiveLink
<1>3. existing = NoLink \/ (existing \in Links /\ HasRow(existing))
  BY <1>1 DEF LiveLinks, LinksOf
<1>4. next(existing) \in Replacing
  BY <1>2, <1>3 DEF Replacing
<1>5. UNCHANGED <<row, stripeVars, booksVars>>
  BY DEF FindLiveLink
<1>6. CASE existing # NoLink /\ row[existing].amount = worker[w].open
  BY <1>1, <1>5, <1>6, OnlyWorker DEF Idle
<1>7. CASE ~(existing # NoLink /\ row[existing].amount = worker[w].open)
  BY <1>1, <1>3, <1>4, <1>5, <1>7, OnlyWorker
<1> QED BY <1>6, <1>7

LEMMA CrashKeeps ==
  ASSUME StripeInv, NEW w \in Workers, Crash(w)
  PROVE  StripeInv'
BY OnlyWorker DEF Crash, Idle

LEMMA CreateLinkKeeps ==
  ASSUME StripeInv, NEW w \in Workers, NEW l \in Links, CreateLink(w, l)
  PROVE  StripeInv'
<1> DEFINE old == worker[w].existing
           i == worker[w].invoice
           open == worker[w].open
           new == [invoice |-> i, amount |-> open, status |-> "PENDING",
                   receipt |-> FALSE, refused |-> FALSE]
           opened == [invoice |-> i, asked |-> open, amount |-> to_minor(open),
                      state |-> "open", lapsed |-> FALSE]
<1>1. i \in Invoices /\ open \in Money /\ old \in Links \cup {NoLink}
  BY ReplacingAt DEF CreateLink, StripeInv
<1>2. old # NoLink => HasRow(old) /\ ~Locked(old) /\ ~row[old].receipt
  BY DEF CreateLink, StripeInv, Linked, Replaceable
<1>3. ~HasRow(l) /\ old # l
  BY <1>2, NullLinkAssumption DEF CreateLink, StripeCreates, StripeInv, SessionsKnown
<1>4. /\ new \in Checkout /\ new # NoRow
      /\ opened \in Session /\ opened # NoSession
  <2>1. new \in Checkout
    BY <1>1 DEF Checkout, CheckoutStatuses
  <2>2. opened \in Session
    BY <1>1, Rounds DEF Session, SessionStates
  <2>3. opened # NoSession
    <3>1. opened.state = "open" /\ NoSession.state = "none"
      BY DEF NoSession
    <3> QED BY <3>1
  <2> QED BY <2>1, <2>2, <2>3, NoRowAssumption
<1>5. \A m \in Links : row'[m] = IF m = l THEN new
        ELSE IF m = old THEN [row[m] EXCEPT !.status = "EXPIRED"] ELSE row[m]
  BY <1>1, NullLinkAssumption DEF CreateLink, Replaced, StripeInv, StripeTypeOK
<1>6. \A m \in Links : session'[m] = IF m = l THEN opened ELSE session[m]
  BY DEF CreateLink, StripeCreates, StripeInv, StripeTypeOK
<1>7. \A v \in Workers : worker'[v] = IF v = w THEN Idle ELSE worker[v]
  BY DEF CreateLink, Goto, StripeInv, StripeTypeOK
<1>8. old # NoLink => /\ row[old] \in Checkout
                      /\ [row[old] EXCEPT !.status = "EXPIRED"] \in Checkout
  BY <1>1, <1>2, RowWith DEF StripeInv, CheckoutStatuses
<1>9. StripeTypeOK'
  <2>1. row' \in [Links -> Checkout \cup {NoRow}]
    BY <1>1, <1>4, <1>8, NullLinkAssumption DEF CreateLink, Replaced, StripeInv, StripeTypeOK
  <2>2. session' \in [Links -> Session \cup {NoSession}]
    BY <1>4 DEF CreateLink, StripeCreates, StripeInv, StripeTypeOK
  <2>3. keys' \subseteq Invoices \X Money
    BY <1>1 DEF CreateLink, StripeCreates, IdempotencyKey, StripeInv, StripeTypeOK
  <2>4. worker' \in [Workers -> {Idle} \cup Charging \cup Replacing \cup Settling]
    BY DEF CreateLink, Goto, StripeInv, StripeTypeOK
  <2> QED BY <2>1, <2>2, <2>3, <2>4
          DEF CreateLink, StripeCreates, booksVars, StripeInv, StripeTypeOK
<1>10. \A m \in Links : HasRow(m) =>
         /\ m # l /\ row'[m] # NoRow /\ session'[m] = session[m]
         /\ row'[m].amount = row[m].amount /\ row'[m].invoice = row[m].invoice
         /\ row'[m].receipt = row[m].receipt
  <2> SUFFICES ASSUME NEW m \in Links, HasRow(m)
               PROVE  /\ m # l /\ row'[m] # NoRow /\ session'[m] = session[m]
                      /\ row'[m].amount = row[m].amount /\ row'[m].invoice = row[m].invoice
                      /\ row'[m].receipt = row[m].receipt
    OBVIOUS
  <2>1. m # l /\ session'[m] = session[m]
    BY <1>3, <1>6
  <2>2. CASE m = old
    <3>1. row'[m] = [row[m] EXCEPT !.status = "EXPIRED"] /\ row[m] \in Checkout
          /\ row'[m] \in Checkout
      BY <2>1, <2>2, <1>5, <1>8, NullLinkAssumption
    <3> QED BY <2>1, <3>1, NoRowAssumption DEF Checkout
  <2>3. CASE m # old
    BY <2>1, <2>3, <1>5 DEF HasRow
  <2> QED BY <2>2, <2>3
<1>11. \A m \in Links : m # l /\ row'[m] # NoRow => HasRow(m)
  BY <1>2, <1>5, NullLinkAssumption DEF HasRow
<1>20. /\ row'[l].status = "PENDING" /\ row'[l].receipt = FALSE
       /\ row'[l].amount = open /\ row'[l].invoice = i
       /\ session'[l].asked = open /\ session'[l].amount = to_minor(open)
       /\ session'[l].invoice = i /\ session'[l] # NoSession
  <2>1. row'[l] = new /\ session'[l] = opened
    BY <1>5, <1>6
  <2> QED BY <2>1, <1>4
<1>12. Linked'
  <2>1. \A m \in Links : HasRow(m) => row'[m] # NoRow
    BY <1>10
  <2> SUFFICES ASSUME NEW v \in Workers, v # w
               PROVE  /\ worker[v].at \in Settles => row'[worker[v].link] # NoRow
                      /\ worker[v].at = "replacing" /\ worker[v].existing # NoLink
                           => row'[worker[v].existing] # NoRow
    BY <1>7 DEF Linked, Idle, Settles, HasRow
  <2>2. CASE worker[v].at \in Settles
    BY <2>1, <2>2, SettlingAt, SettlingFields DEF StripeInv, Linked, Settles
  <2>3. CASE worker[v].at = "replacing" /\ worker[v].existing # NoLink
    BY <2>1, <2>3, ReplacingAt DEF StripeInv, Linked, Settles
  <2> QED BY <2>2, <2>3
<1>13. SessionsKnown'
  <2> SUFFICES ASSUME NEW m \in Links, row'[m] # NoRow
               PROVE  /\ session'[m] # NoSession
                      /\ row'[m].amount = session'[m].asked
                      /\ session'[m].amount = to_minor(session'[m].asked)
                      /\ row'[m].invoice = session'[m].invoice
    BY DEF SessionsKnown, HasRow
  <2>1. CASE m = l
    BY <2>1, <1>20
  <2>2. CASE m # l
    BY <2>2, <1>10, <1>11 DEF StripeInv, SessionsKnown
  <2> QED BY <2>1, <2>2
<1>14. \A m \in Links : m # l => session'[m] = session[m]
  BY <1>6
<1>15. \A v \in Workers : worker[v].at \in Settles =>
         worker[v].link \in Links /\ HasRow(worker[v].link)
  BY SettlingAt, SettlingFields DEF StripeInv, Linked
<1>16. PaidIsPaid'
  <2>1. ASSUME NEW m \in Links, row'[m] # NoRow, row'[m].status = "PAID"
        PROVE  HasRow(m) /\ row[m].status = "PAID" /\ m # l
    <3>1. m # l
      BY <2>1, <1>20
    <3>2. HasRow(m)
      BY <2>1, <3>1, <1>11
    <3>3. m # old
      BY <2>1, <3>1, <1>5, <1>8, NullLinkAssumption DEF Checkout
    <3> QED BY <2>1, <3>1, <3>2, <3>3, <1>5
  <2> QED BY <2>1, <1>7, <1>14, <1>15, <1>3 DEF StripeInv, PaidIsPaid, Idle, Settles, HasRow
<1>17. ReceiptsHangOnPaid'
  <2> SUFFICES ASSUME NEW m \in Links, row'[m] # NoRow, row'[m].receipt
               PROVE  row'[m].status = "PAID"
    BY DEF ReceiptsHangOnPaid, HasRow
  <2>1. m # l
    BY <1>20
  <2>2. HasRow(m) /\ row[m].receipt
    BY <2>1, <1>10, <1>11
  <2>3. m # old
    BY <2>2, <1>2, NullLinkAssumption
  <2> QED BY <2>1, <2>2, <2>3, <1>5 DEF StripeInv, ReceiptsHangOnPaid
<1>18. PostersHoldRows'
  <2>1. ASSUME NEW v \in Workers, worker[v].at = "posting"
        PROVE  worker[v].link \in Links /\ worker[v].link # l /\ worker[v].link # old
    BY <2>1, <1>2, <1>3, <1>15, NullLinkAssumption DEF Locked, Settles
  <2>2. ASSUME NEW v \in Workers, worker'[v].at = "posting"
        PROVE  worker'[v] = worker[v]
    BY <2>2, <1>7 DEF Idle
  <2>3. \A v \in Workers : worker[v].at = "posting" =>
          row'[worker[v].link] = row[worker[v].link]
    BY <2>1, <1>5
  <2> QED BY <2>2, <2>3 DEF StripeInv, PostersHoldRows
<1>19. OneReceiptPerSession'
  <2> SUFFICES ASSUME NEW m \in Links
               PROVE  /\ receipts[m] <= 1
                      /\ receipts[m] = 1 <=> row'[m] # NoRow /\ row'[m].receipt
    BY DEF OneReceiptPerSession, CreateLink, booksVars, HasRow
  <2>1. CASE m = l
    <3>1. receipts[m] \in Nat /\ receipts[m] <= 1 /\ receipts[m] # 1
      BY <2>1, <1>3 DEF StripeInv, OneReceiptPerSession, StripeTypeOK
    <3> QED BY <2>1, <3>1, <1>20
  <2>2. CASE m # l
    BY <2>2, <1>10, <1>11 DEF StripeInv, OneReceiptPerSession
  <2> QED BY <2>1, <2>2
<1> QED BY <1>9, <1>12, <1>13, <1>16, <1>17, <1>18, <1>19 DEF StripeInv

-----------------------------------------------------------------------------
(* Steps that leave the rows alone.                                        *)

\* Stripe moves on, an event comes or is answered, the books change elsewhere,
\* or requests end: as long as what was paid stays paid.
LEMMA RowsRest ==
  ASSUME StripeInv,
         UNCHANGED <<row, receipts>>,
         session' \in [Links -> Session \cup {NoSession}],
         keys' \subseteq Invoices \X Money,
         event' \in [Links -> SUBSET Events],
         applied' \in [Links -> Nat],
         elsewhere' \in [Invoices -> Nat],
         worker' \in [Workers -> {Idle} \cup Charging \cup Replacing \cup Settling],
         \A v \in Workers : worker'[v] = worker[v] \/ worker'[v] = Idle,
         \A l \in Links : session[l].state = "paid" => session'[l].state = "paid",
         \A l \in Links : HasRow(l) =>
           /\ session'[l] # NoSession
           /\ session'[l].asked = session[l].asked
           /\ session'[l].amount = session[l].amount
           /\ session'[l].invoice = session[l].invoice
  PROVE  StripeInv'
<1>1. StripeTypeOK'
  BY DEF StripeInv, StripeTypeOK
<1>2. \A v \in Workers : worker'[v].at # "idle" => worker'[v] = worker[v]
  BY DEF Idle
<1>3. \A v \in Workers : worker[v].at = "fetched" => worker[v].link \in Links
  BY SettlingAt, SettlingFields DEF StripeInv, Settles
<1>4. Linked'
  BY <1>2 DEF StripeInv, Linked, HasRow, Settles
<1>5. SessionsKnown'
  BY DEF StripeInv, SessionsKnown, HasRow
<1>6. PaidIsPaid'
  BY <1>2, <1>3 DEF StripeInv, PaidIsPaid, HasRow
<1>7. ReceiptsHangOnPaid' /\ OneReceiptPerSession'
  BY DEF StripeInv, ReceiptsHangOnPaid, OneReceiptPerSession, HasRow
<1>8. PostersHoldRows'
  BY <1>2 DEF StripeInv, PostersHoldRows
<1> QED BY <1>1, <1>4, <1>5, <1>6, <1>7, <1>8 DEF StripeInv

\* A session comes to be that no row knows of.
LEMMA NewSession ==
  ASSUME StripeInv, NEW w \in Workers, NEW l \in Links, worker[w].at = "replacing",
         StripeCreates(l, worker[w].invoice, worker[w].open)
  PROVE  /\ ~HasRow(l)
         /\ session' \in [Links -> Session \cup {NoSession}]
         /\ \A m \in Links : m # l => session'[m] = session[m]
         /\ session[l].state # "paid"
         /\ keys' \subseteq Invoices \X Money
         /\ event' = event
<1>1. worker[w].invoice \in Invoices /\ worker[w].open \in Money
  BY ReplacingAt DEF StripeInv
<1>2. ~HasRow(l) /\ session[l].state # "paid"
  BY DEF StripeCreates, StripeInv, SessionsKnown, NoSession
<1>3. [invoice |-> worker[w].invoice, asked |-> worker[w].open,
       amount |-> to_minor(worker[w].open),
       state |-> "open", lapsed |-> FALSE] \in Session
  BY <1>1, Rounds DEF Session, SessionStates
<1> QED BY <1>1, <1>2, <1>3 DEF StripeCreates, IdempotencyKey, StripeInv, StripeTypeOK

LEMMA LoseLinkKeeps ==
  ASSUME StripeInv, NEW w \in Workers, NEW l \in Links, LoseLink(w, l)
  PROVE  StripeInv'
<1>1. \A v \in Workers : worker'[v] = worker[v] \/ worker'[v] = Idle
  BY DEF LoseLink, Goto, StripeInv, StripeTypeOK
<1>2. worker' \in [Workers -> {Idle} \cup Charging \cup Replacing \cup Settling]
  BY DEF LoseLink, Goto, StripeInv, StripeTypeOK
<1>3. \A m \in Links : session[m].state = "paid" => session'[m].state = "paid"
  BY NewSession DEF LoseLink
<1>4. \A m \in Links : HasRow(m) => session'[m] = session[m]
  BY NewSession DEF LoseLink
<1> QED BY <1>1, <1>2, <1>3, <1>4, NewSession, RowsRest
        DEF LoseLink, booksVars, StripeInv, SessionsKnown, StripeTypeOK

\* A request ends, with or without an answer to its event.
LEMMA EndedIdle ==
  ASSUME StripeInv, NEW w \in Workers, worker[w].at \in Settles, End(w)
  PROVE  /\ worker' \in [Workers -> {Idle} \cup Charging \cup Replacing \cup Settling]
         /\ \A v \in Workers : worker'[v] = IF v = w THEN Idle ELSE worker[v]
         /\ event' \in [Links -> SUBSET Events]
         /\ session' = session /\ keys' = keys
<1>1. worker[w].link \in Links
  BY SettlingAt, SettlingFields DEF StripeInv
<1>2. event' \in [Links -> SUBSET Events]
  BY <1>1 DEF End, Answered, StripeInv, StripeTypeOK
<1> QED BY <1>2 DEF End, Goto, StripeInv, StripeTypeOK

LEMMA EndKeeps ==
  ASSUME StripeInv, NEW w \in Workers, worker[w].at \in Settles, End(w),
         UNCHANGED <<row, booksVars>>
  PROVE  StripeInv'
BY EndedIdle, RowsRest DEF booksVars, StripeInv, StripeTypeOK, SessionsKnown

\* A request moves on in a settlement; only to post it needs the row for itself.
LEMMA SettlerMoves ==
  ASSUME StripeInv, NEW w \in Workers, NEW task \in Settling, Goto(w, task),
         UNCHANGED <<row, stripeVars, booksVars>>,
         HasRow(task.link),
         task.at = "fetched" => session[task.link].state = "paid",
         task.at = "posting" => /\ Outstanding(task.link)
                                /\ \A v \in Workers : v # w /\ worker[v].at = "posting"
                                     => worker[v].link # task.link
  PROVE  StripeInv'
<1>1. StripeTypeOK'
  BY DEF StripeInv, StripeTypeOK, Goto, stripeVars, booksVars
<1>2. \A v \in Workers : worker'[v] = IF v = w THEN task ELSE worker[v]
  BY DEF StripeInv, StripeTypeOK, Goto
<1>3. task.at # "replacing"
  BY SettlingFields DEF Settles
<1>4. Linked'
  BY <1>2, <1>3 DEF StripeInv, Linked, HasRow
<1>5. SessionsKnown' /\ ReceiptsHangOnPaid' /\ OneReceiptPerSession'
  BY DEF StripeInv, SessionsKnown, ReceiptsHangOnPaid, OneReceiptPerSession, HasRow,
         stripeVars, booksVars
<1>6. PaidIsPaid'
  BY <1>2 DEF StripeInv, PaidIsPaid, HasRow, stripeVars
<1>7. PostersHoldRows'
  BY <1>2 DEF StripeInv, PostersHoldRows, Outstanding
<1> QED BY <1>1, <1>4, <1>5, <1>6, <1>7 DEF StripeInv

LEMMA FetchSettlementKeeps ==
  ASSUME StripeInv, NEW w \in Workers, NEW l \in Links, FetchSettlement(w, l)
  PROVE  StripeInv'
<1>1. CASE NothingToSettle(l) \/ session[l].state # "paid"
  <2>1. event' \in [Links -> SUBSET Events]
    BY <1>1 DEF FetchSettlement, Answered, StripeInv, StripeTypeOK
  <2> QED BY <1>1, <2>1, RowsRest
          DEF FetchSettlement, booksVars, StripeInv, StripeTypeOK, SessionsKnown
<1>2. CASE ~(NothingToSettle(l) \/ session[l].state # "paid")
  <2> DEFINE task == [at |-> "fetched", link |-> l, event |-> TRUE, take |-> 0]
  <2>1. task \in Settling
    BY DEF Settling
  <2>2. Goto(w, task) /\ UNCHANGED <<row, stripeVars, booksVars>>
    BY <1>2 DEF FetchSettlement, stripeVars
  <2> QED BY <1>2, <2>1, <2>2, SettlerMoves DEF NothingToSettle
<1> QED BY <1>1, <1>2

LEMMA RetryPostingKeeps ==
  ASSUME StripeInv, NEW w \in Workers, NEW l \in Links, RetryPosting(w, l)
  PROVE  StripeInv'
<1> DEFINE task == [at |-> "recorded", link |-> l, event |-> FALSE, take |-> 0]
<1>1. task \in Settling
  BY DEF Settling
<1> QED BY <1>1, SettlerMoves DEF RetryPosting

LEMMA PostReceiptKeeps ==
  ASSUME StripeInv, NEW w \in Workers, PostReceipt(w)
  PROVE  StripeInv'
<1> DEFINE l == worker[w].link
<1>1. worker[w] \in Settling /\ l \in Links /\ HasRow(l)
  BY SettlingAt, SettlingFields DEF PostReceipt, StripeInv, Linked, Settles
<1>2. CASE ~Outstanding(l)
  BY <1>2, EndKeeps DEF PostReceipt, Settles
<1>3. ASSUME NEW take \in 0 .. row[l].amount,
             worker' = [worker EXCEPT ![w].at = "posting", ![w].take = take],
             Outstanding(l), UNCHANGED stripeVars
      PROVE  StripeInv'
  <2> DEFINE task == [worker[w] EXCEPT !.at = "posting", !.take = take]
  <2>1. take \in Nat
    <3>1. row[l] \in Checkout
      BY <1>1 DEF StripeInv, StripeTypeOK, HasRow
    <3>2. row[l].amount \in Nat
      BY <3>1 DEF Checkout, Money
    <3> QED BY <1>3, <3>2
  <2>2. task \in Settling /\ task.link = l /\ task.at = "posting"
    BY <1>1, <2>1, MovedOn DEF Settles, Settling
  <2>3. Goto(w, task)
    BY <1>3 DEF Goto, StripeInv, StripeTypeOK
  <2> QED BY <1>1, <1>3, <2>2, <2>3, SettlerMoves DEF PostReceipt, Locked
<1>4. ASSUME Step(w, "refused"), UNCHANGED stripeVars
      PROVE  StripeInv'
  <2> DEFINE task == [worker[w] EXCEPT !.at = "refused"]
  <2>1. task \in Settling /\ task.link = l /\ task.at = "refused"
    BY <1>1, MovedOn DEF Settles, Settling
  <2>2. Goto(w, task)
    BY <1>4 DEF Goto, Step, StripeInv, StripeTypeOK
  <2> QED BY <1>1, <1>4, <2>1, <2>2, SettlerMoves DEF PostReceipt
<1> QED BY <1>2, <1>3, <1>4 DEF PostReceipt

LEMMA RefuseAllocationKeeps ==
  ASSUME StripeInv, NEW w \in Workers, RefuseAllocation(w)
  PROVE  StripeInv'
<1> DEFINE task == [worker[w] EXCEPT !.at = "refused"]
<1>1. worker[w] \in Settling /\ HasRow(worker[w].link)
  BY SettlingAt DEF RefuseAllocation, StripeInv, Linked, Settles
<1>2. task \in Settling /\ task.link = worker[w].link /\ task.at = "refused"
  BY <1>1, MovedOn DEF Settles, Settling
<1>3. Goto(w, task)
  BY DEF RefuseAllocation, Goto, Step, StripeInv, StripeTypeOK
<1> QED BY <1>1, <1>2, <1>3, SettlerMoves DEF RefuseAllocation

-----------------------------------------------------------------------------
(* Steps that write a row.                                                 *)

\* A row is written by somebody who has it, or finds nobody else has it, and
\* the count of its receipts with it.
LEMMA RowMoves ==
  ASSUME StripeInv, NEW w \in Workers, NEW l \in Links, HasRow(l),
         NEW new \in Checkout, row' = [row EXCEPT ![l] = new],
         new.amount = row[l].amount, new.invoice = row[l].invoice,
         new.status = "PAID" => session[l].state = "paid",
         new.receipt => new.status = "PAID",
         NEW n \in Nat, receipts' = [receipts EXCEPT ![l] = n],
         n <= 1, n = 1 <=> new.receipt,
         NEW task \in {Idle} \cup Settling, worker' = [worker EXCEPT ![w] = task],
         task.at \notin {"fetched", "posting"},
         task.at \in Settles => task.link = l,
         \A v \in Workers : v # w /\ worker[v].at = "posting" => worker[v].link # l,
         UNCHANGED <<session, keys, elsewhere>>,
         event' \in [Links -> SUBSET Events],
         applied' \in [Links -> Nat]
  PROVE  StripeInv'
<1>1. \A m \in Links : row'[m] = IF m = l THEN new ELSE row[m]
  BY DEF StripeInv, StripeTypeOK
<1>2. \A m \in Links : receipts'[m] = IF m = l THEN n ELSE receipts[m]
  BY DEF StripeInv, StripeTypeOK
<1>3. \A v \in Workers : worker'[v] = IF v = w THEN task ELSE worker[v]
  BY DEF StripeInv, StripeTypeOK
<1>4. \A m \in Links : row'[m] # NoRow <=> HasRow(m)
  BY <1>1, NoRowAssumption DEF HasRow
<1>5. StripeTypeOK'
  BY DEF StripeInv, StripeTypeOK
<1>6. task.at # "replacing"
  BY DEF Settling, Idle
<1>7. Linked'
  <2> SUFFICES ASSUME NEW v \in Workers
               PROVE  /\ worker'[v].at \in Settles => row'[worker'[v].link] # NoRow
                      /\ worker'[v].at = "replacing" /\ worker'[v].existing # NoLink
                           => row'[worker'[v].existing] # NoRow
    BY DEF Linked, HasRow
  <2>1. CASE v = w
    BY <2>1, <1>3, <1>4, <1>6
  <2>2. CASE v # w
    <3>1. worker'[v] = worker[v]
      BY <2>2, <1>3
    <3>2. worker[v].at \in Settles => worker[v].link \in Links /\ HasRow(worker[v].link)
      BY SettlingAt, SettlingFields DEF StripeInv, Linked
    <3>3. worker[v].at = "replacing" /\ worker[v].existing # NoLink
            => worker[v].existing \in Links /\ HasRow(worker[v].existing)
      BY ReplacingAt DEF StripeInv, Linked
    <3> QED BY <3>1, <3>2, <3>3, <1>4
  <2> QED BY <2>1, <2>2
<1>8. SessionsKnown'
  BY <1>1, <1>4 DEF StripeInv, SessionsKnown, HasRow
<1>9. PaidIsPaid'
  BY <1>1, <1>3, <1>4 DEF StripeInv, PaidIsPaid, HasRow
<1>10. ReceiptsHangOnPaid'
  BY <1>1, <1>4 DEF StripeInv, ReceiptsHangOnPaid, HasRow
<1>11. OneReceiptPerSession'
  <2> SUFFICES ASSUME NEW m \in Links
               PROVE  /\ receipts'[m] <= 1
                      /\ receipts'[m] = 1 <=> row'[m] # NoRow /\ row'[m].receipt
    BY DEF OneReceiptPerSession, HasRow
  <2>1. CASE m = l
    BY <2>1, <1>1, <1>2, <1>4
  <2>2. CASE m # l
    BY <2>2, <1>1, <1>2, <1>4 DEF StripeInv, OneReceiptPerSession
  <2> QED BY <2>1, <2>2
<1>12. PostersHoldRows'
  <2>1. ASSUME NEW v \in Workers, worker'[v].at = "posting"
        PROVE  v # w /\ worker'[v] = worker[v] /\ worker[v].link # l
               /\ worker[v].link \in Links
    <3>1. v # w /\ worker'[v] = worker[v]
      BY <2>1, <1>3
    <3> QED BY <2>1, <3>1, SettlingAt, SettlingFields DEF StripeInv, Settles
  <2>2. \A v \in Workers : worker'[v].at = "posting" =>
          row'[worker[v].link] = row[worker[v].link]
    BY <2>1, <1>1
  <2> QED BY <2>1, <2>2 DEF StripeInv, PostersHoldRows
<1> QED BY <1>5, <1>7, <1>8, <1>9, <1>10, <1>11, <1>12 DEF StripeInv

\* What a row with or without a receipt counts.
LEMMA Counted ==
  ASSUME StripeInv, NEW l \in Links, HasRow(l)
  PROVE  /\ receipts[l] \in Nat
         /\ receipts[l] <= 1
         /\ receipts[l] = 1 <=> row[l].receipt
         /\ receipts = [receipts EXCEPT ![l] = receipts[l]]
         /\ row[l] \in Checkout
BY DEF StripeInv, StripeTypeOK, OneReceiptPerSession, HasRow

LEMMA RecordPaidKeeps ==
  ASSUME StripeInv, NEW w \in Workers, RecordPaid(w)
  PROVE  StripeInv'
<1> DEFINE l == worker[w].link
           task == [worker[w] EXCEPT !.at = "recorded"]
           new == [row[l] EXCEPT !.status = "PAID"]
<1>1. worker[w] \in Settling /\ l \in Links /\ HasRow(l)
  BY SettlingAt, SettlingFields DEF RecordPaid, StripeInv, Linked, Settles
<1>2. CASE row[l].receipt
  BY <1>2, EndKeeps DEF RecordPaid, Settles
<1>3. CASE ~row[l].receipt
  <2>1. task \in Settling /\ task.link = l /\ task.at = "recorded"
    BY <1>1, MovedOn DEF Settles, Settling
  <2>2. worker' = [worker EXCEPT ![w] = task]
    BY <1>3 DEF RecordPaid, Step, StripeInv, StripeTypeOK
  <2>3. row' = [row EXCEPT ![l] = new] /\ UNCHANGED <<stripeVars, booksVars>>
    BY <1>1, <1>3 DEF RecordPaid, StripeInv, StripeTypeOK
  <2>4. new \in Checkout
    BY <1>1, RowWith DEF StripeInv, CheckoutStatuses
  <2>5. /\ new.amount = row[l].amount /\ new.invoice = row[l].invoice
        /\ new.receipt = row[l].receipt /\ new.status = "PAID"
    BY <1>1, Counted DEF Checkout
  <2>6. session[l].state = "paid"
    BY DEF RecordPaid, StripeInv, PaidIsPaid
  <2>7. \A v \in Workers : worker[v].at = "posting" => worker[v].link # l
    BY DEF RecordPaid, Locked
  <2>8. PICK n \in Nat : /\ n <= 1 /\ (n = 1 <=> new.receipt)
                       /\ receipts' = [receipts EXCEPT ![l] = n]
    BY <1>1, <2>3, <2>5, Counted DEF booksVars
  <2>9. /\ UNCHANGED <<session, keys, elsewhere>>
        /\ event' \in [Links -> SUBSET Events] /\ applied' \in [Links -> Nat]
    BY <2>3 DEF stripeVars, booksVars, StripeInv, StripeTypeOK
  <2>10. /\ task \in {Idle} \cup Settling /\ task.at \notin {"fetched", "posting"}
         /\ task.at \in Settles => task.link = l
    BY <2>1
  <2>11. /\ new.status = "PAID" => session[l].state = "paid"
         /\ new.receipt => new.status = "PAID"
    BY <2>5, <2>6
  <2>12. new.amount = row[l].amount /\ new.invoice = row[l].invoice
    BY <2>5
  <2>13. HasRow(l) /\ l \in Links
    BY <1>1
  <2>14. row' = [row EXCEPT ![l] = new]
    BY <2>3
  <2> HIDE DEF l, task, new
  <2> QED BY <2>2, <2>4, <2>7, <2>8, <2>9, <2>10, <2>11, <2>12, <2>13, <2>14, RowMoves
<1> QED BY <1>2, <1>3

LEMMA CommitReceiptKeeps ==
  ASSUME StripeInv, NEW w \in Workers, CommitReceipt(w)
  PROVE  StripeInv'
<1> DEFINE l == worker[w].link
           new == [row[l] EXCEPT !.receipt = TRUE, !.refused = FALSE]
<1>1. worker[w] \in Settling /\ l \in Links /\ HasRow(l) /\ worker[w].take \in Nat
  BY SettlingAt, SettlingFields DEF CommitReceipt, StripeInv, Linked, Settles
<1>2. row[l].status = "PAID" /\ ~row[l].receipt
  BY DEF CommitReceipt, StripeInv, PostersHoldRows
<1>3. receipts[l] = 0
  BY <1>1, <1>2, Counted
<1>4. new \in Checkout
  BY <1>1, RowWith DEF StripeInv, CheckoutStatuses
<1>5. /\ new.amount = row[l].amount /\ new.invoice = row[l].invoice
      /\ new.receipt = TRUE /\ new.status = "PAID"
  BY <1>1, <1>2, Counted DEF Checkout
<1>6. row' = [row EXCEPT ![l] = new]
  BY <1>1 DEF CommitReceipt, StripeInv, StripeTypeOK
<1>7. receipts' = [receipts EXCEPT ![l] = 1]
  BY <1>1, <1>3 DEF CommitReceipt, StripeInv, StripeTypeOK
<1>8. session[l].state = "paid"
  BY <1>1, <1>2 DEF StripeInv, PaidIsPaid
<1>9. \A v \in Workers : v # w /\ worker[v].at = "posting" => worker[v].link # l
  BY DEF CommitReceipt, StripeInv, PostersHoldRows
<1>10. worker' = [worker EXCEPT ![w] = Idle]
  BY DEF CommitReceipt, End, Goto
<1>11. /\ event' \in [Links -> SUBSET Events] /\ UNCHANGED <<session, keys, elsewhere>>
       /\ applied' \in [Links -> Nat]
  BY <1>1, EndedIdle DEF CommitReceipt, Settles, StripeInv, StripeTypeOK
<1>12. Idle.at \notin Settles /\ Idle.at \notin {"fetched", "posting"}
  BY DEF Idle, Settles
<1>13. 1 \in Nat /\ 1 <= 1
  OBVIOUS
<1> HIDE DEF l, new
<1> QED BY <1>1, <1>4, <1>5, <1>6, <1>7, <1>8, <1>9, <1>10, <1>11, <1>12, <1>13, RowMoves

LEMMA WriteReasonKeeps ==
  ASSUME StripeInv, NEW w \in Workers, WriteReason(w)
  PROVE  StripeInv'
<1> DEFINE l == worker[w].link
           new == [row[l] EXCEPT !.refused = TRUE]
           task == Idle
<1>1. worker[w] \in Settling /\ l \in Links /\ HasRow(l)
  BY SettlingAt, SettlingFields DEF WriteReason, StripeInv, Linked, Settles
<1>2. new \in Checkout
  BY <1>1, RowWith DEF StripeInv, CheckoutStatuses
<1>3. /\ new.amount = row[l].amount /\ new.invoice = row[l].invoice
      /\ new.receipt = row[l].receipt /\ new.status = row[l].status
  BY <1>1, Counted DEF Checkout
<1>4. row' = [row EXCEPT ![l] = new]
  BY <1>1 DEF WriteReason, StripeInv, StripeTypeOK
<1>5. PICK n \in Nat : /\ n <= 1 /\ (n = 1 <=> new.receipt)
                     /\ receipts' = [receipts EXCEPT ![l] = n]
  BY <1>1, <1>3, Counted DEF WriteReason, booksVars
<1>6. new.status = "PAID" => session[l].state = "paid"
  BY <1>1, <1>3 DEF StripeInv, PaidIsPaid
<1>7. new.receipt => new.status = "PAID"
  BY <1>1, <1>3 DEF StripeInv, ReceiptsHangOnPaid
<1>8. \A v \in Workers : worker[v].at = "posting" => worker[v].link # l
  BY DEF WriteReason, Locked
<1>9. worker' = [worker EXCEPT ![w] = task]
  BY DEF WriteReason, End, Goto
<1>10. /\ event' \in [Links -> SUBSET Events] /\ UNCHANGED <<session, keys, elsewhere>>
       /\ applied' \in [Links -> Nat]
  BY <1>1, EndedIdle DEF WriteReason, booksVars, Settles, StripeInv, StripeTypeOK
<1>11. /\ task \in {Idle} \cup Settling /\ task.at \notin {"fetched", "posting"}
       /\ task.at \in Settles => task.link = l
  BY DEF Idle, Settles
<1> HIDE DEF l, new, task
<1> QED BY <1>1, <1>2, <1>3, <1>4, <1>5, <1>6, <1>7, <1>8, <1>9, <1>10, <1>11, RowMoves

LEMMA ExpireLinkKeeps ==
  ASSUME StripeInv, NEW w \in Workers, NEW l \in Links, ExpireLink(w, l)
  PROVE  StripeInv'
<1> DEFINE new == [row[l] EXCEPT !.status = "EXPIRED"]
           task == Idle
<1>1. event' \in [Links -> SUBSET Events]
  BY DEF ExpireLink, StripeInv, StripeTypeOK
<1>2. CASE ~Expirable(l)
  BY <1>1, <1>2, RowsRest
     DEF ExpireLink, booksVars, StripeInv, StripeTypeOK, SessionsKnown
<1>3. CASE Expirable(l)
  <2>1. HasRow(l) /\ row[l].status = "PENDING" /\ row[l] \in Checkout
    BY <1>3, Counted DEF Expirable
  <2>2. ~row[l].receipt
    BY <2>1 DEF StripeInv, ReceiptsHangOnPaid
  <2>3. new \in Checkout
    BY <2>1, RowWith DEF StripeInv, CheckoutStatuses
  <2>4. /\ new.amount = row[l].amount /\ new.invoice = row[l].invoice
        /\ new.receipt = row[l].receipt /\ new.status = "EXPIRED"
    BY <2>1 DEF Checkout
  <2>5. row' = [row EXCEPT ![l] = new]
    BY <1>3, <2>1 DEF ExpireLink, StripeInv, StripeTypeOK
  <2>6. PICK n \in Nat : /\ n <= 1 /\ (n = 1 <=> new.receipt)
                       /\ receipts' = [receipts EXCEPT ![l] = n]
    BY <2>1, <2>4, Counted DEF ExpireLink, booksVars
  <2>7. \A v \in Workers : worker[v].at = "posting" => worker[v].link # l
    BY <2>1 DEF StripeInv, PostersHoldRows
  <2>8. worker' = [worker EXCEPT ![w] = task]
    BY DEF ExpireLink, StripeInv, StripeTypeOK
  <2>9. UNCHANGED <<session, keys, elsewhere>> /\ applied' \in [Links -> Nat]
    BY DEF ExpireLink, booksVars, StripeInv, StripeTypeOK
  <2>10. /\ task \in {Idle} \cup Settling /\ task.at \notin {"fetched", "posting"}
         /\ task.at \in Settles => task.link = l
    BY DEF Idle, Settles
  <2>11. /\ new.status = "PAID" => session[l].state = "paid"
         /\ new.receipt => new.status = "PAID"
    BY <2>2, <2>4
  <2>12. new.amount = row[l].amount /\ new.invoice = row[l].invoice
    BY <2>4
  <2>13. HasRow(l)
    BY <2>1
  <2> HIDE DEF new, task
  <2> QED BY <1>1, <2>3, <2>5, <2>6, <2>7, <2>8, <2>9, <2>10, <2>11, <2>12, <2>13, RowMoves
<1> QED BY <1>2, <1>3

-----------------------------------------------------------------------------
(* Stripe, its customer, and the rest of the books.                        *)

LEMMA IgnoreEventKeeps ==
  ASSUME StripeInv, NEW w \in Workers, NEW l \in Links, IgnoreEvent(w, l)
  PROVE  StripeInv'
<1>1. event' \in [Links -> SUBSET Events]
  BY DEF IgnoreEvent, StripeInv, StripeTypeOK
<1> QED BY <1>1, RowsRest DEF IgnoreEvent, booksVars, StripeInv, StripeTypeOK, SessionsKnown

\* A session that is there keeps its shape as its state, or its time, moves on.
LEMMA SessionMoves ==
  ASSUME StripeInv, NEW l \in Links, session[l] # NoSession,
         NEW state \in SessionStates
  PROVE  /\ session[l] \in Session
         /\ [session[l] EXCEPT !.state = state] \in Session
         /\ [session[l] EXCEPT !.lapsed = TRUE] \in Session
BY DEF StripeInv, StripeTypeOK, Session

LEMMA SessionIsNone ==
  ASSUME NEW s \in Session
  PROVE  s # NoSession
<1>1. s.state # "none"
  BY DEF Session, SessionStates
<1>2. NoSession.state = "none"
  BY DEF NoSession
<1> QED BY <1>1, <1>2

\* What is left to show of a step of Stripe's on one session.
LEMMA StripeMovesKeeps ==
  ASSUME StripeInv, NEW l \in Links, NEW new \in Session,
         session[l] # NoSession,
         session' = [session EXCEPT ![l] = new],
         session[l].state = "paid" => new.state = "paid",
         new.asked = session[l].asked, new.amount = session[l].amount,
         new.invoice = session[l].invoice,
         event' \in [Links -> SUBSET Events],
         UNCHANGED <<row, keys, booksVars, worker>>
  PROVE  StripeInv'
<1>1. \A m \in Links : session'[m] = IF m = l THEN new ELSE session[m]
  BY DEF StripeInv, StripeTypeOK
<1>2. session' \in [Links -> Session \cup {NoSession}]
  BY DEF StripeInv, StripeTypeOK
<1>3. new # NoSession
  BY SessionIsNone
<1>4. \A m \in Links : session[m].state = "paid" => session'[m].state = "paid"
  BY <1>1
<1>5. \A m \in Links : HasRow(m) =>
        /\ session'[m] # NoSession
        /\ session'[m].asked = session[m].asked
        /\ session'[m].amount = session[m].amount
        /\ session'[m].invoice = session[m].invoice
  BY <1>1, <1>3 DEF StripeInv, SessionsKnown
<1> QED BY <1>2, <1>4, <1>5, RowsRest DEF booksVars, StripeInv, StripeTypeOK

LEMMA PayKeeps ==
  ASSUME StripeInv, NEW l \in Links, Pay(l)
  PROVE  StripeInv'
<1>1. PICK state \in {"paid", "processing"} :
        session' = [session EXCEPT ![l].state = state]
  BY DEF Pay
<1> DEFINE new == [session[l] EXCEPT !.state = state]
<1>2. session[l] # NoSession /\ session[l].state = "open"
  BY DEF Pay, NoSession
<1>3. session[l] \in Session /\ new \in Session
  BY <1>2, SessionMoves DEF SessionStates
<1>4. session' = [session EXCEPT ![l] = new]
  BY <1>1 DEF StripeInv, StripeTypeOK
<1>5. /\ new.asked = session[l].asked /\ new.amount = session[l].amount
      /\ new.invoice = session[l].invoice
  BY <1>3 DEF Session
<1>6. event' \in [Links -> SUBSET Events]
  BY DEF Pay, Notify, Events, StripeInv, StripeTypeOK
<1> HIDE DEF new
<1> QED BY <1>2, <1>3, <1>4, <1>5, <1>6, StripeMovesKeeps DEF Pay

LEMMA FinishDelayedKeeps ==
  ASSUME StripeInv, NEW l \in Links, FinishDelayed(l)
  PROVE  StripeInv'
<1>1. PICK state \in {"paid", "failed"} :
        session' = [session EXCEPT ![l].state = state]
  BY DEF FinishDelayed
<1> DEFINE new == [session[l] EXCEPT !.state = state]
<1>2. session[l] # NoSession /\ session[l].state = "processing"
  BY DEF FinishDelayed, NoSession
<1>3. session[l] \in Session /\ new \in Session
  BY <1>2, SessionMoves DEF SessionStates
<1>4. session' = [session EXCEPT ![l] = new]
  BY <1>1 DEF StripeInv, StripeTypeOK
<1>5. /\ new.asked = session[l].asked /\ new.amount = session[l].amount
      /\ new.invoice = session[l].invoice
  BY <1>3 DEF Session
<1>6. event' \in [Links -> SUBSET Events]
  BY DEF FinishDelayed, Notify, Events, StripeInv, StripeTypeOK
<1> HIDE DEF new
<1> QED BY <1>2, <1>3, <1>4, <1>5, <1>6, StripeMovesKeeps DEF FinishDelayed

LEMMA LapseKeeps ==
  ASSUME StripeInv, NEW l \in Links, Lapse(l)
  PROVE  StripeInv'
<1> DEFINE new == [session[l] EXCEPT !.lapsed = TRUE]
<1>1. session[l] # NoSession
  BY DEF Lapse
<1>2. session[l] \in Session /\ new \in Session
  BY <1>1, SessionMoves DEF SessionStates
<1>3. session' = [session EXCEPT ![l] = new]
  BY DEF Lapse, StripeInv, StripeTypeOK
<1>4. /\ new.asked = session[l].asked /\ new.amount = session[l].amount
      /\ new.invoice = session[l].invoice /\ new.state = session[l].state
  BY <1>2 DEF Session
<1>5. event' \in [Links -> SUBSET Events]
  BY DEF Lapse, Notify, Events, StripeInv, StripeTypeOK
<1> HIDE DEF new
<1> QED BY <1>1, <1>2, <1>3, <1>4, <1>5, StripeMovesKeeps DEF Lapse

LEMMA ForgetKeyKeeps ==
  ASSUME StripeInv, NEW k \in keys, ForgetKey(k)
  PROVE  StripeInv'
BY RowsRest DEF ForgetKey, booksVars, StripeInv, StripeTypeOK, SessionsKnown

LEMMA SettleElsewhereKeeps ==
  ASSUME StripeInv, NEW i \in Invoices, SettleElsewhere(i)
  PROVE  StripeInv'
<1>1. PICK x \in 0 .. Total[i] : elsewhere' = [elsewhere EXCEPT ![i] = x]
  BY DEF SettleElsewhere
<1>2. elsewhere' \in [Invoices -> Nat]
  BY <1>1, TotalAssumption DEF StripeInv, StripeTypeOK
<1> QED BY <1>2, RowsRest DEF SettleElsewhere, stripeVars, StripeInv, StripeTypeOK, SessionsKnown

LEMMA UnapplyReceiptKeeps ==
  ASSUME StripeInv, NEW l \in Links, UnapplyReceipt(l)
  PROVE  StripeInv'
<1>1. applied' \in [Links -> Nat]
  BY DEF UnapplyReceipt, StripeInv, StripeTypeOK
<1> QED BY <1>1, RowsRest DEF UnapplyReceipt, stripeVars, StripeInv, StripeTypeOK, SessionsKnown

-----------------------------------------------------------------------------
(* The invariant holds, and what follows from it.                          *)

LEMMA StripeNext == StripeInv /\ [Next]_vars => StripeInv'
<1> SUFFICES ASSUME StripeInv, [Next]_vars
             PROVE  StripeInv'
  OBVIOUS
<1>1. CASE UNCHANGED vars
  BY <1>1, RowsRest DEF vars, stripeVars, booksVars, StripeInv, StripeTypeOK, SessionsKnown
<1>2. ASSUME NEW w \in Workers, NEW i \in Invoices, LoadInvoice(w, i)
      PROVE  StripeInv'
  BY <1>2, LoadInvoiceKeeps
<1>3. ASSUME NEW w \in Workers, FindLiveLink(w)
      PROVE  StripeInv'
  BY <1>3, FindLiveLinkKeeps
<1>4. ASSUME NEW w \in Workers, NEW l \in Links,
             CreateLink(w, l) \/ LoseLink(w, l)
      PROVE  StripeInv'
  BY <1>4, CreateLinkKeeps, LoseLinkKeeps
<1>5. ASSUME NEW w \in Workers, NEW l \in Links,
             FetchSettlement(w, l) \/ RetryPosting(w, l)
      PROVE  StripeInv'
  BY <1>5, FetchSettlementKeeps, RetryPostingKeeps
<1>6. ASSUME NEW w \in Workers, NEW l \in Links,
             ExpireLink(w, l) \/ IgnoreEvent(w, l)
      PROVE  StripeInv'
  BY <1>6, ExpireLinkKeeps, IgnoreEventKeeps
<1>7. ASSUME NEW w \in Workers, RecordPaid(w) \/ PostReceipt(w)
      PROVE  StripeInv'
  BY <1>7, RecordPaidKeeps, PostReceiptKeeps
<1>8. ASSUME NEW w \in Workers, CommitReceipt(w) \/ RefuseAllocation(w)
      PROVE  StripeInv'
  BY <1>8, CommitReceiptKeeps, RefuseAllocationKeeps
<1>9. ASSUME NEW w \in Workers, WriteReason(w) \/ Crash(w)
      PROVE  StripeInv'
  BY <1>9, WriteReasonKeeps, CrashKeeps
<1>10. ASSUME NEW l \in Links, Pay(l) \/ FinishDelayed(l) \/ Lapse(l) \/ UnapplyReceipt(l)
       PROVE  StripeInv'
  BY <1>10, PayKeeps, FinishDelayedKeeps, LapseKeeps, UnapplyReceiptKeeps
<1>11. ASSUME NEW k \in keys, ForgetKey(k)
       PROVE  StripeInv'
  BY <1>11, ForgetKeyKeeps
<1>12. ASSUME NEW i \in Invoices, SettleElsewhere(i)
       PROVE  StripeInv'
  BY <1>12, SettleElsewhereKeeps
<1> QED BY <1>1, <1>2, <1>3, <1>4, <1>5, <1>6, <1>7, <1>8, <1>9, <1>10, <1>11, <1>12 DEF Next

LEMMA StripeAlways == Spec => []StripeInv
BY StripeInit, StripeNext, PTL DEF Spec

\* Rows, sessions, requests and the books keep their shape, for any invoices,
\* links and number of requests.
THEOREM StripeTypes == Spec => []StripeTypeOK
<1>1. StripeInv => StripeTypeOK
  BY DEF StripeInv
<1> QED BY <1>1, StripeAlways, PTL

\* PAY-013: however many requests deliver, retry and die in whatever order, a
\* session yields one receipt at the most, and its row points to it.
THEOREM OneReceipt == Spec => []OneReceiptPerSession
<1>1. StripeInv => OneReceiptPerSession
  BY DEF StripeInv
<1> QED BY <1>1, StripeAlways, PTL

\* The books never hold a receipt for a session Stripe has not been paid for,
\* nor for another invoice, nor one that differs from what the customer was
\* charged by more than half the smallest unit Stripe charges in (to_minor).
THEOREM BackedByMoney == Spec => []ReceiptsAreBackedByMoney
<1>1. StripeInv => ReceiptsAreBackedByMoney
  <2> SUFFICES ASSUME StripeInv, NEW l \in Links, receipts[l] > 0
               PROVE  /\ session[l].state = "paid"
                      /\ Near(row[l].amount, Charged(l))
                      /\ row[l].invoice = session[l].invoice
    BY DEF ReceiptsAreBackedByMoney
  <2>1. receipts[l] = 1
    BY DEF StripeInv, StripeTypeOK, OneReceiptPerSession
  <2>2. HasRow(l) /\ row[l].receipt
    BY <2>1 DEF StripeInv, OneReceiptPerSession
  <2>3. row[l].amount \in Money
    BY <2>2 DEF StripeInv, StripeTypeOK, HasRow, Checkout
  <2>4. Near(row[l].amount, Charged(l))
    BY <2>2, <2>3, Rounds DEF StripeInv, SessionsKnown, Charged
  <2> QED BY <2>2, <2>4 DEF StripeInv, ReceiptsHangOnPaid, PaidIsPaid, SessionsKnown
<1> QED BY <1>1, StripeAlways, PTL

\* Together: a session yields at most one receipt, and only for money that came,
\* over what came but for the rounding of to_minor.
THEOREM ReceiptsAlwaysSound == Spec => []ReceiptsAreSound
BY StripeTypes, OneReceipt, BackedByMoney, PTL DEF ReceiptsAreSound

\* One step of what SettledForGood asks.
Settled(l) ==
  HasRow(l) /\ row[l].receipt =>
    row'[l].receipt /\ row'[l].status = "PAID" /\ receipts'[l] = receipts[l]

\* Rows that have a receipt are not written but to say why another was refused.
LEMMA StaysSettled ==
  ASSUME StripeInv, NEW l \in Links,
         HasRow(l) /\ row[l].receipt => row'[l] = row[l] /\ receipts'[l] = receipts[l]
  PROVE  Settled(l)
BY DEF StripeInv, ReceiptsHangOnPaid, Settled

LEMMA RowsAsTheyWere ==
  ASSUME StripeInv, NEW l \in Links, UNCHANGED <<row, receipts>>
  PROVE  Settled(l)
BY StaysSettled

\* The row a settling request is about.
LEMMA SettlersRow ==
  ASSUME StripeInv, NEW w \in Workers, worker[w].at \in Settles
  PROVE  worker[w].link \in Links /\ HasRow(worker[w].link)
BY SettlingAt, SettlingFields DEF StripeInv, Linked

LEMMA CreateLinkSpares ==
  ASSUME StripeInv, NEW w \in Workers, NEW m \in Links, CreateLink(w, m), NEW l \in Links
  PROVE  Settled(l)
<1> DEFINE old == worker[w].existing
<1>1. ~HasRow(m)
  BY NewSession DEF CreateLink
<1>2. old \in Links \cup {NoLink} /\ (old # NoLink => ~row[old].receipt)
  BY ReplacingAt DEF CreateLink, Replaceable, StripeInv
<1>3. ASSUME HasRow(l), row[l].receipt
      PROVE  row'[l] = row[l] /\ receipts'[l] = receipts[l]
  <2>1. l # m /\ l # old
    BY <1>1, <1>2, <1>3, NullLinkAssumption
  <2>2. receipts' = receipts
    BY DEF CreateLink, booksVars
  <2> QED BY <1>2, <2>1, <2>2 DEF CreateLink, Replaced, StripeInv, StripeTypeOK
<1> QED BY <1>3, StaysSettled

LEMMA RecordPaidSpares ==
  ASSUME StripeInv, NEW w \in Workers, RecordPaid(w), NEW l \in Links
  PROVE  Settled(l)
<1>1. worker[w].link \in Links
  BY SettlersRow DEF RecordPaid, Settles
<1>2. HasRow(l) /\ row[l].receipt => row'[l] = row[l] /\ receipts'[l] = receipts[l]
  BY <1>1 DEF RecordPaid, booksVars, StripeInv, StripeTypeOK
<1> QED BY <1>2, StaysSettled

LEMMA CommitReceiptSpares ==
  ASSUME StripeInv, NEW w \in Workers, CommitReceipt(w), NEW l \in Links
  PROVE  Settled(l)
<1>1. worker[w].link \in Links
  BY SettlersRow DEF CommitReceipt, Settles
<1>2. ~row[worker[w].link].receipt
  BY DEF CommitReceipt, StripeInv, PostersHoldRows
<1>3. HasRow(l) /\ row[l].receipt => row'[l] = row[l] /\ receipts'[l] = receipts[l]
  BY <1>1, <1>2 DEF CommitReceipt, StripeInv, StripeTypeOK
<1> QED BY <1>3, StaysSettled

LEMMA WriteReasonSpares ==
  ASSUME StripeInv, NEW w \in Workers, WriteReason(w), NEW l \in Links
  PROVE  Settled(l)
<1> DEFINE mine == worker[w].link
           new == [row[mine] EXCEPT !.refused = TRUE]
<1>1. mine \in Links /\ HasRow(mine)
  BY SettlersRow DEF WriteReason, Settles
<1>2. receipts' = receipts
  BY DEF WriteReason, booksVars
<1>3. CASE l = mine
  <2>1. row'[l] = new
    BY <1>1, <1>3 DEF WriteReason, StripeInv, StripeTypeOK
  <2>2. new.receipt = row[l].receipt /\ new.status = row[l].status
    BY <1>1, <1>3, Counted DEF Checkout
  <2> HIDE DEF new
  <2> QED BY <1>2, <2>1, <2>2 DEF StripeInv, ReceiptsHangOnPaid, Settled
<1>4. CASE l # mine
  <2>1. row'[l] = row[l]
    BY <1>1, <1>4 DEF WriteReason, StripeInv, StripeTypeOK
  <2> QED BY <1>2, <2>1, StaysSettled
<1> QED BY <1>3, <1>4

LEMMA ExpireLinkSpares ==
  ASSUME StripeInv, NEW w \in Workers, NEW m \in Links, ExpireLink(w, m), NEW l \in Links
  PROVE  Settled(l)
<1>1. Expirable(m) => ~row[m].receipt
  BY DEF Expirable, StripeInv, ReceiptsHangOnPaid
<1>2. HasRow(l) /\ row[l].receipt => row'[l] = row[l] /\ receipts'[l] = receipts[l]
  BY <1>1 DEF ExpireLink, booksVars, StripeInv, StripeTypeOK
<1> QED BY <1>2, StaysSettled

LEMMA SettledNext == StripeInv /\ Next => \A l \in Links : Settled(l)
<1> SUFFICES ASSUME StripeInv, Next, NEW l \in Links
             PROVE  Settled(l)
  OBVIOUS
<1>1. CASE UNCHANGED <<row, receipts>>
  BY <1>1, RowsAsTheyWere
<1>2. ASSUME NEW w \in Workers, NEW m \in Links,
             CreateLink(w, m) \/ ExpireLink(w, m)
      PROVE  Settled(l)
  BY <1>2, CreateLinkSpares, ExpireLinkSpares
<1>3. ASSUME NEW w \in Workers, RecordPaid(w) \/ CommitReceipt(w) \/ WriteReason(w)
      PROVE  Settled(l)
  BY <1>3, RecordPaidSpares, CommitReceiptSpares, WriteReasonSpares
<1>4. ASSUME NEW w \in Workers,
             \/ \E i \in Invoices : LoadInvoice(w, i)
             \/ FindLiveLink(w) \/ PostReceipt(w) \/ RefuseAllocation(w) \/ Crash(w)
             \/ \E m \in Links : \/ LoseLink(w, m) \/ FetchSettlement(w, m)
                                 \/ RetryPosting(w, m) \/ IgnoreEvent(w, m)
      PROVE  UNCHANGED <<row, receipts>>
  BY <1>4 DEF LoadInvoice, FindLiveLink, PostReceipt, RefuseAllocation, Crash, LoseLink,
     FetchSettlement, RetryPosting, IgnoreEvent, booksVars
<1>5. ASSUME \/ \E m \in Links : \/ Pay(m) \/ FinishDelayed(m) \/ Lapse(m)
                                 \/ UnapplyReceipt(m)
             \/ \E k \in keys : ForgetKey(k)
             \/ \E i \in Invoices : SettleElsewhere(i)
      PROVE  UNCHANGED <<row, receipts>>
  BY <1>5 DEF Pay, FinishDelayed, Lapse, UnapplyReceipt, ForgetKey, SettleElsewhere, booksVars
<1> QED BY <1>1, <1>2, <1>3, <1>4, <1>5 DEF Next

\* What was settled stays settled: no expiry, no replaced link, no late or
\* repeated delivery and no refusal takes a receipt or its status from a row.
THEOREM NothingUnsettled == Spec => SettledForGood
<1>1. StripeInv /\ [Next]_vars =>
        [\A l \in Links : HasRow(l) /\ row[l].receipt =>
           /\ row'[l].receipt
           /\ row'[l].status = "PAID"
           /\ receipts'[l] = receipts[l]]_vars
  BY SettledNext DEF Settled
<1> QED BY <1>1, StripeAlways, PTL DEF Spec, SettledForGood

-----------------------------------------------------------------------------
(* Links that can be paid side by side.                                    *)

\* A session holds its key for as long as a customer could pay it, and shares
\* it with no other such session.
Active(l) == session[l] # NoSession /\ ~session[l].lapsed
KeyOf(l) == IdempotencyKey(session[l].invoice, session[l].asked)
KeysHeld ==
  /\ \A l \in Links : Active(l) => KeyOf(l) \in keys
  /\ \A l, m \in Links : Active(l) /\ Active(m) /\ KeyOf(l) = KeyOf(m) => l = m

LEMMA KeysInit == Init => KeysHeld
BY DEF Init, KeysHeld, Active

\* Stripe makes a session only under a key it does not remember.
LEMMA CreationTakesKey ==
  ASSUME StripeInv, KeysHeld, NEW l \in Links, NEW i, NEW open, StripeCreates(l, i, open)
  PROVE  KeysHeld'
<1> DEFINE opened == [invoice |-> i, asked |-> open, amount |-> to_minor(open),
                      state |-> "open", lapsed |-> FALSE]
           key == IdempotencyKey(i, open)
<1>1. /\ key \notin keys
      /\ keys' = keys \cup {key}
      /\ \A m \in Links : session'[m] = IF m = l THEN opened ELSE session[m]
  BY DEF StripeCreates, StripeInv, StripeTypeOK
<1>2. KeyOf(l)' = key
  BY <1>1 DEF KeyOf, IdempotencyKey
<1>3. \A m \in Links : m # l => KeyOf(m)' = KeyOf(m) /\ (Active(m)' <=> Active(m))
  BY <1>1 DEF KeyOf, IdempotencyKey, Active
<1> HIDE DEF opened, key
<1>4. \A m \in Links : Active(m)' => KeyOf(m)' \in keys'
  BY <1>1, <1>2, <1>3 DEF KeysHeld
<1>5. ASSUME NEW m \in Links, NEW n \in Links, Active(m)', Active(n)', KeyOf(m)' = KeyOf(n)'
      PROVE  m = n
  <2>1. \A o \in Links : o # l /\ Active(o)' => KeyOf(o)' # key
    BY <1>1, <1>3 DEF KeysHeld
  <2> QED BY <1>2, <1>3, <1>5, <2>1 DEF KeysHeld
<1> QED BY <1>4, <1>5 DEF KeysHeld

\* A session that only moves on, or lapses, keeps its key or drops it.
LEMMA MovingOnKeepsKey ==
  ASSUME KeysHeld, keys' = keys,
         \A l \in Links : Active(l)' => Active(l) /\ KeyOf(l)' = KeyOf(l)
  PROVE  KeysHeld'
BY DEF KeysHeld

LEMMA SameSessionsKeepKeys ==
  ASSUME KeysHeld, UNCHANGED <<session, keys>>
  PROVE  KeysHeld'
BY DEF KeysHeld, Active, KeyOf, IdempotencyKey

\* What Stripe and its customer do to a session that exists.
LEMMA SessionMovesOn ==
  ASSUME StripeInv, NEW l \in Links, Pay(l) \/ FinishDelayed(l) \/ Lapse(l)
  PROVE  /\ keys' = keys
         /\ session[l] # NoSession
         /\ \A m \in Links : m # l => session'[m] = session[m]
         /\ session'[l] # NoSession
         /\ session'[l].invoice = session[l].invoice
         /\ session'[l].asked = session[l].asked
         /\ session'[l].amount = session[l].amount
         /\ ~session'[l].lapsed => ~session[l].lapsed
<1>1. session[l] # NoSession
  BY DEF Pay, FinishDelayed, Lapse, NoSession
<1>2. session[l] \in Session
  BY <1>1 DEF StripeInv, StripeTypeOK
<1>3. keys' = keys
  BY DEF Pay, FinishDelayed, Lapse
<1>4. \/ \E s \in SessionStates : session' = [session EXCEPT ![l].state = s]
      \/ session' = [session EXCEPT ![l].lapsed = TRUE]
  BY DEF Pay, FinishDelayed, Lapse, SessionStates
<1>5. \/ \E s \in SessionStates : session'[l] = [session[l] EXCEPT !.state = s]
      \/ session'[l] = [session[l] EXCEPT !.lapsed = TRUE]
  BY <1>4 DEF StripeInv, StripeTypeOK
<1>6. \A m \in Links : m # l => session'[m] = session[m]
  BY <1>4 DEF StripeInv, StripeTypeOK
<1>7. session'[l].state \in SessionStates
  BY <1>2, <1>5 DEF Session
<1>8. session'[l] # NoSession
  BY <1>7 DEF NoSession, SessionStates
<1> QED BY <1>1, <1>2, <1>3, <1>5, <1>6, <1>8 DEF Session

\* Whatever a request does but create a session leaves Stripe's sessions alone.
LEMMA RequestsSpareSessions ==
  ASSUME NEW w \in Workers,
         \/ \E i \in Invoices : LoadInvoice(w, i)
         \/ FindLiveLink(w) \/ RecordPaid(w) \/ PostReceipt(w) \/ CommitReceipt(w)
         \/ RefuseAllocation(w) \/ WriteReason(w) \/ Crash(w)
         \/ \E l \in Links : \/ FetchSettlement(w, l) \/ RetryPosting(w, l)
                             \/ ExpireLink(w, l) \/ IgnoreEvent(w, l)
  PROVE  UNCHANGED <<session, keys>>
BY DEF LoadInvoice, FindLiveLink, RecordPaid, PostReceipt, CommitReceipt, RefuseAllocation,
   WriteReason, Crash, FetchSettlement, RetryPosting, ExpireLink, IgnoreEvent, End, stripeVars

LEMMA KeysNext == StripeInv /\ KeysHeld /\ [Next]_vars => KeysHeld'
<1> SUFFICES ASSUME StripeInv, KeysHeld, [Next]_vars
             PROVE  KeysHeld'
  OBVIOUS
<1>1. CASE UNCHANGED <<session, keys>>
  BY <1>1, SameSessionsKeepKeys
<1>2. ASSUME NEW w \in Workers, NEW l \in Links, CreateLink(w, l) \/ LoseLink(w, l)
      PROVE  KeysHeld'
  BY <1>2, CreationTakesKey DEF CreateLink, LoseLink
<1>3. ASSUME NEW l \in Links, Pay(l) \/ FinishDelayed(l) \/ Lapse(l)
      PROVE  KeysHeld'
  <2>1. \A m \in Links : Active(m)' => Active(m) /\ KeyOf(m)' = KeyOf(m)
    BY <1>3, SessionMovesOn DEF Active, KeyOf, IdempotencyKey
  <2> QED BY <1>3, <2>1, SessionMovesOn, MovingOnKeepsKey
<1>4. ASSUME NEW k \in keys, ForgetKey(k)
      PROVE  KeysHeld'
  BY <1>4 DEF ForgetKey, KeysHeld, Active, KeyOf
<1>5. ASSUME \/ \E l \in Links : UnapplyReceipt(l)
             \/ \E i \in Invoices : SettleElsewhere(i)
             \/ UNCHANGED vars
      PROVE  UNCHANGED <<session, keys>>
  BY <1>5 DEF UnapplyReceipt, SettleElsewhere, vars, stripeVars
<1> QED BY <1>1, <1>2, <1>3, <1>4, <1>5, RequestsSpareSessions DEF Next

\* Two clerks, one who clicks twice, an answer of Stripe that was lost: however
\* many requests there are, no customer holds two links over the same amount of
\* one invoice that can both be paid.
THEOREM OneLinkAtMost == Spec => []OneLinkPerAmount
<1>1. StripeInv /\ KeysHeld => OneLinkPerAmount
  <2> SUFFICES ASSUME StripeInv, KeysHeld, NEW l \in Links, NEW m \in Links,
                      HasRow(l), HasRow(m), Payable(l), Payable(m),
                      row[l].invoice = row[m].invoice, row[l].amount = row[m].amount
               PROVE  l = m
    BY DEF OneLinkPerAmount
  <2>1. Active(l) /\ Active(m)
    BY DEF Payable, Active, NoSession
  <2>2. KeyOf(l) = KeyOf(m)
    BY DEF KeyOf, StripeInv, SessionsKnown
  <2> QED BY <2>1, <2>2 DEF KeysHeld
<1> QED BY <1>1, StripeAlways, KeysInit, KeysNext, PTL DEF Spec

-----------------------------------------------------------------------------
(* How rows grow.                                                          *)

\* That a link was replaced by one over another amount is not forgotten, nor
\* that it was recorded as paid.
OnRecord(l) ==
  \/ row[l].status = "PAID"
  \/ row[l].status # "PENDING" /\ \E m \in Links : ReplacedBy(l, m)
Explained(l) == row[l].receipt \/ row[l].refused

\* What no step takes from a row.
Grows(l) ==
  HasRow(l) =>
    /\ row'[l] # NoRow
    /\ row'[l].invoice = row[l].invoice
    /\ row'[l].amount = row[l].amount
    /\ row[l].status # "PENDING" => row'[l].status # "PENDING"
    /\ row[l].status = "PAID" => \/ row'[l].status = "PAID"
                                 \/ \E m \in Links : ReplacedBy(l, m)'
    /\ Explained(l) => row'[l].receipt \/ row'[l].refused

\* A request that replaces a link does so for one over another amount.
ReplacersCompare ==
  \A w \in Workers :
    worker[w].at = "replacing" /\ worker[w].existing # NoLink =>
      /\ row[worker[w].existing].invoice = worker[w].invoice
      /\ row[worker[w].existing].amount # worker[w].open

LEMMA SameRowsGrow ==
  ASSUME row' = row, NEW l \in Links
  PROVE  Grows(l)
BY DEF Grows, HasRow, Explained, ReplacedBy

LEMMA CreateLinkGrows ==
  ASSUME StripeInv, ReplacersCompare, NEW w \in Workers, NEW m \in Links, CreateLink(w, m),
         NEW l \in Links
  PROVE  Grows(l)
<1> DEFINE old == worker[w].existing
           new == [invoice |-> worker[w].invoice, amount |-> worker[w].open,
                   status |-> "PENDING", receipt |-> FALSE, refused |-> FALSE]
<1>1. ~HasRow(m) /\ worker[w].at = "replacing"
  BY NewSession DEF CreateLink
<1>2. /\ old \in Links \cup {NoLink}
      /\ worker[w].invoice \in Invoices /\ worker[w].open \in Money
  BY <1>1, ReplacingAt DEF StripeInv
<1>3. row'[m] = new
  BY <1>2 DEF CreateLink, Replaced, StripeInv, StripeTypeOK
<1>4. row'[m] # NoRow
  <2>1. new \in Checkout
    BY <1>2 DEF Checkout, CheckoutStatuses
  <2> QED BY <1>3, <2>1, NoRowAssumption
<1>5. SUFFICES ASSUME HasRow(l)
               PROVE  Grows(l)
  BY DEF Grows
<1>6. l # m
  BY <1>1, <1>5
<1>7. CASE l = old
  <2>1. row[l] \in Checkout
    BY <1>5, Counted
  <2>2. row'[l] = [row[l] EXCEPT !.status = "EXPIRED"]
    BY <1>6, <1>7, NullLinkAssumption DEF CreateLink, Replaced, StripeInv, StripeTypeOK
  <2>3. /\ row'[l].invoice = row[l].invoice /\ row'[l].amount = row[l].amount
        /\ row'[l].status = "EXPIRED"
        /\ row'[l].receipt = row[l].receipt /\ row'[l].refused = row[l].refused
    BY <2>1, <2>2 DEF Checkout
  <2>4. row'[l] # NoRow
    <3>1. row'[l] \in Checkout
      BY <2>2, <1>5, RowWith DEF StripeInv, CheckoutStatuses
    <3> QED BY <3>1, NoRowAssumption
  <2>5. row[l].invoice = worker[w].invoice /\ row[l].amount # worker[w].open
    BY <1>1, <1>7, NullLinkAssumption DEF ReplacersCompare
  <2>6. ReplacedBy(l, m)'
    BY <2>3, <2>5, <1>3, <1>4 DEF ReplacedBy, HasRow
  <2> HIDE DEF new, old
  <2> QED BY <2>3, <2>4, <2>6 DEF Grows, Explained
<1>8. CASE l # old
  <2>1. row'[l] = row[l]
    BY <1>2, <1>6, <1>8 DEF CreateLink, Replaced, StripeInv, StripeTypeOK
  <2> QED BY <1>5, <2>1 DEF Grows, Explained, HasRow
<1> QED BY <1>7, <1>8

\* A row written in place: its invoice and amount stay, and what is written is
\* the status, the receipt or the reason.
LEMMA WrittenRowGrows ==
  ASSUME NEW m \in Links, NEW new \in Checkout, row' = [row EXCEPT ![m] = new],
         StripeInv, HasRow(m), NEW l \in Links,
         new.invoice = row[m].invoice, new.amount = row[m].amount,
         row[m].status # "PENDING" => new.status # "PENDING",
         row[m].status = "PAID" => new.status = "PAID",
         Explained(m) => new.receipt \/ new.refused
  PROVE  Grows(l)
<1>1. row'[l] = IF l = m THEN new ELSE row[l]
  BY DEF StripeInv, StripeTypeOK
<1> QED BY <1>1, NoRowAssumption DEF Grows, HasRow, Explained

LEMMA RecordPaidGrows ==
  ASSUME StripeInv, NEW w \in Workers, RecordPaid(w), NEW l \in Links
  PROVE  Grows(l)
<1> DEFINE m == worker[w].link
           new == [row[m] EXCEPT !.status = "PAID"]
<1>1. m \in Links /\ HasRow(m)
  BY SettlersRow DEF RecordPaid, Settles
<1>2. row[m] \in Checkout /\ new \in Checkout
  BY <1>1, RowWith DEF StripeInv, CheckoutStatuses
<1>3. /\ new.invoice = row[m].invoice /\ new.amount = row[m].amount /\ new.status = "PAID"
      /\ new.receipt = row[m].receipt /\ new.refused = row[m].refused
  BY <1>2 DEF Checkout
<1>4. row' = row \/ row' = [row EXCEPT ![m] = new]
  BY <1>1 DEF RecordPaid, StripeInv, StripeTypeOK
<1>5. CASE row' = row
  BY <1>5, SameRowsGrow
<1>6. CASE row' = [row EXCEPT ![m] = new]
  <2> HIDE DEF m, new
  <2> QED BY <1>1, <1>2, <1>3, <1>6, WrittenRowGrows DEF Explained
<1> QED BY <1>4, <1>5, <1>6

LEMMA CommitReceiptGrows ==
  ASSUME StripeInv, NEW w \in Workers, CommitReceipt(w), NEW l \in Links
  PROVE  Grows(l)
<1> DEFINE m == worker[w].link
           new == [row[m] EXCEPT !.receipt = TRUE, !.refused = FALSE]
<1>1. m \in Links /\ HasRow(m)
  BY SettlersRow DEF CommitReceipt, Settles
<1>2. row[m] \in Checkout /\ new \in Checkout
  BY <1>1, RowWith DEF StripeInv, CheckoutStatuses
<1>3. /\ new.invoice = row[m].invoice /\ new.amount = row[m].amount
      /\ new.status = row[m].status /\ new.receipt
  BY <1>2 DEF Checkout
<1>4. row' = [row EXCEPT ![m] = new]
  BY <1>1 DEF CommitReceipt, StripeInv, StripeTypeOK
<1> HIDE DEF m, new
<1> QED BY <1>1, <1>2, <1>3, <1>4, WrittenRowGrows

LEMMA WriteReasonGrows ==
  ASSUME StripeInv, NEW w \in Workers, WriteReason(w), NEW l \in Links
  PROVE  Grows(l)
<1> DEFINE m == worker[w].link
           new == [row[m] EXCEPT !.refused = TRUE]
<1>1. m \in Links /\ HasRow(m)
  BY SettlersRow DEF WriteReason, Settles
<1>2. row[m] \in Checkout /\ new \in Checkout
  BY <1>1, RowWith DEF StripeInv, CheckoutStatuses
<1>3. /\ new.invoice = row[m].invoice /\ new.amount = row[m].amount
      /\ new.status = row[m].status /\ new.refused
  BY <1>2 DEF Checkout
<1>4. row' = [row EXCEPT ![m] = new]
  BY <1>1 DEF WriteReason, StripeInv, StripeTypeOK
<1> HIDE DEF m, new
<1> QED BY <1>1, <1>2, <1>3, <1>4, WrittenRowGrows

LEMMA ExpireLinkGrows ==
  ASSUME StripeInv, NEW w \in Workers, NEW m \in Links, ExpireLink(w, m), NEW l \in Links
  PROVE  Grows(l)
<1> DEFINE new == [row[m] EXCEPT !.status = "EXPIRED"]
<1>1. CASE ~Expirable(m)
  BY <1>1, SameRowsGrow DEF ExpireLink
<1>2. CASE Expirable(m)
  <2>1. HasRow(m) /\ row[m].status = "PENDING"
    BY <1>2 DEF Expirable
  <2>2. row[m] \in Checkout /\ new \in Checkout
    BY <2>1, RowWith DEF StripeInv, CheckoutStatuses
  <2>3. /\ new.invoice = row[m].invoice /\ new.amount = row[m].amount
        /\ new.receipt = row[m].receipt /\ new.refused = row[m].refused
    BY <2>2 DEF Checkout
  <2>4. row' = [row EXCEPT ![m] = new]
    BY <1>2, <2>1 DEF ExpireLink, StripeInv, StripeTypeOK
  <2> HIDE DEF new
  <2> QED BY <2>1, <2>2, <2>3, <2>4, WrittenRowGrows DEF Explained
<1> QED BY <1>1, <1>2

\* Every other step leaves the rows alone.
LEMMA OthersSpareRows ==
  ASSUME \/ \E w \in Workers :
              \/ \E i \in Invoices : LoadInvoice(w, i)
              \/ FindLiveLink(w) \/ PostReceipt(w) \/ RefuseAllocation(w) \/ Crash(w)
              \/ \E m \in Links : \/ LoseLink(w, m) \/ FetchSettlement(w, m)
                                  \/ RetryPosting(w, m) \/ IgnoreEvent(w, m)
         \/ \E m \in Links : Pay(m) \/ FinishDelayed(m) \/ Lapse(m) \/ UnapplyReceipt(m)
         \/ \E k \in keys : ForgetKey(k)
         \/ \E i \in Invoices : SettleElsewhere(i)
         \/ UNCHANGED vars
  PROVE  row' = row
BY DEF LoadInvoice, FindLiveLink, PostReceipt, RefuseAllocation, Crash, LoseLink,
   FetchSettlement, RetryPosting, IgnoreEvent, Pay, FinishDelayed, Lapse, UnapplyReceipt,
   ForgetKey, SettleElsewhere, vars

LEMMA RowsGrow == StripeInv /\ ReplacersCompare /\ [Next]_vars => \A l \in Links : Grows(l)
<1> SUFFICES ASSUME StripeInv, ReplacersCompare, [Next]_vars, NEW l \in Links
             PROVE  Grows(l)
  OBVIOUS
<1>1. CASE row' = row
  BY <1>1, SameRowsGrow
<1>2. ASSUME NEW w \in Workers, NEW m \in Links, CreateLink(w, m) \/ ExpireLink(w, m)
      PROVE  Grows(l)
  BY <1>2, CreateLinkGrows, ExpireLinkGrows
<1>3. ASSUME NEW w \in Workers, RecordPaid(w) \/ CommitReceipt(w) \/ WriteReason(w)
      PROVE  Grows(l)
  BY <1>3, RecordPaidGrows, CommitReceiptGrows, WriteReasonGrows
<1> QED BY <1>1, <1>2, <1>3, OthersSpareRows DEF Next

\* So what is on record stays on record.
LEMMA RecordStays ==
  ASSUME StripeInv, \A l \in Links : Grows(l), NEW l \in Links, HasRow(l)
  PROVE  /\ \A m \in Links : ReplacedBy(l, m) => ReplacedBy(l, m)'
         /\ OnRecord(l) => OnRecord(l)'
BY DEF Grows, ReplacedBy, OnRecord, HasRow

-----------------------------------------------------------------------------
(* Where requests get to.                                                  *)

Recording == {"recorded", "posting", "refused"}

\* A request comes to replace a link by having compared it, and to post a
\* receipt only for a row that is recorded as paid.
Arrives(v) ==
  /\ worker'[v].at = "replacing" => worker'[v] = worker[v] \/ FindLiveLink(v)
  /\ worker'[v].at \in Recording =>
       /\ worker'[v].link \in Links
       /\ \/ worker[v].at \in Recording /\ worker'[v].link = worker[v].link
          \/ row'[worker'[v].link].status = "PAID"

\* Requests that only stand where they stood, or are done.
LEMMA StandingArrives ==
  ASSUME StripeInv, NEW v \in Workers,
         \/ worker'[v] = worker[v]
         \/ worker'[v].at \notin {"replacing"} \cup Recording
  PROVE  Arrives(v)
BY SettlersRow DEF Arrives, Recording, Settles

LEMMA GoneElsewhereArrives ==
  ASSUME StripeInv, NEW w \in Workers, NEW task, Goto(w, task),
         task.at \notin {"replacing"} \cup Recording, NEW v \in Workers
  PROVE  Arrives(v)
<1>1. worker'[v] = IF v = w THEN task ELSE worker[v]
  BY DEF Goto, StripeInv, StripeTypeOK
<1> QED BY <1>1, StandingArrives

LEMMA EndedArrives ==
  ASSUME StripeInv, NEW w \in Workers, End(w) \/ Goto(w, Idle), NEW v \in Workers
  PROVE  Arrives(v)
<1>1. Idle.at \notin {"replacing"} \cup Recording
  BY DEF Idle, Recording
<1> QED BY <1>1, GoneElsewhereArrives DEF End

LEMMA ChargersArrive ==
  ASSUME StripeInv, NEW w \in Workers, NEW v \in Workers,
         \/ \E i \in Invoices : LoadInvoice(w, i)
         \/ FindLiveLink(w) \/ Crash(w)
         \/ \E l \in Links : CreateLink(w, l) \/ LoseLink(w, l)
  PROVE  Arrives(v)
<1>1. ASSUME NEW i \in Invoices, LoadInvoice(w, i)
      PROVE  Arrives(v)
  <2>1. PICK open \in 1 .. Total[i] : Goto(w, [at |-> "loaded", invoice |-> i, open |-> open])
    BY <1>1 DEF LoadInvoice
  <2> DEFINE task == [at |-> "loaded", invoice |-> i, open |-> open]
  <2>2. task.at \notin {"replacing"} \cup Recording
    BY DEF Recording
  <2> HIDE DEF task
  <2> QED BY <2>1, <2>2, GoneElsewhereArrives DEF task
<1>2. CASE FindLiveLink(w)
  <2>1. \E task : Goto(w, task) /\ task.at \notin Recording
    BY <1>2 DEF FindLiveLink, Recording, Idle
  <2>2. v # w => worker'[v] = worker[v]
    BY <2>1 DEF Goto, StripeInv, StripeTypeOK
  <2>3. worker'[w].at \notin Recording
    BY <2>1 DEF Goto, StripeInv, StripeTypeOK
  <2> QED BY <1>2, <2>2, <2>3, StandingArrives DEF Arrives
<1>3. ASSUME NEW l \in Links, CreateLink(w, l) \/ LoseLink(w, l) \/ Crash(w)
      PROVE  Arrives(v)
  BY <1>3, EndedArrives DEF CreateLink, LoseLink, Crash
<1> QED BY <1>1, <1>2, <1>3, EndedArrives DEF Crash

LEMMA RecordPaidArrives ==
  ASSUME StripeInv, NEW w \in Workers, RecordPaid(w), NEW v \in Workers
  PROVE  Arrives(v)
<1> DEFINE l == worker[w].link
<1>1. l \in Links /\ worker[w] \in Settling /\ HasRow(l)
  BY SettlersRow, SettlingAt DEF RecordPaid, Settles, StripeInv
<1>2. CASE row[l].receipt
  BY <1>2, EndedArrives DEF RecordPaid
<1>3. CASE ~row[l].receipt
  <2>1. v # w => worker'[v] = worker[v]
    BY <1>3 DEF RecordPaid, Step, StripeInv, StripeTypeOK
  <2>2. worker'[w] = [worker[w] EXCEPT !.at = "recorded"]
    BY <1>3 DEF RecordPaid, Step, StripeInv, StripeTypeOK
  <2>3. worker'[w].link = l /\ worker'[w].at = "recorded"
    BY <1>1, <2>2 DEF Settling
  <2>4. row'[l] = [row[l] EXCEPT !.status = "PAID"] /\ row[l] \in Checkout
    BY <1>1, <1>3, Counted DEF RecordPaid, StripeInv, StripeTypeOK
  <2>5. row'[l].status = "PAID"
    BY <2>4 DEF Checkout
  <2> QED BY <1>1, <2>1, <2>3, <2>5, StandingArrives DEF Arrives
<1> QED BY <1>2, <1>3

LEMMA SettlersArrive ==
  ASSUME StripeInv, NEW w \in Workers, NEW v \in Workers,
         \/ PostReceipt(w) \/ RefuseAllocation(w) \/ CommitReceipt(w) \/ WriteReason(w)
  PROVE  Arrives(v)
<1>1. CASE End(w)
  BY <1>1, EndedArrives
<1>2. CASE ~End(w)
  <2>1. worker[w].at \in Recording
    BY DEF PostReceipt, RefuseAllocation, CommitReceipt, WriteReason, Recording
  <2>2. worker[w] \in Settling /\ worker[w].link \in Links
    BY <2>1, SettlersRow, SettlingAt DEF Recording, Settles, StripeInv
  <2>3. PICK take \in Nat :
          \/ worker' = [worker EXCEPT ![w].at = "posting", ![w].take = take]
          \/ worker' = [worker EXCEPT ![w].at = "refused"]
    <3>1. CASE PostReceipt(w)
      <4>1. row[worker[w].link] \in Checkout
        BY <2>1, SettlersRow, Counted DEF Recording, Settles
      <4>2. row[worker[w].link].amount \in Nat
        BY <4>1 DEF Checkout, Money
      <4>3. \A x \in 0 .. row[worker[w].link].amount : x \in Nat
        BY <4>2
      <4> QED BY <1>2, <3>1, <4>3 DEF PostReceipt, Step
    <3>2. CASE ~PostReceipt(w)
      BY <1>2, <3>2 DEF RefuseAllocation, CommitReceipt, WriteReason, Step
    <3> QED BY <3>1, <3>2
  <2>4. v # w => worker'[v] = worker[v]
    BY <2>3 DEF StripeInv, StripeTypeOK
  <2>5. \/ worker'[w] = [worker[w] EXCEPT !.at = "posting", !.take = take]
        \/ worker'[w] = [worker[w] EXCEPT !.at = "refused"]
    BY <2>3 DEF StripeInv, StripeTypeOK
  <2>6. worker'[w].link = worker[w].link
    BY <2>2, <2>5 DEF Settling
  <2>7. worker'[w].at \in {"posting", "refused"}
    BY <2>2, <2>5 DEF Settling
  <2> QED BY <2>1, <2>2, <2>4, <2>6, <2>7, StandingArrives DEF Arrives, Recording
<1> QED BY <1>1, <1>2

LEMMA CallersArrive ==
  ASSUME StripeInv, NEW w \in Workers, NEW v \in Workers, NEW l \in Links,
         \/ FetchSettlement(w, l) \/ RetryPosting(w, l)
         \/ ExpireLink(w, l) \/ IgnoreEvent(w, l)
  PROVE  Arrives(v)
<1>1. CASE UNCHANGED worker
  BY <1>1, StandingArrives
<1>2. CASE Goto(w, [at |-> "fetched", link |-> l, event |-> TRUE, take |-> 0])
  <2> DEFINE task == [at |-> "fetched", link |-> l, event |-> TRUE, take |-> 0]
  <2>1. task.at \notin {"replacing"} \cup Recording
    BY DEF Recording
  <2> HIDE DEF task
  <2> QED BY <1>2, <2>1, GoneElsewhereArrives DEF task
<1>3. CASE RetryPosting(w, l)
  <2>1. \A u \in Workers : worker'[u] =
          IF u = w THEN [at |-> "recorded", link |-> l, event |-> FALSE, take |-> 0]
          ELSE worker[u]
    BY <1>3 DEF RetryPosting, Goto, StripeInv, StripeTypeOK
  <2>2. row'[l].status = "PAID"
    BY <1>3 DEF RetryPosting
  <2> QED BY <2>1, <2>2, StandingArrives DEF Arrives
<1> QED BY <1>1, <1>2, <1>3 DEF FetchSettlement, ExpireLink, IgnoreEvent

LEMMA AllArrive == StripeInv /\ [Next]_vars => \A v \in Workers : Arrives(v)
<1> SUFFICES ASSUME StripeInv, [Next]_vars, NEW v \in Workers
             PROVE  Arrives(v)
  OBVIOUS
<1>1. CASE worker' = worker
  BY <1>1, StandingArrives
<1>2. ASSUME \/ \E l \in Links : Pay(l) \/ FinishDelayed(l) \/ Lapse(l) \/ UnapplyReceipt(l)
             \/ \E k \in keys : ForgetKey(k)
             \/ \E i \in Invoices : SettleElsewhere(i)
             \/ UNCHANGED vars
      PROVE  worker' = worker
  BY <1>2 DEF Pay, FinishDelayed, Lapse, UnapplyReceipt, ForgetKey, SettleElsewhere, vars
<1> QED BY <1>1, <1>2, ChargersArrive, RecordPaidArrives, SettlersArrive, CallersArrive DEF Next

-----------------------------------------------------------------------------
(* No payment is forgotten.                                                *)

\* Nothing is left to do for a link that was paid.
Closed(l) ==
  \/ row[l].status = "PAID" /\ Explained(l)
  \/ row[l].status # "PENDING" /\ \E m \in Links : ReplacedBy(l, m)

\* A completed session is forgotten by Stripe only when nothing is left to do.
Remembers(l) ==
  HasRow(l) /\ session[l].state = "paid" /\ "completed" \in event[l] =>
    "completed" \in event'[l] \/ Closed(l)'

\* A request that records, posts or refuses is about a payment on record, and a
\* card pays when its session completes.
MemoryInv ==
  /\ ReplacersCompare
  /\ \A w \in Workers : worker[w].at \in Recording => OnRecord(worker[w].link)
  /\ \A l \in Links \ Delayed : session[l].state # "processing"
  /\ NoPaymentForgotten

LEMMA MemoryInit == Init => MemoryInv
BY DEF Init, MemoryInv, ReplacersCompare, NoPaymentForgotten, Recording, Idle, NoSession, HasRow

LEMMA ClosedStays ==
  ASSUME StripeInv, \A l \in Links : Grows(l), NEW l \in Links, HasRow(l), Closed(l)
  PROVE  Closed(l)'
BY RecordStays DEF Closed, Grows, Explained

LEMMA ReplacersCompareNext ==
  StripeInv /\ ReplacersCompare /\ [Next]_vars => ReplacersCompare'
<1> SUFFICES ASSUME StripeInv, ReplacersCompare, [Next]_vars,
                    NEW v \in Workers, worker'[v].at = "replacing",
                    worker'[v].existing # NoLink
             PROVE  /\ row'[worker'[v].existing].invoice = worker'[v].invoice
                    /\ row'[worker'[v].existing].amount # worker'[v].open
  BY DEF ReplacersCompare
<1>1. CASE worker'[v] = worker[v]
  <2> DEFINE old == worker[v].existing
  <2>1. worker[v].at = "replacing" /\ old # NoLink
    BY <1>1
  <2>2. old \in Links /\ HasRow(old)
    BY <2>1, ReplacingAt DEF StripeInv, Linked
  <2>3. Grows(old)
    BY <2>2, RowsGrow
  <2>4. row[old].invoice = worker[v].invoice /\ row[old].amount # worker[v].open
    BY <2>1 DEF ReplacersCompare
  <2> QED BY <1>1, <2>2, <2>3, <2>4 DEF Grows
<1>2. CASE FindLiveLink(v)
  <2> DEFINE live == LiveLinks(worker[v].invoice)
             next(existing) == [at |-> "replacing", invoice |-> worker[v].invoice,
                                open |-> worker[v].open, existing |-> existing]
  <2>1. PICK existing \in (IF live = {} THEN {NoLink} ELSE live) :
          Goto(v, IF existing # NoLink /\ row[existing].amount = worker[v].open
                  THEN Idle ELSE next(existing))
    BY <1>2 DEF FindLiveLink
  <2>2. worker'[v] = IF existing # NoLink /\ row[existing].amount = worker[v].open
                     THEN Idle ELSE next(existing)
    BY <2>1 DEF Goto, StripeInv, StripeTypeOK
  <2>3. worker'[v] = next(existing)
        /\ ~(existing # NoLink /\ row[existing].amount = worker[v].open)
    BY <2>2 DEF Idle
  <2>4. existing # NoLink => row[existing].invoice = worker[v].invoice
    BY <2>1 DEF LiveLinks, LinksOf
  <2>5. row' = row
    BY <1>2 DEF FindLiveLink
  <2> QED BY <2>3, <2>4, <2>5
<1> QED BY <1>1, <1>2, AllArrive DEF Arrives

\* An answer to Stripe closes the one link it is about, or that is closed.
LEMMA EndRemembers ==
  ASSUME StripeInv, NEW w \in Workers, worker[w].at \in Settles, End(w),
         NEW m \in Links, m = worker[w].link, Closed(m)', NEW l \in Links
  PROVE  Remembers(l)
<1>1. l # m => event'[l] = event[l]
  BY DEF End, Answered, StripeInv, StripeTypeOK
<1> QED BY <1>1 DEF Remembers

LEMMA FetchRemembers ==
  ASSUME StripeInv, NEW w \in Workers, NEW m \in Links, FetchSettlement(w, m), NEW l \in Links
  PROVE  Remembers(l)
<1>1. CASE event' = event
  BY <1>1 DEF Remembers
<1>2. CASE Answered(m) /\ (NothingToSettle(m) \/ session[m].state # "paid")
  <2>1. l # m => event'[l] = event[l]
    BY <1>2 DEF Answered, StripeInv, StripeTypeOK
  <2>2. HasRow(m) /\ session[m].state = "paid" => row[m].receipt /\ row[m].status = "PAID"
    BY <1>2 DEF NothingToSettle, StripeInv, ReceiptsHangOnPaid
  <2>3. row' = row
    BY DEF FetchSettlement
  <2> QED BY <2>1, <2>2, <2>3 DEF Remembers, Closed, Explained
<1> QED BY <1>1, <1>2 DEF FetchSettlement

LEMMA SettlersRemember ==
  ASSUME StripeInv, MemoryInv, \A l \in Links : Grows(l), NEW w \in Workers,
         \/ RecordPaid(w) \/ PostReceipt(w) \/ CommitReceipt(w)
         \/ RefuseAllocation(w) \/ WriteReason(w),
         NEW l \in Links
  PROVE  Remembers(l)
<1>1. CASE event' = event
  BY <1>1 DEF Remembers
<1>2. worker[w].at \in Settles
  BY DEF RecordPaid, PostReceipt, CommitReceipt, RefuseAllocation, WriteReason, Settles
<1>3. PICK m \in Links : m = worker[w].link /\ HasRow(m) /\ row[m] \in Checkout
  BY <1>2, SettlersRow, Counted
<1>4. CASE RecordPaid(w) /\ event' # event
  <2>1. row[m].receipt /\ End(w)
    BY <1>3, <1>4 DEF RecordPaid, stripeVars
  <2>2. Closed(m)
    BY <1>3, <2>1 DEF StripeInv, ReceiptsHangOnPaid, Closed, Explained
  <2> QED BY <1>2, <1>3, <2>1, <2>2, ClosedStays, EndRemembers
<1>5. CASE PostReceipt(w) /\ event' # event
  <2>1. ~Outstanding(m) /\ End(w)
    BY <1>3, <1>5 DEF PostReceipt, stripeVars
  <2>2. OnRecord(m)
    BY <1>3, <1>5 DEF PostReceipt, MemoryInv, Recording
  <2>3. Closed(m)
    BY <2>1, <2>2 DEF OnRecord, Outstanding, Closed, Explained
  <2> QED BY <1>2, <1>3, <2>1, <2>3, ClosedStays, EndRemembers
<1>6. CASE CommitReceipt(w)
  <2>1. row[m].status = "PAID"
    BY <1>3, <1>6 DEF CommitReceipt, StripeInv, PostersHoldRows
  <2>2. row'[m] = [row[m] EXCEPT !.receipt = TRUE, !.refused = FALSE]
    BY <1>3, <1>6 DEF CommitReceipt, StripeInv, StripeTypeOK
  <2>3. row'[m].status = "PAID" /\ row'[m].receipt
    BY <1>3, <2>1, <2>2 DEF Checkout
  <2>4. Closed(m)'
    BY <2>3 DEF Closed, Explained
  <2> QED BY <1>2, <1>3, <1>6, <2>4, EndRemembers DEF CommitReceipt
<1>7. CASE WriteReason(w)
  <2>1. OnRecord(m)
    BY <1>3, <1>7 DEF WriteReason, MemoryInv, Recording
  <2>2. row'[m] = [row[m] EXCEPT !.refused = TRUE]
    BY <1>3, <1>7 DEF WriteReason, StripeInv, StripeTypeOK
  <2>3. row'[m].refused
    BY <1>3, <2>2 DEF Checkout
  <2>4. OnRecord(m)'
    BY <1>3, <2>1, RecordStays
  <2>5. Closed(m)'
    BY <2>3, <2>4 DEF OnRecord, Closed, Explained
  <2> QED BY <1>2, <1>3, <1>7, <2>5, EndRemembers DEF WriteReason
<1>8. CASE RefuseAllocation(w)
  BY <1>8 DEF RefuseAllocation, stripeVars, Remembers
<1> QED BY <1>1, <1>4, <1>5, <1>6, <1>7, <1>8

\* An answer to another event leaves the completion waiting; so does the rest.
LEMMA OthersRemember ==
  ASSUME StripeInv, NEW l \in Links,
         \/ \E w \in Workers :
              \/ \E i \in Invoices : LoadInvoice(w, i)
              \/ FindLiveLink(w) \/ Crash(w)
              \/ \E m \in Links : \/ CreateLink(w, m) \/ LoseLink(w, m) \/ RetryPosting(w, m)
                                  \/ ExpireLink(w, m) \/ IgnoreEvent(w, m)
         \/ \E m \in Links : Pay(m) \/ FinishDelayed(m) \/ Lapse(m) \/ UnapplyReceipt(m)
         \/ \E k \in keys : ForgetKey(k)
         \/ \E i \in Invoices : SettleElsewhere(i)
         \/ UNCHANGED vars
  PROVE  "completed" \in event[l] => "completed" \in event'[l]
<1>1. CASE event' = event
  BY <1>1
<1>2. ASSUME NEW m \in Links, NEW e \in Events \ {"completed"},
             event' = [event EXCEPT ![m] = @ \ {e}]
      PROVE  "completed" \in event[l] => "completed" \in event'[l]
  BY <1>2 DEF StripeInv, StripeTypeOK
<1>3. ASSUME NEW m \in Links, NEW e, Notify(m, e)
      PROVE  "completed" \in event[l] => "completed" \in event'[l]
  BY <1>3 DEF Notify, StripeInv, StripeTypeOK
<1>4. ASSUME NEW w \in Workers, NEW m \in Links, ExpireLink(w, m)
      PROVE  \E e \in Events \ {"completed"} : event' = [event EXCEPT ![m] = @ \ {e}]
  BY <1>4 DEF ExpireLink, Events
<1>5. ASSUME NEW w \in Workers, NEW m \in Links, IgnoreEvent(w, m)
      PROVE  \E e \in Events \ {"completed"} : event' = [event EXCEPT ![m] = @ \ {e}]
  BY <1>5 DEF IgnoreEvent, StripeInv, StripeTypeOK
<1>6. ASSUME NEW m \in Links, Pay(m) \/ FinishDelayed(m) \/ Lapse(m)
      PROVE  event' = event \/ \E e \in Events : Notify(m, e)
  BY <1>6 DEF Pay, FinishDelayed, Lapse, Events
<1>7. ASSUME \/ \E w \in Workers :
                  \/ \E i \in Invoices : LoadInvoice(w, i)
                  \/ FindLiveLink(w) \/ Crash(w)
                  \/ \E m \in Links : CreateLink(w, m) \/ LoseLink(w, m) \/ RetryPosting(w, m)
             \/ \E m \in Links : UnapplyReceipt(m)
             \/ \E k \in keys : ForgetKey(k)
             \/ \E i \in Invoices : SettleElsewhere(i)
             \/ UNCHANGED vars
      PROVE  event' = event
  BY <1>7 DEF LoadInvoice, FindLiveLink, Crash, CreateLink, LoseLink, StripeCreates,
     RetryPosting, UnapplyReceipt, ForgetKey, SettleElsewhere, stripeVars, vars
<1> QED BY <1>1, <1>2, <1>3, <1>4, <1>5, <1>6, <1>7

LEMMA AllRemember == StripeInv /\ MemoryInv /\ [Next]_vars => \A l \in Links : Remembers(l)
<1> SUFFICES ASSUME StripeInv, MemoryInv, [Next]_vars, NEW l \in Links
             PROVE  Remembers(l)
  OBVIOUS
<1>1. \A m \in Links : Grows(m)
  BY RowsGrow DEF MemoryInv
<1>2. CASE "completed" \in event[l] => "completed" \in event'[l]
  BY <1>2 DEF Remembers
<1>3. ASSUME NEW w \in Workers,
             \/ RecordPaid(w) \/ PostReceipt(w) \/ CommitReceipt(w)
             \/ RefuseAllocation(w) \/ WriteReason(w)
      PROVE  Remembers(l)
  BY <1>1, <1>3, SettlersRemember
<1>4. ASSUME NEW w \in Workers, NEW m \in Links, FetchSettlement(w, m)
      PROVE  Remembers(l)
  BY <1>4, FetchRemembers
<1> QED BY <1>2, <1>3, <1>4, OthersRemember DEF Next

\* A card session is never half paid.
LEMMA CardsNext ==
  ASSUME StripeInv, MemoryInv, [Next]_vars, NEW l \in Links \ Delayed
  PROVE  /\ session'[l].state # "processing"
         /\ session'[l].state = "paid" =>
              session[l].state = "paid" \/ "completed" \in event'[l]
<1>1. session[l].state # "processing"
  BY DEF MemoryInv
<1>2. CASE session' = session
  BY <1>1, <1>2
<1>3. ASSUME NEW w \in Workers, NEW m \in Links, CreateLink(w, m) \/ LoseLink(w, m)
      PROVE  session'[l] = session[l] \/ session'[l].state = "open"
  BY <1>3 DEF CreateLink, LoseLink, StripeCreates, StripeInv, StripeTypeOK
<1>4. ASSUME NEW m \in Links, Pay(m)
      PROVE  session'[l] = session[l] \/ "completed" \in event'[l]
  BY <1>4 DEF Pay, Notify, StripeInv, StripeTypeOK
<1>5. ASSUME NEW m \in Links, Pay(m)
      PROVE  session'[l].state # "processing"
  <2>1. l = m => session' = [session EXCEPT ![l].state = "paid"] /\ session[l].state = "open"
    BY <1>5 DEF Pay
  <2>2. session[l].state = "open" => session[l] \in Session
    BY DEF NoSession, StripeInv, StripeTypeOK
  <2>3. l # m => session'[l] = session[l]
    BY <1>5 DEF Pay, StripeInv, StripeTypeOK
  <2>4. l = m => session'[l] = [session[l] EXCEPT !.state = "paid"]
    BY <2>1 DEF StripeInv, StripeTypeOK
  <2>5. l = m => session'[l].state = "paid"
    BY <2>1, <2>2, <2>4 DEF Session
  <2> QED BY <1>1, <2>3, <2>5
<1>6. ASSUME NEW m \in Links, FinishDelayed(m)
      PROVE  session'[l] = session[l]
  BY <1>1, <1>6 DEF FinishDelayed, StripeInv, StripeTypeOK
<1>7. ASSUME NEW m \in Links, Lapse(m)
      PROVE  session'[l].state = session[l].state
  <2>1. session[m] \in Session
    BY <1>7 DEF Lapse, StripeInv, StripeTypeOK
  <2>2. session'[l] = IF l = m THEN [session[l] EXCEPT !.lapsed = TRUE] ELSE session[l]
    BY <1>7 DEF Lapse, StripeInv, StripeTypeOK
  <2> QED BY <2>1, <2>2 DEF Session
<1>8. ASSUME \/ \E m \in Links : UnapplyReceipt(m)
             \/ \E k \in keys : ForgetKey(k)
             \/ \E i \in Invoices : SettleElsewhere(i)
             \/ UNCHANGED vars
      PROVE  session' = session
  BY <1>8 DEF UnapplyReceipt, ForgetKey, SettleElsewhere, stripeVars, vars
<1> QED BY <1>1, <1>2, <1>3, <1>4, <1>5, <1>6, <1>7, <1>8, RequestsSpareSessions DEF Next

\* Only start_checkout makes a row.
LEMMA NoNewRow ==
  ASSUME StripeInv, [Next]_vars, NEW l \in Links, ~HasRow(l),
         \A w \in Workers, m \in Links : CreateLink(w, m) => m # l
  PROVE  ~HasRow(l)'
<1>1. CASE row' = row
  BY <1>1 DEF HasRow
<1>2. ASSUME NEW w \in Workers, NEW m \in Links, CreateLink(w, m)
      PROVE  ~HasRow(l)'
  <2>1. m # l
    BY <1>2
  <2>2. l # worker[w].existing
    BY <1>2, NullLinkAssumption DEF CreateLink, StripeInv, Linked
  <2>3. worker[w].existing \in Links \cup {NoLink}
    BY <1>2, ReplacingAt DEF CreateLink, StripeInv
  <2> QED BY <1>2, <2>1, <2>2, <2>3 DEF CreateLink, Replaced, HasRow, StripeInv, StripeTypeOK
<1>3. ASSUME NEW w \in Workers, NEW m \in Links, ExpireLink(w, m)
      PROVE  ~HasRow(l)'
  BY <1>3 DEF ExpireLink, Expirable, HasRow, StripeInv, StripeTypeOK
<1>4. ASSUME NEW w \in Workers, RecordPaid(w) \/ CommitReceipt(w) \/ WriteReason(w)
      PROVE  ~HasRow(l)'
  <2>1. worker[w].link \in Links /\ HasRow(worker[w].link)
    BY <1>4, SettlersRow DEF RecordPaid, CommitReceipt, WriteReason, Settles
  <2>2. row'[l] = row[l]
    BY <1>4, <2>1 DEF RecordPaid, CommitReceipt, WriteReason, StripeInv, StripeTypeOK
  <2> QED BY <2>2 DEF HasRow
<1> QED BY <1>1, <1>2, <1>3, <1>4, OthersSpareRows DEF Next

LEMMA RecordersNext ==
  ASSUME StripeInv, MemoryInv, [Next]_vars, NEW v \in Workers, worker'[v].at \in Recording
  PROVE  OnRecord(worker[v].link)'
<1>1. PICK m \in Links : m = worker'[v].link
  BY AllArrive DEF Arrives
<1>2. OnRecord(m)'
  <2>1. CASE row'[m].status = "PAID"
    BY <2>1 DEF OnRecord
  <2>2. CASE worker[v].at \in Recording /\ m = worker[v].link
    <3>1. OnRecord(m) /\ HasRow(m)
      BY <2>2, SettlersRow DEF MemoryInv, Recording, Settles
    <3>2. \A l \in Links : Grows(l)
      BY RowsGrow DEF MemoryInv
    <3> QED BY <3>1, <3>2, RecordStays
  <2> QED BY <1>1, <2>1, <2>2, AllArrive DEF Arrives
<1> QED BY <1>1, <1>2 DEF OnRecord, ReplacedBy, HasRow

LEMMA MemoryNext == StripeInv /\ MemoryInv /\ [Next]_vars => MemoryInv'
<1> SUFFICES ASSUME StripeInv, MemoryInv, [Next]_vars
             PROVE  MemoryInv'
  OBVIOUS
<1>1. ReplacersCompare'
  BY ReplacersCompareNext DEF MemoryInv
<1>2. \A v \in Workers : worker'[v].at \in Recording => OnRecord(worker[v].link)'
  BY RecordersNext
<1>3. \A l \in Links \ Delayed : session'[l].state # "processing"
  BY CardsNext
<1>4. ASSUME NEW l \in Links \ Delayed, HasRow(l)', session'[l].state = "paid"
      PROVE  "completed" \in event'[l] \/ Closed(l)'
  <2>1. CASE session[l].state # "paid"
    BY <1>4, <2>1, CardsNext
  <2>2. CASE session[l].state = "paid" /\ HasRow(l)
    <3>1. \A m \in Links : Grows(m)
      BY RowsGrow DEF MemoryInv
    <3>2. "completed" \in event[l] \/ Closed(l)
      BY <2>2 DEF MemoryInv, NoPaymentForgotten, Closed, Explained
    <3>3. Closed(l) => Closed(l)'
      BY <2>2, <3>1, ClosedStays
    <3> QED BY <2>2, <3>2, <3>3, AllRemember DEF Remembers
  <2>3. CASE session[l].state = "paid" /\ ~HasRow(l)
    <3>1. \A w \in Workers, m \in Links : CreateLink(w, m) => m # l
      BY <2>3, NewSession DEF CreateLink
    <3>2. ~HasRow(l)'
      BY <2>3, <3>1, NoNewRow
    <3> QED BY <1>4, <3>2
  <2> QED BY <2>1, <2>2, <2>3
<1>5. NoPaymentForgotten'
  BY <1>4 DEF NoPaymentForgotten, Closed, Explained
<1> QED BY <1>1, <1>2, <1>3, <1>5 DEF MemoryInv

\* However many requests deliver, retry, replace and die, in whatever order: a
\* card payment has its receipt, or the reason why not, or Stripe still waits
\* for an answer; only a payment of a replaced link may be without all three,
\* and then its row does not say PENDING.
THEOREM NothingForgotten == Spec => []NoPaymentForgotten
<1>1. MemoryInv => NoPaymentForgotten
  BY DEF MemoryInv
<1> QED BY <1>1, StripeAlways, MemoryInit, MemoryNext, PTL DEF Spec

-----------------------------------------------------------------------------
(* What is asked for fits the invoice, what is applied fits the receipt,   *)
(* and what was paid is something.                                         *)

Under == {"processing", "paid"}
FitsInvoice(l) ==
  /\ session[l] # NoSession => session[l].asked <= Total[session[l].invoice]
  /\ session[l].state \in Under => session[l].amount > 0
FitsBooks(v) ==
  /\ worker[v].at \in {"loaded", "replacing"} => worker[v].open <= Total[worker[v].invoice]
  /\ worker[v].at = "posting" => worker[v].take <= row[worker[v].link].amount

BooksInv ==
  /\ \A l \in Links : FitsInvoice(l)
  /\ \A v \in Workers : FitsBooks(v)
  /\ \A l \in Links : receipts[l] = 0 => applied[l] = 0

LEMMA BooksInit == Init => BooksInv
BY DEF Init, BooksInv, FitsInvoice, FitsBooks, Idle, NoSession, Under

\* Where a request may stand that has an amount to keep to.
Minding == {"loaded", "replacing", "posting"}
Comes(v) ==
  worker'[v].at \in Minding =>
    \/ worker'[v] = worker[v]
    \/ \E i \in Invoices : LoadInvoice(v, i)
    \/ FindLiveLink(v)
    \/ PostReceipt(v)

LEMMA GotoComes ==
  ASSUME StripeInv, NEW w \in Workers, NEW task, Goto(w, task), task.at \notin Minding,
         NEW v \in Workers
  PROVE  Comes(v)
BY DEF Goto, Comes, StripeInv, StripeTypeOK

LEMMA StepComes ==
  ASSUME StripeInv, NEW w \in Workers, worker[w].at \in Settles, NEW place \in Settles,
         Step(w, place), place # "posting", NEW v \in Workers
  PROVE  Comes(v)
<1>1. worker[w] \in Settling
  BY SettlingAt DEF StripeInv
<1>2. worker'[w] = [worker[w] EXCEPT !.at = place]
  BY DEF Step, StripeInv, StripeTypeOK
<1>3. worker'[w].at = place /\ place \notin Minding
  BY <1>1, <1>2 DEF Settling, Settles, Minding
<1>4. v # w => worker'[v] = worker[v]
  BY DEF Step, StripeInv, StripeTypeOK
<1> QED BY <1>3, <1>4 DEF Comes

LEMMA AllCome == StripeInv /\ [Next]_vars => \A v \in Workers : Comes(v)
<1> SUFFICES ASSUME StripeInv, [Next]_vars, NEW v \in Workers
             PROVE  Comes(v)
  OBVIOUS
<1>0. Idle.at \notin Minding
  BY DEF Idle, Minding
<1>1. CASE worker' = worker
  BY <1>1 DEF Comes
<1>2. ASSUME NEW w \in Workers,
             (\E i \in Invoices : LoadInvoice(w, i)) \/ FindLiveLink(w) \/ PostReceipt(w)
      PROVE  Comes(v)
  <2>1. v # w => worker'[v] = worker[v]
    BY <1>2 DEF LoadInvoice, FindLiveLink, PostReceipt, End, Goto, Step, StripeInv, StripeTypeOK
  <2> QED BY <1>2, <2>1 DEF Comes
<1>3. ASSUME NEW w \in Workers,
             \/ End(w) \/ Goto(w, Idle)
      PROVE  Comes(v)
  BY <1>0, <1>3, GotoComes DEF End
<1>4. ASSUME NEW w \in Workers,
             \/ Crash(w) \/ CommitReceipt(w) \/ WriteReason(w)
             \/ \E l \in Links : CreateLink(w, l) \/ LoseLink(w, l)
      PROVE  End(w) \/ Goto(w, Idle)
  BY <1>4 DEF Crash, CommitReceipt, WriteReason, CreateLink, LoseLink
<1>5. ASSUME NEW w \in Workers, RecordPaid(w) \/ RefuseAllocation(w)
      PROVE  Comes(v)
  <2>1. worker[w].at \in Settles
    BY <1>5 DEF RecordPaid, RefuseAllocation, Settles
  <2>2. End(w) \/ Step(w, "recorded") \/ Step(w, "refused")
    BY <1>5 DEF RecordPaid, RefuseAllocation
  <2> QED BY <1>3, <2>1, <2>2, StepComes DEF Settles
<1>6. ASSUME NEW w \in Workers, NEW l \in Links,
             \/ FetchSettlement(w, l) \/ RetryPosting(w, l)
             \/ ExpireLink(w, l) \/ IgnoreEvent(w, l)
      PROVE  Comes(v)
  <2> DEFINE fetched == [at |-> "fetched", link |-> l, event |-> TRUE, take |-> 0]
             retried == [at |-> "recorded", link |-> l, event |-> FALSE, take |-> 0]
  <2>1. worker' = worker \/ Goto(w, fetched) \/ Goto(w, retried)
    BY <1>6 DEF FetchSettlement, RetryPosting, ExpireLink, IgnoreEvent
  <2>2. fetched.at \notin Minding /\ retried.at \notin Minding
    BY DEF Minding
  <2> HIDE DEF fetched, retried
  <2> QED BY <1>1, <2>1, <2>2, GotoComes
<1>7. ASSUME \/ \E l \in Links : Pay(l) \/ FinishDelayed(l) \/ Lapse(l) \/ UnapplyReceipt(l)
             \/ \E k \in keys : ForgetKey(k)
             \/ \E i \in Invoices : SettleElsewhere(i)
             \/ UNCHANGED vars
      PROVE  worker' = worker
  BY <1>7 DEF Pay, FinishDelayed, Lapse, UnapplyReceipt, ForgetKey, SettleElsewhere, vars
<1> QED BY <1>1, <1>2, <1>3, <1>4, <1>5, <1>6, <1>7 DEF Next

LEMMA FitsBooksNext ==
  ASSUME StripeInv, MemoryInv, BooksInv, [Next]_vars, NEW v \in Workers
  PROVE  FitsBooks(v)'
<1>1. CASE worker'[v] = worker[v]
  <2>1. worker[v].at = "posting" => worker[v].link \in Links /\ HasRow(worker[v].link)
    BY SettlersRow DEF Settles
  <2>2. \A l \in Links : HasRow(l) => row'[l].amount = row[l].amount
    BY RowsGrow DEF MemoryInv, Grows
  <2> QED BY <1>1, <2>1, <2>2 DEF BooksInv, FitsBooks
<1>2. ASSUME NEW i \in Invoices, LoadInvoice(v, i)
      PROVE  FitsBooks(v)'
  <2>1. PICK open \in 1 .. Total[i] : Goto(v, [at |-> "loaded", invoice |-> i, open |-> open])
    BY <1>2 DEF LoadInvoice
  <2>2. worker'[v] = [at |-> "loaded", invoice |-> i, open |-> open]
    BY <2>1 DEF Goto, StripeInv, StripeTypeOK
  <2> QED BY <2>1, <2>2, TotalAssumption DEF FitsBooks
<1>3. CASE FindLiveLink(v)
  <2>1. worker'[v] = Idle
        \/ /\ worker'[v].at = "replacing"
           /\ worker'[v].invoice = worker[v].invoice /\ worker'[v].open = worker[v].open
    BY <1>3 DEF FindLiveLink, Goto, StripeInv, StripeTypeOK
  <2>2. worker[v].open <= Total[worker[v].invoice]
    BY <1>3 DEF FindLiveLink, BooksInv, FitsBooks
  <2> QED BY <2>1, <2>2 DEF FitsBooks, Idle
<1>4. CASE PostReceipt(v) /\ worker'[v].at \in Minding
  <2> DEFINE l == worker[v].link
  <2>1. worker[v] \in Settling /\ l \in Links /\ HasRow(l)
    BY <1>4, SettlersRow, SettlingAt DEF PostReceipt, Settles, StripeInv
  <2>2. ~End(v)
    BY <1>4 DEF End, Goto, Minding, Idle, StripeInv, StripeTypeOK
  <2>3. ~Step(v, "refused")
    <3>1. Step(v, "refused") => worker'[v] = [worker[v] EXCEPT !.at = "refused"]
      BY DEF Step, StripeInv, StripeTypeOK
    <3>2. [worker[v] EXCEPT !.at = "refused"].at = "refused"
      BY <2>1 DEF Settling
    <3> QED BY <1>4, <3>1, <3>2 DEF Minding
  <2>4. PICK take \in 0 .. row[l].amount :
          worker' = [worker EXCEPT ![v].at = "posting", ![v].take = take]
    BY <1>4, <2>2, <2>3 DEF PostReceipt
  <2>5. worker'[v] = [worker[v] EXCEPT !.at = "posting", !.take = take]
    BY <2>4 DEF StripeInv, StripeTypeOK
  <2>6. /\ worker'[v].at = "posting" /\ worker'[v].take = take /\ worker'[v].link = l
    BY <2>1, <2>5 DEF Settling
  <2>7. row' = row
    BY <1>4 DEF PostReceipt
  <2>8. row[l].amount \in Nat
    BY <2>1, Counted DEF Checkout, Money
  <2> QED BY <2>4, <2>6, <2>7, <2>8 DEF FitsBooks
<1>5. CASE worker'[v].at \notin Minding
  BY <1>5 DEF FitsBooks, Minding
<1> QED BY <1>1, <1>2, <1>3, <1>4, <1>5, AllCome DEF Comes

LEMMA FitsInvoiceNext ==
  ASSUME StripeInv, BooksInv, [Next]_vars, NEW l \in Links
  PROVE  FitsInvoice(l)'
<1>1. CASE session' = session
  BY <1>1 DEF BooksInv, FitsInvoice
<1>2. ASSUME NEW w \in Workers, NEW m \in Links, CreateLink(w, m) \/ LoseLink(w, m)
      PROVE  FitsInvoice(l)'
  <2>1. worker[w].open <= Total[worker[w].invoice]
    BY <1>2 DEF CreateLink, LoseLink, BooksInv, FitsBooks
  <2>2. session'[l] = IF l = m
                      THEN [invoice |-> worker[w].invoice, asked |-> worker[w].open,
                            amount |-> to_minor(worker[w].open),
                            state |-> "open", lapsed |-> FALSE]
                      ELSE session[l]
    BY <1>2 DEF CreateLink, LoseLink, StripeCreates, StripeInv, StripeTypeOK
  <2> QED BY <2>1, <2>2 DEF BooksInv, FitsInvoice, Under
<1>3. ASSUME NEW m \in Links, Pay(m) \/ FinishDelayed(m) \/ Lapse(m)
      PROVE  FitsInvoice(l)'
  <2>1. session[m] \in Session
    BY <1>3, SessionMovesOn DEF StripeInv, StripeTypeOK
  <2>2. session'[m].state \in Under =>
          session[m].state \in Under \/ session[m].amount > 0
    <3>1. CASE Pay(m)
      BY <3>1 DEF Pay
    <3>2. CASE FinishDelayed(m)
      BY <3>2 DEF FinishDelayed, Under
    <3>3. CASE Lapse(m)
      BY <2>1, <3>3 DEF Lapse, Session, StripeInv, StripeTypeOK
    <3> QED BY <1>3, <3>1, <3>2, <3>3
  <2> QED BY <1>3, <2>2, SessionMovesOn DEF BooksInv, FitsInvoice
<1>4. ASSUME \/ \E m \in Links : UnapplyReceipt(m)
             \/ \E k \in keys : ForgetKey(k)
             \/ \E i \in Invoices : SettleElsewhere(i)
             \/ UNCHANGED vars
      PROVE  session' = session
  BY <1>4 DEF UnapplyReceipt, ForgetKey, SettleElsewhere, stripeVars, vars
<1> QED BY <1>1, <1>2, <1>3, <1>4, RequestsSpareSessions DEF Next

\* Only posting applies, and only un-applying takes back.
LEMMA OthersLeaveBooks ==
  ASSUME [Next]_vars,
         \A w \in Workers : ~CommitReceipt(w), \A l \in Links : ~UnapplyReceipt(l)
  PROVE  UNCHANGED booksVars \/ \E i \in Invoices : SettleElsewhere(i)
<1>1. ASSUME NEW w \in Workers,
             \/ \E i \in Invoices : LoadInvoice(w, i)
             \/ FindLiveLink(w) \/ RecordPaid(w) \/ PostReceipt(w) \/ RefuseAllocation(w)
             \/ WriteReason(w) \/ Crash(w)
             \/ \E l \in Links : \/ CreateLink(w, l) \/ LoseLink(w, l) \/ FetchSettlement(w, l)
                                 \/ RetryPosting(w, l) \/ ExpireLink(w, l) \/ IgnoreEvent(w, l)
      PROVE  UNCHANGED booksVars
  BY <1>1 DEF LoadInvoice, FindLiveLink, CreateLink, LoseLink, FetchSettlement, RetryPosting,
     ExpireLink, IgnoreEvent, RecordPaid, PostReceipt, RefuseAllocation, WriteReason, Crash
<1>2. ASSUME \/ \E l \in Links : Pay(l) \/ FinishDelayed(l) \/ Lapse(l)
             \/ \E k \in keys : ForgetKey(k)
             \/ UNCHANGED vars
      PROVE  UNCHANGED booksVars
  BY <1>2 DEF Pay, FinishDelayed, Lapse, ForgetKey, vars
<1> QED BY <1>1, <1>2 DEF Next

LEMMA OthersSpareBooks ==
  ASSUME [Next]_vars,
         \A w \in Workers : ~CommitReceipt(w), \A l \in Links : ~UnapplyReceipt(l)
  PROVE  receipts' = receipts /\ applied' = applied
<1>1. ASSUME NEW i \in Invoices, SettleElsewhere(i)
      PROVE  receipts' = receipts /\ applied' = applied
  BY <1>1 DEF SettleElsewhere
<1> QED BY <1>1, OthersLeaveBooks DEF booksVars

LEMMA BooksNext == StripeInv /\ MemoryInv /\ BooksInv /\ [Next]_vars => BooksInv'
<1> SUFFICES ASSUME StripeInv, MemoryInv, BooksInv, [Next]_vars
             PROVE  BooksInv'
  OBVIOUS
<1>1. ASSUME NEW l \in Links, receipts'[l] = 0
      PROVE  applied'[l] = 0
  <2>1. CASE receipts' = receipts /\ applied' = applied
    BY <1>1, <2>1 DEF BooksInv
  <2>2. ASSUME NEW w \in Workers, CommitReceipt(w)
        PROVE  applied'[l] = 0
    <3>1. worker[w].link \in Links /\ receipts[worker[w].link] \in Nat
      BY <2>2, SettlersRow DEF CommitReceipt, Settles, StripeInv, StripeTypeOK
    <3>2. l # worker[w].link
      BY <1>1, <2>2, <3>1 DEF CommitReceipt, StripeInv, StripeTypeOK
    <3>3. receipts'[l] = receipts[l] /\ applied'[l] = applied[l]
      BY <2>2, <3>2 DEF CommitReceipt, StripeInv, StripeTypeOK
    <3> QED BY <1>1, <3>3 DEF BooksInv
  <2>3. ASSUME NEW m \in Links, UnapplyReceipt(m)
        PROVE  applied'[l] = 0
    BY <1>1, <2>3 DEF UnapplyReceipt, BooksInv, StripeInv, StripeTypeOK
  <2> QED BY <2>1, <2>2, <2>3, OthersSpareBooks
<1> QED BY <1>1, FitsBooksNext, FitsInvoiceNext DEF BooksInv

-----------------------------------------------------------------------------
(* What an invoice still owes.                                             *)

LinksFinite(i) == IsFiniteSet(LinksOf(i)) /\ \A l \in LinksOf(i) : applied[l] \in Nat

LEMMA LinksAreFinite ==
  ASSUME StripeTypeOK, NEW i
  PROVE  LinksOf(i) \subseteq Links /\ LinksFinite(i)
<1>1. LinksOf(i) \subseteq Links
  BY DEF LinksOf
<1> QED BY <1>1, FiniteAssumption, FS_Subset DEF LinksFinite, StripeTypeOK

LEMMA OpenType ==
  ASSUME StripeTypeOK, NEW i \in Invoices
  PROVE  Open(i) \in Int
<1>1. SumFunctionOnSet(applied, LinksOf(i)) \in Nat
  BY LinksAreFinite, SumNat DEF LinksFinite
<1> QED BY <1>1, TotalAssumption DEF Open, StripeTypeOK

\* The part of one link in what an invoice owes.
LEMMA OpenWithout ==
  ASSUME NEW S, IsFiniteSet(S), NEW f, \A x \in S : f[x] \in Nat, NEW l \in S,
         NEW g, NEW n \in Nat, g[l] = n, \A x \in S : x # l => g[x] = f[x]
  PROVE  /\ SumFunctionOnSet(f, S) \in Nat
         /\ SumFunctionOnSet(g, S) = SumFunctionOnSet(f, S) - f[l] + n
<1> DEFINE R == S \ {l}
<1>1. IsFiniteSet(R)
  BY FS_Subset
<1>2. \A x \in S : f[x] \in Int /\ g[x] \in Int
  OBVIOUS
<1>3. SumFunctionOnSet(f, S) = f[l] + SumFunctionOnSet(f, R)
  BY <1>2, SumTake
<1>4. SumFunctionOnSet(g, S) = g[l] + SumFunctionOnSet(g, R)
  BY <1>2, SumTake
<1>5. SumFunctionOnSet(g, R) = SumFunctionOnSet(f, R)
  BY <1>1, SumAgrees
<1>6. SumFunctionOnSet(f, R) \in Nat
  BY <1>1, SumNat
<1> HIDE DEF R
<1> QED BY <1>3, <1>4, <1>5, <1>6

\* The links of an invoice: only start_checkout adds one.
LEMMA LinksStay ==
  ASSUME StripeInv, MemoryInv, [Next]_vars,
         \A w \in Workers, l \in Links : ~CreateLink(w, l), NEW i
  PROVE  LinksOf(i)' = LinksOf(i)
<1>1. \A l \in Links : HasRow(l)' <=> HasRow(l)
  BY RowsGrow, NoNewRow DEF MemoryInv, Grows, HasRow
<1>2. \A l \in Links : HasRow(l) => row'[l].invoice = row[l].invoice
  BY RowsGrow DEF MemoryInv, Grows
<1> QED BY <1>1, <1>2 DEF LinksOf

LEMMA OpenStays ==
  ASSUME NEW i, LinksOf(i)' = LinksOf(i), applied' = applied, elsewhere'[i] = elsewhere[i]
  PROVE  Open(i)' = Open(i)
BY DEF Open

LEMMA CreateLinkKeepsOpen ==
  ASSUME StripeInv, MemoryInv, BooksInv, NEW w \in Workers, NEW l \in Links, CreateLink(w, l),
         NEW i
  PROVE  Open(i)' = Open(i)
<1> DEFINE S == LinksOf(i)
<1>1. ~HasRow(l) /\ applied[l] = 0
  <2>1. ~HasRow(l)
    BY NewSession DEF CreateLink
  <2>2. receipts[l] \in Nat /\ receipts[l] <= 1 /\ receipts[l] # 1
    BY <2>1 DEF StripeInv, OneReceiptPerSession, StripeTypeOK
  <2>3. receipts[l] = 0
    BY <2>2
  <2> QED BY <2>1, <2>3 DEF BooksInv
<1>2. \A m \in Links : m # l => (HasRow(m)' <=> HasRow(m))
  <2>1. \A m \in Links : m # l /\ ~HasRow(m) => ~HasRow(m)'
    <3> SUFFICES ASSUME NEW m \in Links, m # l, ~HasRow(m)
                 PROVE  ~HasRow(m)'
      OBVIOUS
    <3>1. m # worker[w].existing
      BY NullLinkAssumption DEF CreateLink, StripeInv, Linked
    <3>2. worker[w].existing \in Links \cup {NoLink}
      BY ReplacingAt DEF CreateLink, StripeInv
    <3> QED BY <3>1, <3>2 DEF CreateLink, Replaced, HasRow, StripeInv, StripeTypeOK
  <2>2. \A m \in Links : HasRow(m) => HasRow(m)'
    BY CreateLinkGrows DEF MemoryInv, Grows, HasRow
  <2> QED BY <2>1, <2>2
<1>3. \A m \in Links : HasRow(m) => row'[m].invoice = row[m].invoice
  BY CreateLinkGrows DEF MemoryInv, Grows
<1>4. S' = S \/ S' = S \cup {l}
  BY <1>1, <1>2, <1>3 DEF LinksOf
<1>5. applied' = applied /\ elsewhere' = elsewhere
  BY DEF CreateLink, booksVars
<1>6. IsFiniteSet(S) /\ \A m \in S : applied[m] \in Nat
  BY LinksAreFinite DEF StripeInv, LinksFinite
<1>7. l \notin S
  BY <1>1 DEF LinksOf
<1> HIDE DEF S
<1>8. SumFunctionOnSet(applied, S \cup {l}) = SumFunctionOnSet(applied, S)
  <2>1. \A m \in S \cup {l} : applied[m] \in Int
    BY <1>1, <1>6
  <2>2. SumFunctionOnSet(applied, S \cup {l}) = applied[l] + SumFunctionOnSet(applied, S)
    BY <1>6, <1>7, <2>1, SumAdd
  <2>3. SumFunctionOnSet(applied, S) \in Nat
    BY <1>6, SumNat
  <2> QED BY <1>1, <2>2, <2>3
<1>9. SumFunctionOnSet(applied, S)' = SumFunctionOnSet(applied, S)
  BY <1>4, <1>5, <1>8
<1> QED BY <1>5, <1>9 DEF Open, S

\* Somebody applies a receipt, or takes it back: the invoice of the link owes
\* the difference, and every other what it owed.
LEMMA OpenMoves ==
  ASSUME StripeInv, NEW l \in Links, HasRow(l), NEW n \in Nat,
         applied' = [applied EXCEPT ![l] = n], elsewhere' = elsewhere,
         NEW i \in Invoices, LinksOf(i)' = LinksOf(i)
  PROVE  Open(i)' = IF i = row[l].invoice THEN Open(i) + applied[l] - n ELSE Open(i)
<1> DEFINE S == LinksOf(i)
<1>1. IsFiniteSet(S) /\ S \subseteq Links /\ \A m \in S : applied[m] \in Nat
  BY LinksAreFinite DEF StripeInv, LinksFinite
<1>2. \A m \in Links : applied'[m] = IF m = l THEN n ELSE applied[m]
  BY DEF StripeInv, StripeTypeOK
<1>3. l \in S <=> i = row[l].invoice
  BY DEF LinksOf
<1>4. Total[i] \in Int /\ elsewhere[i] \in Int /\ applied[l] \in Int
  BY TotalAssumption DEF StripeInv, StripeTypeOK
<1>5. S' = S
  OBVIOUS
<1> HIDE DEF S
<1>6. CASE l \in S
  <2>1. /\ SumFunctionOnSet(applied, S) \in Nat
        /\ SumFunctionOnSet(applied', S) = SumFunctionOnSet(applied, S) - applied[l] + n
    <3> DEFINE g == applied'
    <3>1. g[l] = n /\ \A x \in S : x # l => g[x] = applied[x]
      BY <1>1, <1>2
    <3> HIDE DEF g
    <3>2. /\ SumFunctionOnSet(applied, S) \in Nat
          /\ SumFunctionOnSet(g, S) = SumFunctionOnSet(applied, S) - applied[l] + n
      BY <1>1, <1>6, <3>1, OpenWithout
    <3> QED BY <3>2 DEF g
  <2>2. Open(i) = Total[i] - elsewhere[i] - SumFunctionOnSet(applied, S)
    BY DEF Open, S
  <2>3. Open(i)' = Total[i] - elsewhere[i] - SumFunctionOnSet(applied', S)
    BY <1>5 DEF Open, S
  <2> QED BY <1>3, <1>4, <1>6, <2>1, <2>2, <2>3
<1>7. CASE l \notin S
  <2>1. SumFunctionOnSet(applied', S) = SumFunctionOnSet(applied, S)
    BY <1>1, <1>2, <1>7, SumAgrees
  <2> QED BY <1>3, <1>5, <1>7, <2>1 DEF Open, S
<1> QED BY <1>6, <1>7

-----------------------------------------------------------------------------
(* The steps are those of CardReceipts.                                    *)

Sound == StripeInv /\ MemoryInv /\ BooksInv

LEMMA SoundAlways == Spec => []Sound
BY StripeInit, StripeNext, MemoryInit, MemoryNext, BooksInit, BooksNext, PTL DEF Spec, Sound

LEMMA RefineInit == Init => Promise!Init
<1> SUFFICES ASSUME Init PROVE Promise!Init
  OBVIOUS
<1>1. \A l \in Links : ~HasRow(l)
  BY DEF Init, HasRow
<1>2. Paid = [l \in Links |-> 0] /\ Booked = [l \in Links |-> 0]
  BY <1>1 DEF Paid, Booked
<1>3. ASSUME NEW i \in Invoices
      PROVE  Open(i) = Total[i]
  <2>1. LinksOf(i) = {}
    BY <1>1 DEF LinksOf
  <2>2. SumFunctionOnSet(applied, LinksOf(i)) = 0
    BY <2>1, SumEmpty
  <2>3. Total[i] \in Int /\ elsewhere[i] = 0
    BY TotalAssumption DEF Init
  <2> QED BY <2>2, <2>3 DEF Open
<1>4. Left = Total
  BY <1>3, TotalAssumption DEF Left
<1>5. applied = [l \in Links |-> 0]
  BY DEF Init
<1> QED BY <1>2, <1>4, <1>5 DEF Promise!Init

\* What the customer of a link has paid changes only with what Stripe says.
LEMMA PaidStaysFor ==
  ASSUME Sound, [Next]_vars, NEW l \in Links,
         session[l].state = "paid" <=> session'[l].state = "paid",
         session[l].state = "paid" => session'[l].amount = session[l].amount
  PROVE  Paid'[l] = Paid[l]
<1>1. CASE session[l].state # "paid"
  BY <1>1 DEF Paid
<1>2. CASE session[l].state = "paid"
  <2>1. \A w \in Workers, m \in Links : CreateLink(w, m) => m # l
    BY <1>2 DEF CreateLink, StripeCreates, NoSession
  <2>2. HasRow(l)' <=> HasRow(l)
    BY <2>1, NoNewRow, RowsGrow DEF Sound, MemoryInv, Grows, HasRow
  <2> QED BY <1>2, <2>2 DEF Paid, Charged
<1> QED BY <1>1, <1>2

LEMMA PaidStays ==
  ASSUME Sound, [Next]_vars, \A l \in Links : ~Pay(l) /\ ~FinishDelayed(l)
  PROVE  Paid' = Paid
<1>1. ASSUME NEW l \in Links
      PROVE  Paid'[l] = Paid[l]
  <2>1. CASE session' = session
    BY <2>1, PaidStaysFor
  <2>2. ASSUME NEW w \in Workers, NEW m \in Links, CreateLink(w, m) \/ LoseLink(w, m)
        PROVE  Paid'[l] = Paid[l]
    <3>1. /\ session[m].state # "paid"
          /\ session'[m].state # "paid"
          /\ l # m => session'[l] = session[l]
      BY <2>2 DEF CreateLink, LoseLink, StripeCreates, NoSession, Sound, StripeInv, StripeTypeOK
    <3> QED BY <3>1, PaidStaysFor
  <2>3. ASSUME NEW m \in Links, Lapse(m)
        PROVE  Paid'[l] = Paid[l]
    <3>1. session[m] \in Session
      BY <2>3 DEF Lapse, Sound, StripeInv, StripeTypeOK
    <3>2. session'[l] = IF l = m THEN [session[l] EXCEPT !.lapsed = TRUE] ELSE session[l]
      BY <2>3 DEF Lapse, Sound, StripeInv, StripeTypeOK
    <3>3. session'[l].state = session[l].state /\ session'[l].amount = session[l].amount
      BY <3>1, <3>2 DEF Session
    <3> QED BY <3>3, PaidStaysFor
  <2>4. ASSUME \/ \E m \in Links : UnapplyReceipt(m)
               \/ \E k \in keys : ForgetKey(k)
               \/ \E i \in Invoices : SettleElsewhere(i)
               \/ UNCHANGED vars
        PROVE  session' = session
    BY <2>4 DEF UnapplyReceipt, ForgetKey, SettleElsewhere, stripeVars, vars
  <2> QED BY <2>1, <2>2, <2>3, <2>4, RequestsSpareSessions DEF Next
<1>2. DOMAIN Paid' = Links /\ DOMAIN Paid = Links
  BY DEF Paid
<1> QED BY <1>1, <1>2 DEF Paid, Charged

LEMMA BookedStaysFor ==
  ASSUME Sound, [Next]_vars, NEW l \in Links, receipts'[l] = receipts[l]
  PROVE  Booked'[l] = Booked[l]
<1>1. CASE HasRow(l)
  <2>1. HasRow(l)' /\ row'[l].amount = row[l].amount
    BY <1>1, RowsGrow DEF Sound, MemoryInv, Grows, HasRow
  <2> QED BY <1>1, <2>1 DEF Booked
<1>2. CASE ~HasRow(l)
  <2>1. receipts[l] \in Nat /\ receipts[l] <= 1 /\ receipts[l] # 1
    BY <1>2 DEF Sound, StripeInv, StripeTypeOK, OneReceiptPerSession
  <2>2. receipts[l] = 0
    BY <2>1
  <2>3. StripeInv'
    BY StripeNext DEF Sound
  <2>4. HasRow(l)' => row'[l].amount \in Nat
    BY <2>3 DEF StripeInv, StripeTypeOK, HasRow, Checkout, Money
  <2>5. HasRow(l)' => receipts'[l] * row'[l].amount = 0
    BY <2>2, <2>4
  <2> QED BY <1>2, <2>5 DEF Booked
<1> QED BY <1>1, <1>2

LEMMA BookedStays ==
  ASSUME Sound, [Next]_vars, receipts' = receipts
  PROVE  Booked' = Booked
BY BookedStaysFor DEF Booked

\* Two functions that agree on what is owed.
LEMMA LeftIs ==
  ASSUME \A i \in Invoices : Open(i)' = Open(i)
  PROVE  Left' = Left
BY DEF Left

\* A step nobody sees in the books.
LEMMA Unseen ==
  ASSUME Sound, [Next]_vars, UNCHANGED booksVars,
         \A l \in Links : ~Pay(l) /\ ~FinishDelayed(l)
  PROVE  UNCHANGED <<Paid, Booked, applied, Left>>
<1>1. receipts' = receipts /\ applied' = applied /\ elsewhere' = elsewhere
  BY DEF booksVars
<1>2. \A i \in Invoices : Open(i)' = Open(i)
  <2>1. CASE \A w \in Workers, l \in Links : ~CreateLink(w, l)
    BY <1>1, <2>1, LinksStay, OpenStays DEF Sound
  <2>2. CASE \E w \in Workers, l \in Links : CreateLink(w, l)
    BY <2>2, CreateLinkKeepsOpen DEF Sound
  <2> QED BY <2>1, <2>2
<1> QED BY <1>1, <1>2, PaidStays, BookedStays, LeftIs

\* The customer pays, or a payment that took its time comes in.
LEMMA PaymentIsTaken ==
  ASSUME Sound, [Next]_vars, NEW m \in Links, Pay(m) \/ FinishDelayed(m)
  PROVE  Promise!Take(m) \/ UNCHANGED <<Paid, Booked, applied, Left>>
<1>1. row' = row /\ UNCHANGED booksVars
  BY DEF Pay, FinishDelayed
<1>2. Booked' = Booked /\ applied' = applied
  BY <1>1, BookedStays DEF booksVars
<1>3. Left' = Left
  <2>1. \A i : LinksOf(i)' = LinksOf(i)
    BY <1>1 DEF LinksOf, HasRow
  <2> QED BY <1>1, <2>1, OpenStays, LeftIs DEF booksVars
<1>4. /\ session[m] # NoSession /\ session[m].state # "paid"
      /\ session'[m].amount = session[m].amount
      /\ \A l \in Links : l # m => session'[l] = session[l]
  BY SessionMovesOn DEF Pay, FinishDelayed, Sound
<1>5. \A l \in Links : l # m => Paid'[l] = Paid[l]
  BY <1>4, PaidStaysFor
<1>6. Paid[m] = 0
  BY <1>4 DEF Paid
<1>7. CASE Paid'[m] = 0
  BY <1>2, <1>3, <1>5, <1>6, <1>7 DEF Paid
<1>8. CASE Paid'[m] # 0
  <2> DEFINE owed == session[m].asked
             n == session[m].amount
             i == session[m].invoice
  <2>1. Paid'[m] = n * Minor /\ HasRow(m)
    BY <1>1, <1>4, <1>8 DEF Paid, Charged, HasRow
  <2>2. session[m] \in Session
    BY <1>4 DEF Sound, StripeInv, StripeTypeOK
  <2>3. i \in Invoices /\ owed \in Money /\ n \in Nat
    BY <2>2 DEF Session
  <2>4. owed \in 1 .. Total[i]
    BY <1>4, <2>3, TotalAssumption DEF Sound, BooksInv, FitsInvoice, Money
  <2>5. n <= owed /\ Near(owed, n * Minor)
    BY <2>1, <2>3, Rounds DEF Sound, StripeInv, SessionsKnown
  <2>6. n # 0
    BY <1>8, <2>1, <2>3, MinorAssumption
  <2>7. n \in 1 .. Total[i]
    BY <2>3, <2>4, <2>5, <2>6, TotalAssumption
  <2>8. Paid' = [Paid EXCEPT ![m] = n * Minor]
    BY <1>5, <2>1 DEF Paid
  <2>9. Promise!Near(owed, n * Minor)
    BY <2>5 DEF Near, Promise!Near
  <2> HIDE DEF owed, n, i
  <2> QED BY <1>2, <1>3, <1>6, <2>3, <2>4, <2>7, <2>8, <2>9 DEF Promise!Take
<1> QED BY <1>7, <1>8

\* The transaction that posts and applies a receipt.
LEMMA ReceiptIsBooked ==
  ASSUME Sound, [Next]_vars, NEW w \in Workers, CommitReceipt(w)
  PROVE  \E l \in Links : Promise!Book(l)
<1>1. PICK l \in Links : l = worker[w].link /\ HasRow(l) /\ worker[w] \in Settling
  BY SettlersRow, SettlingAt DEF CommitReceipt, Settles, Sound, StripeInv
<1> DEFINE take == worker[w].take
           i == row[l].invoice
<1>2. take \in Nat
  BY <1>1, SettlingFields
<1>3. /\ row[l].status = "PAID" /\ ~row[l].receipt
      /\ row[l] \in Checkout /\ receipts[l] = 0
  BY <1>1, Counted DEF CommitReceipt, Sound, StripeInv, PostersHoldRows
<1>4. applied[l] = 0
  BY <1>3 DEF Sound, BooksInv
<1>5. /\ session[l].state = "paid" /\ session[l] # NoSession
      /\ session[l].amount = to_minor(row[l].amount)
  BY <1>1, <1>3 DEF Sound, StripeInv, PaidIsPaid, SessionsKnown
<1>6. row[l].amount \in Money /\ i \in Invoices
  BY <1>3 DEF Checkout
<1>7. /\ Paid[l] = session[l].amount * Minor /\ Paid[l] \in Nat /\ Paid[l] > 0
      /\ Near(row[l].amount, Paid[l])
  <2>1. Paid[l] = session[l].amount * Minor
    BY <1>1, <1>5 DEF Paid, Charged
  <2>2. session[l].amount \in Nat /\ session[l].amount > 0
    BY <1>5, <1>6, Rounds DEF Sound, BooksInv, FitsInvoice, Under
  <2>3. session[l].amount * Minor \in Nat /\ session[l].amount * Minor > 0
    BY <2>2, MinorAssumption
  <2> QED BY <1>5, <1>6, <2>1, <2>3, Rounds
<1>8. Booked[l] = 0
  BY <1>1, <1>3, <1>6 DEF Booked, Money
<1>9. /\ receipts' = [receipts EXCEPT ![l] = 1]
      /\ applied' = [applied EXCEPT ![l] = take]
      /\ elsewhere' = elsewhere
  <2>1. receipts' = [receipts EXCEPT ![l] = receipts[l] + 1]
        /\ applied' = [applied EXCEPT ![l] = applied[l] + take]
    BY <1>1 DEF CommitReceipt
  <2>2. receipts[l] + 1 = 1 /\ applied[l] + take = take
    BY <1>2, <1>3, <1>4
  <2> HIDE DEF take
  <2> QED BY <2>1, <2>2 DEF CommitReceipt
<1>10. session' = session
  BY DEF CommitReceipt, End
<1>11. Paid' = Paid
  BY <1>10, PaidStaysFor DEF Paid
<1>12. Booked' = [Booked EXCEPT ![l] = row[l].amount]
  <2>1. \A m \in Links : m # l => Booked'[m] = Booked[m]
    BY <1>9, BookedStaysFor DEF Sound, StripeInv, StripeTypeOK
  <2>2. row'[l] # NoRow /\ row'[l].amount = row[l].amount
    BY <1>1, RowsGrow DEF Sound, MemoryInv, Grows
  <2>3. Booked'[l] = row[l].amount
    <3>1. receipts'[l] = 1
      BY <1>9 DEF Sound, StripeInv, StripeTypeOK
    <3>2. 1 * row[l].amount = row[l].amount
      BY <1>6 DEF Money
    <3> QED BY <2>2, <3>1, <3>2 DEF Booked, HasRow
  <2> QED BY <2>1, <2>3 DEF Booked
<1>13. \A w2 \in Workers, m \in Links : ~CreateLink(w2, m)
  BY <1>10 DEF CreateLink, StripeCreates, NoSession, Sound, StripeInv, StripeTypeOK
<1>14. \A j \in Invoices : Open(j)' = IF j = i THEN Open(j) + applied[l] - take ELSE Open(j)
  BY <1>1, <1>2, <1>9, <1>13, LinksStay, OpenMoves DEF Sound
<1>15. \A j \in Invoices : Open(j) \in Int
  BY OpenType DEF Sound, StripeInv
<1>16. Left' = [Left EXCEPT ![i] = Left[i] - take]
  <2> HIDE DEF i, take
  <2>1. \A j \in Invoices : Open(j)' = IF j = i THEN Open(j) - take ELSE Open(j)
    BY <1>2, <1>4, <1>14, <1>15
  <2> QED BY <1>6, <2>1 DEF Left
<1>17. take \in 0 .. row[l].amount /\ take <= Left[i]
  <2>1. take <= row[l].amount
    BY <1>1 DEF CommitReceipt, Sound, BooksInv, FitsBooks
  <2>2. take <= Open(i)
    BY <1>1 DEF CommitReceipt, StillOpen
  <2> QED BY <1>2, <1>6, <2>1, <2>2 DEF Left, Money
<1>18. row[l].amount \in 1 .. Paid[l] + Minor /\ Promise!Near(row[l].amount, Paid[l])
  BY <1>6, <1>7, MinorAssumption DEF Money, Near, Promise!Near
<1> HIDE DEF i, take
<1> QED BY <1>6, <1>7, <1>8, <1>9, <1>11, <1>12, <1>16, <1>17, <1>18 DEF Promise!Book

LEMMA ReceiptIsUnapplied ==
  ASSUME Sound, [Next]_vars, NEW l \in Links, UnapplyReceipt(l)
  PROVE  Promise!Unapply(l)
<1>1. receipts[l] # 0 /\ applied[l] \in Nat /\ applied[l] > 0
  BY DEF UnapplyReceipt, Sound, BooksInv, StripeInv, StripeTypeOK
<1>2. HasRow(l)
  <2>1. receipts[l] = 1
    BY <1>1 DEF Sound, StripeInv, OneReceiptPerSession, StripeTypeOK
  <2> QED BY <2>1 DEF Sound, StripeInv, OneReceiptPerSession
<1>3. /\ row' = row /\ session' = session /\ receipts' = receipts /\ elsewhere' = elsewhere
      /\ applied' = [applied EXCEPT ![l] = 0]
  BY DEF UnapplyReceipt, stripeVars
<1>4. Paid' = Paid /\ Booked' = Booked
  BY <1>3, PaidStaysFor, BookedStays DEF Paid
<1>5. \A j : LinksOf(j)' = LinksOf(j)
  BY <1>3 DEF LinksOf, HasRow
<1> DEFINE i == row[l].invoice
<1>6. i \in Invoices
  BY <1>2, Counted DEF Sound, Checkout
<1>7. \A j \in Invoices : Open(j)' = IF j = i THEN Open(j) + applied[l] - 0 ELSE Open(j)
  BY <1>2, <1>3, <1>5, OpenMoves DEF Sound
<1>8. \A j \in Invoices : Open(j) \in Int
  BY OpenType DEF Sound, StripeInv
<1> HIDE DEF i
<1>9. Left' = [Left EXCEPT ![i] = Left[i] + applied[l]]
  <2>1. \A j \in Invoices : Open(j)' = IF j = i THEN Open(j) + applied[l] ELSE Open(j)
    BY <1>1, <1>7, <1>8
  <2> QED BY <1>6, <2>1 DEF Left
<1> QED BY <1>1, <1>3, <1>4, <1>6, <1>9 DEF Promise!Unapply

LEMMA OthersSettle ==
  ASSUME Sound, [Next]_vars, NEW i \in Invoices, SettleElsewhere(i)
  PROVE  Promise!MoveElsewhere(i)
<1>1. PICK x \in 0 .. Total[i] :
        /\ x - elsewhere[i] <= Open(i)
        /\ elsewhere' = [elsewhere EXCEPT ![i] = x]
  BY DEF SettleElsewhere
<1>2. row' = row /\ session' = session /\ receipts' = receipts /\ applied' = applied
  BY DEF SettleElsewhere, stripeVars
<1>3. Paid' = Paid /\ Booked' = Booked
  BY <1>2, PaidStaysFor, BookedStays DEF Paid
<1>4. \A j : LinksOf(j)' = LinksOf(j)
  BY <1>2 DEF LinksOf, HasRow
<1>5. elsewhere \in [Invoices -> Nat] /\ Total[i] \in Nat
  BY TotalAssumption DEF Sound, StripeInv, StripeTypeOK
<1>6. \A j \in Invoices : j # i => Open(j)' = Open(j)
  BY <1>1, <1>2, <1>4, <1>5, OpenStays
<1> DEFINE s == SumFunctionOnSet(applied, LinksOf(i))
<1>7. s \in Nat
  BY LinksAreFinite, SumNat DEF LinksFinite, Sound, StripeInv
<1>8. Open(i) = Total[i] - elsewhere[i] - s
  BY DEF Open
<1>9. Open(i)' = Total[i] - x - s
  BY <1>1, <1>2, <1>4, <1>5 DEF Open
<1> HIDE DEF s
<1>10. Total[i] - x - s \in 0 .. Total[i]
  <2>1. elsewhere[i] \in Nat
    BY <1>5
  <2> QED BY <1>1, <1>5, <1>7, <1>8, <2>1
<1>11. Left' = [Left EXCEPT ![i] = Total[i] - x - s]
  BY <1>6, <1>9 DEF Left
<1> QED BY <1>2, <1>3, <1>10, <1>11 DEF Promise!MoveElsewhere

LEMMA RefineStep == Sound /\ [Next]_vars => [Promise!Next]_<<Paid, Booked, applied, Left>>
<1> SUFFICES ASSUME Sound, [Next]_vars
             PROVE  [Promise!Next]_<<Paid, Booked, applied, Left>>
  OBVIOUS
<1>1. ASSUME NEW m \in Links, Pay(m) \/ FinishDelayed(m)
      PROVE  [Promise!Next]_<<Paid, Booked, applied, Left>>
  BY <1>1, PaymentIsTaken DEF Promise!Next
<1>2. ASSUME NEW w \in Workers, CommitReceipt(w)
      PROVE  [Promise!Next]_<<Paid, Booked, applied, Left>>
  BY <1>2, ReceiptIsBooked DEF Promise!Next
<1>3. ASSUME NEW l \in Links, UnapplyReceipt(l)
      PROVE  [Promise!Next]_<<Paid, Booked, applied, Left>>
  BY <1>3, ReceiptIsUnapplied DEF Promise!Next
<1>4. ASSUME NEW i \in Invoices, SettleElsewhere(i)
      PROVE  [Promise!Next]_<<Paid, Booked, applied, Left>>
  BY <1>4, OthersSettle DEF Promise!Next
<1>5. CASE UNCHANGED booksVars /\ \A l \in Links : ~Pay(l) /\ ~FinishDelayed(l)
  BY <1>5, Unseen
<1>6. CASE /\ \A w \in Workers : ~CommitReceipt(w)
           /\ \A l \in Links : ~UnapplyReceipt(l) /\ ~Pay(l) /\ ~FinishDelayed(l)
           /\ \A i \in Invoices : ~SettleElsewhere(i)
  <2>1. UNCHANGED booksVars
    BY <1>6, OthersLeaveBooks
  <2> QED BY <1>5, <1>6, <2>1
<1> QED BY <1>1, <1>2, <1>3, <1>4, <1>6

\* Card payments of any number of invoices, links and requests: behind the rows,
\* locks, deliveries and retries customers pay, each payment is booked at most
\* once, to within half the smallest unit Stripe charges in, what of it is
\* applied never exceeds what its invoice owes, and only un-applying or other
\* money gives that back.
THEOREM CheckoutImplementsCardReceipts == Spec => ImplementsCardReceipts
BY SoundAlways, RefineInit, RefineStep, PTL
   DEF Spec, ImplementsCardReceipts, Promise!Spec, Promise!cardVars
=============================================================================
