---------------------------- MODULE CardReceipts ----------------------------
(***************************************************************************)
(* What the card payments of a set of invoices promise, without rows,      *)
(* locks, deliveries or retries: a customer pays a link once, the money is *)
(* booked at most once, to within half the smallest unit Stripe charges    *)
(* in, as much of it as the invoice owes is applied, and the invoice is    *)
(* never settled past its total.                                           *)
(***************************************************************************)
EXTENDS Integers

CONSTANTS Invoices, Links, Total, Minor

VARIABLES
  paid,     \* what the customer of each link has paid
  booked,   \* what of it the ledger holds as a receipt
  applied,  \* what of that is applied to the invoice
  left      \* what each invoice still owes

cardVars == <<paid, booked, applied, left>>

Init ==
  /\ paid = [l \in Links |-> 0]
  /\ booked = [l \in Links |-> 0]
  /\ applied = [l \in Links |-> 0]
  /\ left = Total

Near(x, y) == 2 * (x - y) <= Minor /\ 2 * (y - x) <= Minor

\* The customer pays what was owed, in whole units of the currency.
Take(l) ==
  /\ paid[l] = 0
  /\ \E i \in Invoices : \E owed, n \in 1 .. Total[i] :
       /\ Near(owed, n * Minor)
       /\ paid' = [paid EXCEPT ![l] = n * Minor]
  /\ UNCHANGED <<booked, applied, left>>

\* It becomes a receipt, rounding aside, and some of that settles one invoice.
Book(l) ==
  /\ booked[l] = 0
  /\ paid[l] > 0
  /\ \E b \in 1 .. paid[l] + Minor :
       /\ Near(b, paid[l])
       /\ booked' = [booked EXCEPT ![l] = b]
       /\ \E i \in Invoices : \E x \in 0 .. b :
            /\ x <= left[i]
            /\ applied' = [applied EXCEPT ![l] = x]
            /\ left' = [left EXCEPT ![i] = @ - x]
  /\ UNCHANGED paid

\* What a receipt settled is taken back.
Unapply(l) ==
  /\ applied[l] > 0
  /\ applied' = [applied EXCEPT ![l] = 0]
  /\ \E i \in Invoices : left' = [left EXCEPT ![i] = @ + applied[l]]
  /\ UNCHANGED <<paid, booked>>

\* Other money settles an invoice or is taken back from it.
MoveElsewhere(i) ==
  /\ \E x \in 0 .. Total[i] : left' = [left EXCEPT ![i] = x]
  /\ UNCHANGED <<paid, booked, applied>>

Next ==
  \/ \E l \in Links : Take(l) \/ Book(l) \/ Unapply(l)
  \/ \E i \in Invoices : MoveElsewhere(i)

Spec == Init /\ [][Next]_cardVars
=============================================================================
