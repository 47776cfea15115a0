----------------------------- MODULE OpenItems -----------------------------
(***************************************************************************)
(* What open-item settlement promises, without rows, statuses, batches,    *)
(* journals or retries: money comes in, debts arise, money is applied to   *)
(* debts and taken back, and money nothing depends on may be voided.  No   *)
(* amount is ever applied twice and no debt is ever settled beyond what is *)
(* owed.                                                                   *)
(***************************************************************************)
EXTENDS Integers, Functions

CONSTANTS Sources,  \* payments and credits
          Debts,    \* invoices and bills
          Amounts   \* what one source may bring, or one debt may owe

VARIABLES
  funds,    \* what each source has brought
  void,     \* the sources that were withdrawn for good
  owed,     \* what each debt came to
  applied   \* how much of each source is applied to each debt

itemVars == <<funds, void, owed, applied>>

Spread(s) == SumFunctionOnSet(applied[s], Debts)
Settled(t) == SumFunctionOnSet([s \in Sources |-> applied[s][t]], Sources)

Init ==
  /\ funds = [s \in Sources |-> 0]
  /\ void = {}
  /\ owed = [t \in Debts |-> 0]
  /\ applied = [s \in Sources |-> [t \in Debts |-> 0]]

\* Money or credit becomes available, once.
Receive(s) ==
  /\ funds[s] = 0
  /\ s \notin void
  /\ \E x \in Amounts : funds' = [funds EXCEPT ![s] = x]
  /\ UNCHANGED <<void, owed, applied>>

\* A debt arises, once.
Bill(t) ==
  /\ owed[t] = 0
  /\ \E x \in Amounts : owed' = [owed EXCEPT ![t] = x]
  /\ UNCHANGED <<funds, void, applied>>

\* One source is applied to some debts, within what it has left and within
\* what each of them still owes.
Added(s) == [t \in Debts |-> applied'[s][t] - applied[s][t]]
Apply(s) ==
  LET lines == Added(s)
  IN  /\ UNCHANGED <<funds, void, owed>>
      /\ s \notin void
      /\ applied' = [applied EXCEPT ![s] = [t \in Debts |-> @[t] + lines[t]]]
      /\ \A t \in Debts : lines[t] \in 0 .. owed[t] - Settled(t)
      /\ SumFunctionOnSet(lines, Debts) \in 1 .. (funds[s] - Spread(s))

\* Some of what a source settled is taken back, in one step for all its debts.
Unapply(s) ==
  LET lines == Added(s)
  IN  /\ UNCHANGED <<funds, void, owed>>
      /\ applied' = [applied EXCEPT ![s] = [t \in Debts |-> @[t] + lines[t]]]
      /\ \A t \in Debts : lines[t] \in -applied[s][t] .. 0
      /\ \E t \in Debts : lines[t] < 0

\* Money nothing depends on is withdrawn, for good.
Void(s) ==
  /\ funds[s] > 0
  /\ Spread(s) = 0
  /\ funds' = [funds EXCEPT ![s] = 0]
  /\ void' = void \cup {s}
  /\ UNCHANGED <<owed, applied>>

Next ==
  \/ \E s \in Sources : Receive(s) \/ Apply(s) \/ Unapply(s) \/ Void(s)
  \/ \E t \in Debts : Bill(t)

Spec == Init /\ [][Next]_itemVars
=============================================================================
