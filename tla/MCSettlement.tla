---------------------------- MODULE MCSettlement ----------------------------
(***************************************************************************)
(* A small instance of Settlement for TLC: customer A with a receipt p1,   *)
(* two invoices t1 and t2 and a credit note c1; vendor B with a voucher p2,*)
(* a bill t3, which two calls may post together, and a debit note c2.      *)
(***************************************************************************)
EXTENDS Settlement, TLC

CONSTANTS p1, p2, t1, t2, t3, c1, c2, b1, b2

Everyone == Payments \cup Documents
Vendors == {p2, t3, c2}

BothSides == [x \in Everyone |-> IF x \in Vendors THEN "VENDOR" ELSE "CUSTOMER"]
TwoParties == [x \in Everyone |-> IF x \in Vendors THEN "B" ELSE "A"]
\* The receipt, the second invoice and the rest at different whole rates.
WholeRates == [x \in Everyone |-> IF x \in {p1, p2} THEN 3 ELSE IF x = t2 THEN 2 ELSE 1]
Totals == [d \in Documents |-> IF d = t1 THEN 3 ELSE 2]
TwoOnBills == [d \in Documents |-> IF d = t3 THEN 2 ELSE 1]

\* Two invoices and their credit note, or documents of both parties.
SomePlans == {{t1, t2, c1}, {t2, t3, c2}, {t1, t3, c1}}

SymmetricKeys == Permutations(Batches)
=============================================================================
