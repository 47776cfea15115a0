------------------------------ MODULE Pricing ------------------------------
(***************************************************************************)
(* The arithmetic of priced documents: line amounts, the header discount   *)
(* spread over the lines, totals, and their values in base currency        *)
(* (calculate_line ... calculate_totals in apps/sales/services.py,         *)
(* _recalculate_line and _recalculate_document in                          *)
(* apps/purchases/services.py).  Amounts are whole numbers of the 0.0001   *)
(* quantum, percentages whole; quantities are whole, so a gross amount is  *)
(* exact.  The lines of an order or a purchase are a sequence; a document  *)
(* made from it keeps them where they were there.                          *)
(***************************************************************************)
EXTENDS Integers, Sequences, FiniteSets, Functions

CONSTANTS
  RateScale,  \* an exchange rate is a whole number over RateScale
  Tolerance   \* Company.rounding_tolerance

ASSUME PricingAssumption == RateScale \in Nat \ {0} /\ Tolerance \in Nat

Cent == 100
Hundred == 100

\* n/d to a whole number, ROUND_HALF_UP: ties go away from zero.
Nearest(n, d) ==
  IF n >= 0 THEN (2 * n + d) \div (2 * d) ELSE -((d - 2 * n) \div (2 * d))

Total(s) == SumFunctionOnSet(s, DOMAIN s)
Column(rows, F(_)) == Total([i \in DOMAIN rows |-> F(rows[i])])

-----------------------------------------------------------------------------
(* Lines.  A line is what a user enters; amounts are what is derived.      *)

Gross(line) == line.quantity * line.price
LineDiscount(line) == Nearest(Gross(line) * line.off, Hundred)

TaxableBase(line, net) ==
  IF line.inclusive /\ line.tax > 0
  THEN Nearest(net * Hundred, Hundred + line.tax) ELSE net

Amounts(line, share, net) ==
  LET base == TaxableBase(line, net)
      tax == Nearest(base * line.tax, Hundred)
  IN  [gross |-> Gross(line), off |-> LineDiscount(line), share |-> share,
       net |-> net, base |-> base, tax |-> tax]

\* Sales never lets a line fall below zero; purchasing subtracts and no more.
SalesLineUnclamped(line, share) ==
  Amounts(line, share, Gross(line) - LineDiscount(line) - share)
SalesLine(line, share) ==
  LET net == Gross(line) - LineDiscount(line) - share
  IN  Amounts(line, share, IF net < 0 THEN 0 ELSE net)
PurchaseLine(line, share) ==
  Amounts(line, share, Gross(line) - LineDiscount(line) - share)

-----------------------------------------------------------------------------
(* The header discount.                                                    *)

\* Each line bears its part by weight, rounded; the last bears what is left.
AllocateRounded(discount, weights) ==
  [i \in DOMAIN weights |->
     IF Total(weights) > 0 THEN Nearest(discount * weights[i], Total(weights)) ELSE 0]
Allocate(discount, weights) ==
  LET Share(i) == IF Total(weights) > 0 THEN Nearest(discount * weights[i], Total(weights)) ELSE 0
      last == Len(weights)
  IN  [i \in DOMAIN weights |->
         IF i < last THEN Share(i)
         ELSE discount - Total([j \in 1 .. last - 1 |-> Share(j)])]

Discount(header, whole) ==
  CASE header.kind = "PERCENT" -> Nearest(whole * header.value, Hundred)
    [] header.kind = "AMOUNT"  -> header.value
    [] OTHER                   -> 0

\* Sales: of the gross, and however large it is; a negative one, or one of
\* nothing, is none, and no line bears any of it.
SalesDiscount(header, whole) ==
  LET discount == Discount(header, whole)
  IN  IF whole > 0 /\ discount > 0 THEN discount ELSE 0
SalesAmounts(lines, header) ==
  LET weights == [i \in DOMAIN lines |-> Gross(lines[i])]
      discount == SalesDiscount(header, Total(weights))
      shares == IF discount = 0 THEN [i \in DOMAIN lines |-> 0] ELSE Allocate(discount, weights)
  IN  [i \in DOMAIN lines |-> SalesLine(lines[i], shares[i])]

\* Purchasing: of what the line discounts leave, and no more than that.
BillDiscount(lines, header) ==
  LET whole == Column(lines, LAMBDA l : Gross(l) - LineDiscount(l))
      discount == Discount(header, whole)
  IN  IF discount < whole THEN discount ELSE whole
PurchaseAmounts(lines, header) ==
  LET weights == [i \in DOMAIN lines |-> Gross(lines[i]) - LineDiscount(lines[i])]
      shares == Allocate(BillDiscount(lines, header), weights)
  IN  [i \in DOMAIN lines |-> PurchaseLine(lines[i], shares[i])]

-----------------------------------------------------------------------------
(* Totals.                                                                 *)

InBase(x, rate) == Nearest(x * rate, RateScale)

Header(amounts, discount, rounding, rate) ==
  LET base == Column(amounts, LAMBDA a : a.base)
      tax == Column(amounts, LAMBDA a : a.tax)
  IN  [subtotal |-> Column(amounts, LAMBDA a : a.gross),
       off |-> Column(amounts, LAMBDA a : a.off),
       discount |-> discount,
       base |-> base, tax |-> tax, rounding |-> rounding,
       total |-> base + tax + rounding, rate |-> rate]

\* calculate_totals: to the cent, within the company's tolerance.
RoundingOf(raw) ==
  LET rounding == Nearest(raw, Cent) * Cent - raw
  IN  IF rounding \in -Tolerance .. Tolerance THEN rounding ELSE 0
SalesTotals(amounts, rate) ==
  Header(amounts, Column(amounts, LAMBDA a : a.share),
         RoundingOf(Column(amounts, LAMBDA a : a.base + a.tax)), rate)

\* _recalculate_document: no rounding; the discount that was to be spread.
PurchaseTotals(amounts, discount, rate) == Header(amounts, discount, 0, rate)
=============================================================================
