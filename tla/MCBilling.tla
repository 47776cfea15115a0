----------------------------- MODULE MCBilling -----------------------------
(***************************************************************************)
(* Lines that divide badly: two units at 1.00, two at 0.3333 less ten      *)
(* percent with tax, one at 0.99 with tax inside, one that is free, and    *)
(* one with a discount below zero.                                         *)
(***************************************************************************)
EXTENDS Billing, SequencesExt, TLC

CONSTANTS n1, n2

SymmetricNotes == Permutations(Reversals)

Line(quantity, price, off, tax, inclusive) ==
  [quantity |-> quantity, price |-> price, off |-> off, tax |-> tax, inclusive |-> inclusive]
PlainLine == Line(2, 10000, 0, 0, FALSE)
TaxedLine == Line(2, 3333, 10, 14, FALSE)
InclusiveLine == Line(1, 9900, 0, 14, TRUE)
FreeLine == Line(1, 0, 0, 0, FALSE)
SomeForms ==
  (SeqOf({PlainLine, TaxedLine, InclusiveLine, FreeLine}, 2) \ {<<>>})
    \cup {<<PlainLine, PlainLine, TaxedLine>>, <<PlainLine, PlainLine, FreeLine>>,
          <<PlainLine, PlainLine, PlainLine, FreeLine>>,
          <<TaxedLine, InclusiveLine, FreeLine>>,
          <<Line(1, 3333, -5, 14, FALSE), FreeLine>>}

SomeHeaders == {NoDiscount, [kind |-> "PERCENT", value |-> 15],
                [kind |-> "AMOUNT", value |-> 10000], [kind |-> "AMOUNT", value |-> 9999],
                [kind |-> "AMOUNT", value |-> -100]}
=============================================================================
