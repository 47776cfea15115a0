------------------------------- MODULE MCEntry -------------------------------
(* What two clerks may type: around every bound of the forms and the tables. *)
EXTENDS Entry, TLC

CONSTANTS ann, bob
TwoClerks == {ann, bob}
EitherClerk == Permutations(TwoClerks)

Blank == {{}}
OneOf(S) == {{x} : x \in S}
Seqs(S, n) == UNION {[1 .. k -> S] : k \in 0 .. n}
Filled(forms, heads, lines) == [form : forms, head : heads, lines : lines]

Discounts == Blank \cup OneOf({-50, 0, 100, 150})
Priced == [quantity : {0, 1, 3}, price : {-1, 0, 1, 2}, discount : Discounts]
Reductions == {[kind |-> "NONE", value |-> 0]}
              \cup [kind : {"AMOUNT"}, value : {-1, 2, 5}]
              \cup [kind : {"PERCENT"}, value : {-1, 50, 150}]
BillHeads == [kind : {"NONE"}, value : {0}, number : Blank \cup OneOf({1, 2}), due : BOOLEAN]
             \cup [kind : {"AMOUNT"}, value : {-1, 2, 5}, number : {{1}}, due : {TRUE}]
             \cup [kind : {"PERCENT"}, value : {-1, 50, 150}, number : {{1}}, due : {TRUE}]
BillLines == [quantity : {0, 3}, price : {-1, 0, 1, 2}, discount : Discounts,
              stock : {TRUE}, product : {TRUE}, account : {FALSE}]
             \cup [quantity : {3}, price : {1}, discount : Blank,
                   stock : BOOLEAN, product : BOOLEAN, account : BOOLEAN]
NoteLines == [quantity : {0, 1, 3}, price : {-1, 0, 1}, discount : {{}, {150}},
              stock : {FALSE}, product : {FALSE}, ofBill : {TRUE}]
             \cup [quantity : {1}, price : {1}, discount : Blank,
                   stock : BOOLEAN, product : BOOLEAN, ofBill : {TRUE}]
AdjustmentLines ==
  {l \in [stored : BOOLEAN, touched : BOOLEAN, product : BOOLEAN,
          delta : Blank \cup OneOf({-3, -1, 0, 2}), cost : Blank \cup OneOf({-1, 1})] :
     l.stored \/ l.touched \/ IsBlank(l)}
Reasoned == [reason : BOOLEAN]
Picks == [text : {"number"}, tenths : {-10, 0, 3, 8, 20, 24}]
         \cup [text : {"blank", "junk", "NaN"}, tenths : {0}]

\* Plain bills of one vendor, whose numbers may be the same.
SameVendor ==
  Filled({"BILL"}, [kind : {"NONE"}, value : {0}, number : OneOf({1, 2}), due : {TRUE}],
         {<<l>> : l \in {k \in BillLines : k.discount = {} /\ k.stock}})

MCRequests ==
  Filled({"PURCHASE_ORDER", "SALES_ORDER"}, Reductions, Seqs(Priced, 1))
  \cup Filled({"BILL"}, BillHeads, Seqs(BillLines, 1))
  \cup Filled({"DEBIT_NOTE"}, Reasoned, Seqs(NoteLines, 2))
  \cup Filled({"RETURN"}, [reason : BOOLEAN, source : BOOLEAN], Seqs([quantity : {0, 1, 3, 4}], 1))
  \cup Filled({"RECEIPT"}, {<<>>},
             Seqs([received : {0, 2}, rejected : Blank \cup OneOf({-1, 0, 2, 3})], 2))
  \cup Filled({"TRANSFER"}, [same : BOOLEAN], Seqs([quantity : {0, 1, 3}], 2))
  \cup Filled({"ADJUSTMENT"}, {<<>>}, Seqs(AdjustmentLines, 1))
  \cup Filled({"ADJUSTMENT"}, {<<>>},
             [1 .. 2 -> {l \in AdjustmentLines : l.touched /\ ~l.stored /\ l.cost = {}}])
  \cup Filled({"PAYMENT"},
             [direction : {"RECEIPT", "PAYMENT"}, customer : BOOLEAN, vendor : BOOLEAN,
              amount : {-1, 0, 1, 2, 4}, fee : Blank \cup OneOf({-1, 0, 1, 2}),
              needsReference : {TRUE}, reference : BOOLEAN,
              account : {FALSE}, defaultAccount : BOOLEAN], {<<>>})
  \cup Filled({"ALLOCATION"}, {<<>>},
             Seqs([target : {"a", "b"}, amount : Blank \cup OneOf({0, 1})], 2))
  \cup Filled({"INVOICE", "DELIVERY"}, {[reason |-> TRUE]}, Seqs(Picks, 2))
  \cup Filled({"CREDIT_NOTE", "SALES_RETURN"}, Reasoned, Seqs(Picks, 2))
=============================================================================
