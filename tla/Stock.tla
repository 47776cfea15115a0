-------------------------------- MODULE Stock --------------------------------
(***************************************************************************)
(* Perpetual inventory of one product (apps/inventory/services.py): a      *)
(* balance per warehouse, costed at the weighted average, the movements    *)
(* that explain it, and the general-ledger accounts they are booked to.    *)
(*                                                                         *)
(* Money is counted in its smallest unit and unit costs in 1/Scale of it,  *)
(* as the code keeps four decimals of money and six of cost.               *)
(***************************************************************************)
EXTENDS Documents

CONSTANTS
  Warehouses,
  Main,           \* the warehouse of every document but transfers
  Account,        \* the inventory account of each warehouse, for transfers and adjustments
  Negative,       \* warehouses that allow negative stock
  Scale,          \* unit costs are in 1/Scale of the smallest money
  Costs,          \* bound: the unit costs entered
  OpeningStock,   \* in Main when the behaviour starts
  OpeningCost

ASSUME StockAssumption ==
  /\ Main \in Warehouses /\ IsFiniteSet(Warehouses)
  /\ Negative \subseteq Warehouses
  /\ Scale \in Nat \ {0}
  /\ Costs \subseteq Nat
  /\ OpeningStock \in Nat
  /\ OpeningCost \in Nat

VARIABLES
  balance,  \* StockBalance rows
  moved,    \* what the StockMovement rows of each warehouse add up to
  gl        \* what the journal lines of each account add up to, debits positive

stockVars == <<balance, moved, gl>>

InventoryAccounts == {"INVENTORY"} \cup {Account[w] : w \in Warehouses}
OtherAccounts == {"GOODS_IN_TRANSIT", "COGS", "ACCOUNTS_PAYABLE", "STOCK_TRANSFER_CLEARING",
                  "INVENTORY_GAIN", "INVENTORY_LOSS"}
Accounts == InventoryAccounts \cup OtherAccounts
ASSUME AccountAssumption == InventoryAccounts \cap OtherAccounts = {}

\* Half up, and away from zero when negative.
Half(a, b) == (2 * a + b) \div (2 * b)
Rounded(a, b) ==
  IF b < 0 THEN (IF a > 0 THEN -Half(a, -b) ELSE Half(-a, -b))
           ELSE (IF a < 0 THEN -Half(-a, b) ELSE Half(a, b))
MoneyOf(q, cost) == Rounded(q * cost, Scale)

\* post_stock_movement: goods come in at a cost and are blended into the
\* average; they leave at the average.  Nothing on hand is worth nothing.
In(b, q, cost) ==
  LET qty == b.qty + q
      value == b.value + MoneyOf(q, cost)
  IN  [qty |-> qty, value |-> value,
       avg |-> IF qty = 0 THEN 0 ELSE Rounded(value * Scale, qty)]
KeepsValueWhenEmpty(b, q) ==
  LET qty == b.qty - q
      value == b.value - MoneyOf(q, b.avg)
  IN  [qty |-> qty, value |-> value, avg |-> b.avg]
Out(b, q) ==
  LET qty == b.qty - q
  IN  IF qty > 0
      THEN [qty |-> qty, value |-> b.value - MoneyOf(q, b.avg), avg |-> b.avg]
      ELSE [qty |-> qty, value |-> 0, avg |-> 0]
AlwaysAvailable(w, q) == TRUE
Available(w, q) == w \in Negative \/ balance[w].qty >= q

\* The rows of the ledger of movements, added up.
NoMoves == [received |-> 0, receivedValue |-> 0, shipped |-> 0, shippedValue |-> 0,
            shipments |-> 0]
AddIn(m, q, cost) ==
  [m EXCEPT !.received = @ + q, !.receivedValue = @ + MoneyOf(q, cost)]
AddOut(m, q, cost) ==
  [m EXCEPT !.shipped = @ + q, !.shippedValue = @ + MoneyOf(q, cost), !.shipments = @ + 1]

\* stock_balance_avg_cost_nonneg
CostIsValid(b) == b.avg >= 0
MoveIn(w, q, cost) ==
  /\ CostIsValid(In(balance[w], q, cost))
  /\ balance' = [balance EXCEPT ![w] = In(@, q, cost)]
  /\ moved' = [moved EXCEPT ![w] = AddIn(@, q, cost)]
MoveOut(w, q) ==
  /\ Available(w, q)
  /\ balance' = [balance EXCEPT ![w] = Out(@, q)]
  /\ moved' = [moved EXCEPT ![w] = AddOut(@, q, balance[w].avg)]

Booked(debit, credit, amount) ==
  [a \in Accounts |-> gl[a] + (IF a = debit THEN amount ELSE 0)
                            - (IF a = credit THEN amount ELSE 0)]

\* The goods there were, received and billed before.
StockInit ==
  LET empty == [qty |-> 0, value |-> 0, avg |-> 0]
      worth == MoneyOf(OpeningStock, OpeningCost)
  IN  /\ balance = [w \in Warehouses |->
           IF w = Main THEN In(empty, OpeningStock, OpeningCost) ELSE empty]
      /\ moved = [w \in Warehouses |->
           IF w = Main THEN AddIn(NoMoves, OpeningStock, OpeningCost) ELSE NoMoves]
      /\ gl = [a \in Accounts |-> CASE a = "INVENTORY" -> worth
                                    [] a = "ACCOUNTS_PAYABLE" -> -worth
                                    [] OTHER -> 0]

-----------------------------------------------------------------------------
(* Transfers.                                                              *)

DraftTransfer(d) ==
  /\ Kind[d] = "ST"
  /\ \E q \in Quantities : Draft(d, NoDoc, q, 0, "")
  /\ UNCHANGED stockVars

\* post_stock_transfer: out of one warehouse and into another at the cost it
\* left with; the ledger is touched only when their accounts differ.
PostTransfer(c, to) ==
  LET d == call[c].doc
      q == doc[d].qty
      cost == balance[Main].avg
      amount == MoneyOf(q, cost)
  IN  /\ Posting(c, "ST")
      /\ KeysAreFree(d)
      /\ to # Main
      /\ Available(Main, q)
      /\ CostIsValid(In(balance[to], q, cost))
      /\ balance' = [balance EXCEPT ![Main] = Out(@, q), ![to] = In(@, q, cost)]
      /\ moved' = [moved EXCEPT ![Main] = AddOut(@, q, cost), ![to] = AddIn(@, q, cost)]
      /\ gl' = Booked(Account[to], Account[Main], amount)
      /\ Post(c, Posted(d, cost, amount))

-----------------------------------------------------------------------------
(* Adjustments.                                                            *)

\* A reason either raises stock or lowers it, and its lines agree with it.
DraftAdjustment(d) ==
  /\ Kind[d] = "SA"
  /\ \E q \in Quantities, cost \in Costs :
       \/ Draft(d, NoDoc, q, cost, "increase")
       \/ Draft(d, NoDoc, q, balance[Main].avg, "decrease")
  /\ UNCHANGED stockVars

\* post_stock_adjustment: an increase at the line's cost against a gain, a
\* decrease at the average against a loss; one that is worth nothing is refused.
PreviewedCost(d) == doc[d].cost
AdjustmentCost(d) == IF doc[d].how = "increase" THEN doc[d].cost ELSE balance[Main].avg
PostAdjustment(c) ==
  LET d == call[c].doc
      q == doc[d].qty
      cost == AdjustmentCost(d)
      amount == MoneyOf(q, cost)
  IN  /\ Posting(c, "SA")
      /\ KeysAreFree(d)
      /\ amount > 0
      /\ \/ /\ doc[d].how = "increase"
            /\ MoveIn(Main, q, cost)
            /\ gl' = Booked(Account[Main], "INVENTORY_GAIN", amount)
         \/ /\ doc[d].how = "decrease"
            /\ MoveOut(Main, q)
            /\ gl' = Booked("INVENTORY_LOSS", Account[Main], amount)
      /\ Post(c, Posted(d, cost, amount))
=============================================================================
