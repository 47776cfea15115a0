------------------------------- MODULE MCTrade -------------------------------
(***************************************************************************)
(* Small instances of Trade for TLC: each plan is a set of documents users *)
(* may enter, all of them over one stock.                                  *)
(***************************************************************************)
EXTENDS Trade, TLC

CONSTANTS main, shop, c1, c2

AllKinds == [so1 |-> "SO", so2 |-> "SO", dn1 |-> "DN", dn2 |-> "DN",
             si1 |-> "SI", si2 |-> "SI", sr1 |-> "SR", sr2 |-> "SR", cn1 |-> "CN", cn2 |-> "CN",
             po1 |-> "PO", gr1 |-> "GR", gr2 |-> "GR", pb1 |-> "PB", pb2 |-> "PB",
             pr1 |-> "PR", pr2 |-> "PR", db1 |-> "DBN", st1 |-> "ST", sa1 |-> "SA"]
\* Each warehouse has an inventory account of its own, one the mapped account.
OwnAccounts == [w \in {main, shop} |-> IF w = main THEN "INVENTORY" ELSE "INVENTORY_SHOP"]

SellingPlans == {{"so1", "dn1", "dn2", "si1"}, {"so2", "dn1", "si1", "si2"}, {"so2", "dn1", "si1", "sr1", "sr2"},
                 {"so2", "dn1", "si1", "cn1", "cn2"}}
BuyingPlans == {{"po1", "gr1", "gr2", "pb1"}, {"gr1", "pb1", "pb2"},
                {"gr1", "pb1", "pr1", "pr2"}, {"gr1", "pb1", "pr1", "db1"}}
StockPlans == {{"gr1", "st1", "sa1"}, {"so2", "gr1", "dn1", "sa1"}}
EveryPlan == SellingPlans \cup BuyingPlans \cup StockPlans

Symmetric == Permutations({c1, c2})
=============================================================================
