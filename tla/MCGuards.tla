------------------------------ MODULE MCGuards ------------------------------
(* One world for the journal, with an entry already posted, and one for
   settlement, with an invoice that a receipt has partly settled. *)
EXTENDS Guards, TLC

CONSTANTS NewLines, t1
MCLines == {"l1", "l2"} \cup NewLines
MCStatements == [t \in Transactions |-> IF t = t1 THEN 3 ELSE 2]
Symmetric == Permutations(NewLines)

MCOpening ==
  [id \in Ids |->
     CASE id = "e1" -> [period |-> "p1", debit |-> 1, credit |-> 1]
       [] id = "l1" -> [entry |-> "e1", debit |-> 1, credit |-> 0]
       [] id = "l2" -> [entry |-> "e1", debit |-> 0, credit |-> 1]
       [] id \in Periods -> [status |-> "OPEN"]
       [] id = "inv" -> [allocated |-> 1, credited |-> 0]
       [] id = "rct" -> [allocated |-> 1]
       [] id \in Documents -> [allocated |-> 0, credited |-> 0]
       [] id \in Sources -> [allocated |-> 0]
       [] id = "r1" -> [side |-> "CUSTOMER", source |-> "rct", target |-> "inv",
                        amount |-> 1, reversed |-> FALSE]
       [] OTHER -> None]
MCWorlds == {Entries \cup Lines \cup Periods, Balanced \cup Rows}
MCType ==
  [x \in Balanced |->
     CASE x = "inv" -> "SALES_INVOICE" [] x = "rct" -> "PAYMENT" [] x = "cn" -> "SALES_CREDIT_NOTE"]
MCWorth == [x \in Balanced |-> 2]
=============================================================================
