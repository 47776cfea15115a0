-------------------------- MODULE MCPostingEngine --------------------------
(***************************************************************************)
(* Two calls of the engine with one key and source, a third with that key  *)
(* for another source, and one purchase bill posted twice at once, while   *)
(* somebody works on the calendar.                                         *)
(***************************************************************************)
EXTENDS PostingEngine

CONSTANTS e1, e2, e3, d1, d2, \* requests
          invoice, note, bill, \* sources
          k1, k2               \* keys

Keys == [r \in Requests |-> IF r \in Direct THEN k2 ELSE k1]
SourceOf ==
  [r \in Requests |-> CASE r \in Direct -> bill [] r = e3 -> note [] OTHER -> invoice]

\* Everything is dated in the first period but the third call.
Dated == [r \in Requests |-> IF r = e3 THEN 2 ELSE 1]
OneYear == [p \in Periods |-> 2026]
=============================================================================
