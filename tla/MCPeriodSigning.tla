--------------------------- MODULE MCPeriodSigning ---------------------------
(* Two users at the pages of two periods, one document. *)
EXTENDS PeriodSigning, TLC

CONSTANTS u1, u2
TwoClosers == {u1, u2}
Symmetric == Permutations(TwoClosers)
=============================================================================
