------------------------------ MODULE MCMasters ------------------------------
(* Two administrators and three rows of each master. *)
EXTENDS Masters, TLC

CONSTANTS ann, bob, n1, n2, n3
TwoAdmins == {ann, bob}
ThreeNodes == {n1, n2, n3}
Symmetric == Permutations(TwoAdmins) \cup Permutations(ThreeNodes)

AllKinds == Trees \cup Coded \cup Parties \cup Children \cup {"currency", "series", "price"}
=============================================================================
