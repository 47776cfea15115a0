------------------------------ MODULE MCDrafting ------------------------------
(* Two users over a document of each kind, two headers and two contents. *)
EXTENDS Drafting

CONSTANTS ann, bob, before, after

TwoUsers == {ann, bob}
TwoTerms == {before, after}
=============================================================================
