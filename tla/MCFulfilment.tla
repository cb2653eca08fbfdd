---------------------------- MODULE MCFulfilment ----------------------------
(* Fulfilment on small orders; the requests are interchangeable.           *)
EXTENDS Fulfilment, TLC

Symmetry == Permutations(Workers)
=============================================================================
