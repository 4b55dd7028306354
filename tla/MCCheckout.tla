------------------------------ MODULE MCCheckout ------------------------------
(* Small instances of Checkout for TLC.                                      *)
EXTENDS Checkout, TLC

\* Tourists, tours, rows and calls are interchangeable.
Symmetry == Permutations(Tour) \union Permutations(ItemId) \union Permutations(Request)
===============================================================================
