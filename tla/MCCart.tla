-------------------------------- MODULE MCCart --------------------------------
(* Small instances of Cart for TLC, and what holds until requests overlap.   *)
EXTENDS Cart, TLC

Symmetry == Permutations(CartId) \union Permutations(ItemId)
              \union Permutations(Tour) \union Permutations(Call)

VARIABLE overlapped   \* history: two requests have been in progress at once

MCInit == Init /\ overlapped = FALSE
MCNext ==
  /\ Next
  /\ overlapped' = (overlapped \/ \E c, d \in Call : c # d /\ "idle" \notin {pc'[c], pc'[d]})
MCSpec == MCInit /\ [][MCNext]_<<vars, overlapped>>

\* Until two requests overlap, failures included, the cart a GET shows is the whole
\* truth: one cart with every row, no tour in it twice, and the stored total the sum
\* (ShoppingCartService.cs:25-40, ShoppingCart.cs:12, ShoppingCartRepository.cs:25).
SerialCartRight == overlapped \/ (RowsShown /\ NoTourTwice /\ TotalIsSum)
===============================================================================
