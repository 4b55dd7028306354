--------------------------- MODULE MCTourAuthoring ----------------------------
(* Small instances of TourAuthoring for TLC, and what holds until requests   *)
(* overlap.                                                                  *)
EXTENDS TourAuthoring, TLC

Symmetry == Permutations(Call) \union Permutations(KeyPoint)

VARIABLE overlapped   \* history: two requests have been in progress at once

MCInit == Init /\ overlapped = FALSE
MCNext ==
  /\ Next
  /\ overlapped' = (overlapped \/ \E c, d \in Call : c # d /\ "idle" \notin {pc'[c], pc'[d]})
MCSpec == MCInit /\ [][MCNext]_<<vars, overlapped>>

\* Until two requests overlap, stopped ones included, a published tour has two key
\* points (tour_service.go:182).
SerialPublishedHasKeyPoints == overlapped \/ PublishedHasKeyPoints

\* Until two requests overlap, a delete that ran to its end leaves the orders 1
\* to n, each once (keypoint_service.go:203-221).
SerialDeleteNormalizes == overlapped \/ DeleteNormalizes
===============================================================================
