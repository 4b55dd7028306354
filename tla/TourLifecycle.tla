---------------------------- MODULE TourLifecycle -----------------------------
(*****************************************************************************)
(* What the rest of the system relies on about a tour: it is drafted once,   *)
(* then published, and from then on only archived and activated again.       *)
(*****************************************************************************)
VARIABLE status

Init == status = "none"

Draft    == status = "none"      /\ status' = "draft"
Publish  == status = "draft"     /\ status' = "published"
Archive  == status = "published" /\ status' = "archived"
Activate == status = "archived"  /\ status' = "published"

Next == Draft \/ Publish \/ Archive \/ Activate

Spec == Init /\ [][Next]_status
===============================================================================
