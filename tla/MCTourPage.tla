------------------------------ MODULE MCTourPage -------------------------------
(* One tour as its visitors meet it, for TLC: its authoring with either the  *)
(* catalogue or the reviews, which share nothing but the tour, beside it.    *)
EXTENDS Catalog, Reviews, TLC

VARIABLE side   \* what is explored beside the authoring

PageSymmetry == Permutations(KeyPoint) \union Permutations(Review) \union Permutations(Writer)

PageInit ==
  /\ Init /\ CatalogInit /\ ReviewInit
  /\ side \in {"catalog", "reviews"}
  /\ tourFound = (status # "none")
PageNext ==
  /\ \/ Next /\ UNCHANGED <<catalogVars, reviewVars>>
     \/ side = "catalog" /\ CatalogNext /\ UNCHANGED <<vars, reviewVars>>
     \/ side = "reviews" /\ ReviewNext /\ UNCHANGED allVars
  /\ tourFound' = (status' # "none")
  /\ UNCHANGED side
PageSpec == PageInit /\ [][PageNext]_<<allVars, reviewVars, tourFound, side>>
===============================================================================
