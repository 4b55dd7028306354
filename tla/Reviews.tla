-------------------------------- MODULE Reviews --------------------------------
(*****************************************************************************)
(* Reviews of one tour (ReviewService, ReviewRepository).                    *)
(*                                                                           *)
(* Create counts and inserts in two calls of the repository and no index of  *)
(* the collection forbids a second review.                                   *)
(* Distinct tours share nothing here.                                        *)
(*****************************************************************************)
EXTENDS Naturals, FiniteSets

CONSTANTS
  Review,   \* ObjectIDs of reviews, each inserted at most once (a bound)
  Tourist,  \* the tourists who write reviews
  Writer,   \* requests that may be in progress at once
  None      \* no tourist

ASSUME ReviewAssumption == IsFiniteSet(Review)
ASSUME WriterAssumption == IsFiniteSet(Writer)
ASSUME TouristAssumption == None \notin Tourist

VARIABLES
  tourFound,  \* FindByID finds the tour
  stored,     \* the ids of the stored reviews
  author,     \* Review -> touristId of a review that was ever inserted, or None
  at,         \* Writer -> the next repository call of Create, or "idle"
  tourist     \* Writer -> touristId of the request

reviewVars == <<stored, author, at, tourist>>

At == {"idle", "count", "insert"}

ReviewTypeOK ==
  /\ stored \subseteq Review
  /\ author \in [Review -> Tourist \union {None}]
  /\ at \in [Writer -> At]
  /\ tourist \in [Writer -> Tourist \union {None}]

ReviewInit ==
  /\ stored = {}
  /\ author = [r \in Review |-> None]
  /\ at = [w \in Writer |-> "idle"]
  /\ tourist = [w \in Writer |-> None]

Go(w, next) == at' = [at EXCEPT ![w] = next]

-------------------------------------------------------------------------------

\* ExistsByTourAndTourist: the stored reviews of a tourist.
ReviewsOf(t) == {r \in stored : author[r] = t}

\* Create, 1: the tour must exist; its status and what the tourist has bought are
\* not looked at.  Malformed requests are refused before and change nothing.
CreateFindTour(w) ==
  /\ at[w] = "idle"
  /\ \E t \in Tourist : tourist' = [tourist EXCEPT ![w] = t]
  /\ Go(w, IF tourFound THEN "count" ELSE "idle")
  /\ UNCHANGED <<stored, author>>

\* Mutant of CreateCount: the count is not looked at.
CreateCountOnly(w) ==
  /\ at[w] = "count"
  /\ Go(w, "insert")
  /\ UNCHANGED <<stored, author, tourist>>

\* Create, 2: a tourist with a review is refused.
CreateCount(w) ==
  /\ at[w] = "count"
  /\ Go(w, IF ReviewsOf(tourist[w]) # {} THEN "idle" ELSE "insert")
  /\ UNCHANGED <<stored, author, tourist>>

\* Create, 3: InsertOne.
CreateInsert(w) ==
  /\ at[w] = "insert"
  /\ \E r \in Review :
       /\ author[r] = None
       /\ author' = [author EXCEPT ![r] = tourist[w]]
       /\ stored' = stored \union {r}
  /\ Go(w, "idle")
  /\ UNCHANGED tourist

\* A repository call fails.
CreateFails(w) ==
  /\ at[w] # "idle"
  /\ Go(w, "idle")
  /\ UNCHANGED <<stored, author, tourist>>

\* DeleteOne by id, whoever asks; a review that is gone already is not found.
Delete(w) ==
  /\ at[w] = "idle"
  /\ \E r \in stored : stored' = stored \ {r}
  /\ UNCHANGED <<author, at, tourist>>

ReviewNext ==
  \E w \in Writer :
    \/ CreateFindTour(w) \/ CreateCount(w) \/ CreateInsert(w) \/ CreateFails(w)
    \/ Delete(w)

ReviewSpec == ReviewInit /\ [][ReviewNext]_reviewVars

-------------------------------------------------------------------------------

\* "Turista moze ostaviti samo jednu recenziju po turi" (a tourist may leave only one
\* review of a tour, review_service.go:48).
OneReview == \A t \in Tourist : Cardinality(ReviewsOf(t)) <= 1

\* The requests of a tourist that counted no review and are about to insert one.
Inserting(t) == {w \in Writer : at[w] = "insert" /\ tourist[w] = t}

\* What is left of OneReview: a tourist never has more reviews of the tour than there
\* were requests at once, those about to insert another one counted, whatever is
\* deleted in between (review_service.go:48-55, 74).
ReviewsBounded ==
  \A t \in Tourist :
    Cardinality(ReviewsOf(t)) + Cardinality(Inserting(t)) <= Cardinality(Writer)
===============================================================================
