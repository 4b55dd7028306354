-------------------------------- MODULE Catalog --------------------------------
(*****************************************************************************)
(* What the tours service tells visitors of the tour whose authoring         *)
(* TourAuthoring models: the reading requests of TourService and of its gRPC *)
(* server.                                                                   *)
(*                                                                           *)
(* Every repository call of a request is a step of its own, so the parts of  *)
(* an answer come from different moments.  Requests of one visitor follow    *)
(* each other; answer keeps the last one's until the next is made.           *)
(*****************************************************************************)
EXTENDS TourAuthoring

CONSTANT Visitor   \* tourists who read, each with one request at a time

VARIABLES
  vetted,   \* visitors a checkout of whom found the tour for sale
  sold,     \* visitors whose purchase token the payments service holds
  token,    \* visitors whose purchase this service has in its cache
  reading,  \* Visitor -> the next repository call of the request, or "idle"
  part,     \* Visitor -> the tour as the request read it
  answer    \* Visitor -> the last answer

catalogVars == <<vetted, sold, token, reading, part, answer>>
allVars == <<vars, catalogVars>>

\* The tour as a document or an answer shows it; "none" stands for no tour.
Document == [status : Status, publishedAt : Time, archivedAt : Time]
Nothing  == [status |-> "none", publishedAt |-> 0, archivedAt |-> 0]

\* An answer is about one tour, is a preview of the list, tells a buyer, or tells
\* somebody who has not bought; its key points come with their "order".
Kind == {"none", "tour", "listed", "bought", "notBought"}

CatalogInit ==
  /\ vetted = {}
  /\ sold = {}
  /\ token = {}
  /\ reading = [v \in Visitor |-> "idle"]
  /\ part = [v \in Visitor |-> Nothing]
  /\ answer = [v \in Visitor |-> [kind |-> "none", tour |-> Nothing, keyPoints |-> <<>>]]

Await(v, next) == reading' = [reading EXCEPT ![v] = next]

Reply(v, kind, tour, kps) ==
  /\ answer' = [answer EXCEPT ![v] = [kind |-> kind, tour |-> tour, keyPoints |-> kps]]
  /\ part' = [part EXCEPT ![v] = Nothing]
  /\ Await(v, "idle")

-------------------------------------------------------------------------------
(* Repository.                                                               *)

\* FindByID and FindByAuthor: the document whatever its status.
Found == [status |-> status, publishedAt |-> publishedAt, archivedAt |-> archivedAt]

\* Mutant of FindAllPublished: no filter.
FindAll == Found

\* FindAllPublished.
FindAllPublished == IF status = "published" THEN Found ELSE Nothing

\* TourPreview, over HTTP as over gRPC: it has no archivedAt.
Preview(tour) == [tour EXCEPT !.archivedAt = 0]

\* FindFirstByTour: a key point with the least "order", any of those on a tie;
\* none when the tour has no key points.
FirstKeyPoint ==
  IF KeyPoints = {} THEN {<<>>}
  ELSE {Restrict(order, {k}) : k \in {x \in KeyPoints : \A y \in KeyPoints : order[x] <= order[y]}}

\* HasToken: the cache, else what payments says, which is then cached; a failed
\* question is answered with no.  What it may answer:
HasToken(v) == IF v \in token THEN {TRUE} ELSE IF v \in sold THEN BOOLEAN ELSE {FALSE}

\* CheckoutAsync of payments, as far as this tour goes (all of it is in Checkout): it
\* asks for the tour, which must be published.  A tourist may have any number of
\* checkouts between this and the sale.
Vet(v) ==
  /\ status = "published"
  /\ vetted' = vetted \union {v}
  /\ UNCHANGED <<sold, token, reading, part, answer>>

\* It stores the token, whatever has become of the tour since.
Sell(v) ==
  /\ v \in vetted
  /\ sold' = sold \union {v}
  /\ UNCHANGED <<vetted, token, reading, part, answer>>

\* The catch block takes the token back.
TakeBack(v) ==
  /\ v \in sold
  /\ sold' = sold \ {v}
  /\ UNCHANGED <<vetted, token, reading, part, answer>>

\* The consumer learns of a purchase.
LearnPurchase(v) ==
  /\ v \in sold
  /\ token' = token \union {v}
  /\ UNCHANGED <<vetted, sold, reading, part, answer>>

-------------------------------------------------------------------------------
(* TourService and ToursGrpcServer, reading.                                 *)

\* GET /tours/{id} without a tourist, and GET /tours/author/{authorId}: one
\* read, answered as it is.
GetTourOnly(v) ==
  /\ reading[v] = "idle"
  /\ Reply(v, "tour", Found, <<>>)
  /\ UNCHANGED <<vetted, sold, token>>

\* gRPC GetTour: the same read; the message has no archivedAt.
RpcGetTour(v) ==
  /\ reading[v] = "idle"
  /\ Reply(v, "tour", [Found EXCEPT !.archivedAt = 0], <<>>)
  /\ UNCHANGED <<vetted, sold, token>>

\* GetPublished, 1: the published tours.
ListPublished(v) ==
  /\ reading[v] = "idle"
  /\ IF FindAllPublished = Nothing
       THEN Reply(v, "none", Nothing, <<>>)
       ELSE /\ part' = [part EXCEPT ![v] = FindAllPublished]
            /\ Await(v, "preview")
            /\ UNCHANGED answer
  /\ UNCHANGED <<vetted, sold, token>>

\* GetPublished, 2: the preview of the tour as it was listed, with its first key
\* point if it has any.
ListPreview(v) ==
  /\ reading[v] = "preview"
  /\ \E kps \in FirstKeyPoint :
       Reply(v, "listed", Preview(part[v]), kps)
  /\ UNCHANGED <<vetted, sold, token>>

\* GetByIDForTourist, 1: the tour, whatever its status.
TouristTour(v) ==
  /\ reading[v] = "idle"
  /\ IF status = "none"
       THEN Reply(v, "none", Nothing, <<>>)
       ELSE /\ part' = [part EXCEPT ![v] = Found]
            /\ Await(v, "token")
            /\ UNCHANGED answer
  /\ UNCHANGED <<vetted, sold, token>>

\* GetByIDForTourist, 2: HasToken.
TouristToken(v) ==
  /\ reading[v] = "token"
  /\ \E has \in HasToken(v) :
       /\ token' = IF has THEN token \union {v} ELSE token
       /\ Await(v, IF has THEN "all" ELSE "first")
  /\ UNCHANGED <<vetted, sold, part, answer>>

\* GetByIDForTourist, 3: a buyer's answer has all key points.
TouristAll(v) ==
  /\ reading[v] = "all"
  /\ Reply(v, "bought", part[v], order)
  /\ UNCHANGED <<vetted, sold, token>>

\* GetByIDForTourist, 3: anybody else's has the first one; a failed read is
\* answered like a tour without key points.
TouristFirst(v) ==
  /\ reading[v] = "first"
  /\ \E kps \in FirstKeyPoint \union {<<>>} : Reply(v, "notBought", part[v], kps)
  /\ UNCHANGED <<vetted, sold, token>>

\* A repository call fails or the visitor goes away: no answer.
ReadFails(v) ==
  /\ reading[v] # "idle"
  /\ Reply(v, "none", Nothing, <<>>)
  /\ UNCHANGED <<vetted, sold, token>>

CatalogNext ==
  \E v \in Visitor :
    \/ Vet(v) \/ Sell(v) \/ TakeBack(v) \/ LearnPurchase(v)
    \/ GetTourOnly(v) \/ RpcGetTour(v)
    \/ ListPublished(v) \/ ListPreview(v)
    \/ TouristTour(v) \/ TouristToken(v) \/ TouristAll(v) \/ TouristFirst(v)
    \/ ReadFails(v)

-------------------------------------------------------------------------------
(* Properties that hold while the author's requests do not overlap: what     *)
(* was shown stays right, however late the answer arrives and however late   *)
(* the sale is after the checkout looked at the tour.                        *)

\* A buyer was told of all key points of the tour, two at least, and the author
\* can change none of them any more (tour_service.go:286-296,
\* keypoint_service.go:164-173).
BuyerSeesTour ==
  \A v \in Visitor : answer[v].kind = "bought" =>
    answer[v].keyPoints = order /\ Cardinality(KeyPoints) >= 2

\* A tour that was listed bears the time it was published at and comes with a key
\* point, which is the first of the tour to this day (tour_service.go:118-148).
ListedIsComplete ==
  \A v \in Visitor : answer[v].kind = "listed" =>
    /\ answer[v].tour.publishedAt # 0
    /\ answer[v].keyPoints # <<>>
    /\ answer[v].keyPoints \in FirstKeyPoint
===============================================================================
