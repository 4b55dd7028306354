--------------------------------- MODULE Routes --------------------------------
(*****************************************************************************)
(* What the gateway does with a request, by method and path; the endpoints   *)
(* of the services behind it; and the requests that the pages send.          *)
(*                                                                           *)
(* A path is the sequence of its segments.  "*" in a pattern stands for any  *)
(* one segment; "x" in a request is some name or id.  A rule of the gateway  *)
(* is for one path, or for everything below one; http.ServeMux picks the     *)
(* longest pattern, and the handlers that look further into the path are     *)
(* rules of their own here, for a longer one.                                *)
(*****************************************************************************)
EXTENDS Naturals, Sequences

Method == {"GET", "POST", "PUT", "PATCH", "DELETE"}

Matches(pattern, path) ==
  /\ Len(pattern) = Len(path)
  /\ \A i \in DOMAIN pattern : pattern[i] \in {"*", path[i]}

\* What a rule does: call a service over gRPC, pass the request on to a service with
\* the pattern's path replaced, or refuse it.
Rpc(service, name)     == [kind |-> "rpc", service |-> service, name |-> name, prefix |-> <<>>, status |-> 0]
Proxy(service, prefix) == [kind |-> "proxy", service |-> service, name |-> "none", prefix |-> prefix, status |-> 0]
Refuse(status)         == [kind |-> "refuse", service |-> "none", name |-> "none", prefix |-> <<>>, status |-> status]

Exact(at, methods, does) == [at |-> at, below |-> FALSE, methods |-> methods, does |-> does]
Below(at, methods, does) == [at |-> at, below |-> TRUE, methods |-> methods, does |-> does]

\* Both "/name" and "/name/" are passed on.
Forward(name, service) ==
  { Exact(<<name>>, Method, Proxy(service, <<name>>)),
    Below(<<name>>, Method, Proxy(service, <<name>>)) }

-------------------------------------------------------------------------------
(* The gateway (main).                                                       *)

\* Mutant of StakeholdersRules: "/stakeholders" without "/stakeholders/".
StakeholdersRulesExact ==
  { Exact(<<"stakeholders", "login">>, {"POST"}, Rpc("stakeholders", "Login")),
    Exact(<<"stakeholders", "profile">>, {"GET"}, Rpc("stakeholders", "GetProfile")),
    Exact(<<"stakeholders">>, Method, Proxy("stakeholders", <<"stakeholders">>)) }

\* Login and GetProfile take one method each; the older paths are rewritten.
StakeholdersRules ==
  { Exact(<<"stakeholders", "login">>, {"POST"}, Rpc("stakeholders", "Login")),
    Exact(<<"stakeholders", "login">>, Method \ {"POST"}, Refuse(405)),
    Exact(<<"stakeholders", "profile">>, {"GET"}, Rpc("stakeholders", "GetProfile")),
    Exact(<<"stakeholders", "profile">>, Method \ {"GET"}, Refuse(405)),
    Below(<<"auth">>, Method, Proxy("stakeholders", <<"stakeholders">>)),
    Below(<<"accounts">>, Method, Proxy("stakeholders", <<"stakeholders", "accounts">>)),
    Below(<<"profiles">>, Method, Proxy("stakeholders", <<"stakeholders", "profile">>)) }
  \union Forward("stakeholders", "stakeholders")

\* Reading goes over gRPC, whatever follows the id.
BlogRules ==
  { Exact(<<"blog">>, {"GET"}, Rpc("blog", "GetAllBlogs")),
    Below(<<"blog">>, {"GET"}, Rpc("blog", "GetBlog")),
    Exact(<<"blog">>, Method \ {"GET"}, Proxy("blog", <<"blog">>)),
    Below(<<"blog">>, Method \ {"GET"}, Proxy("blog", <<"blog">>)) }

FollowersRules == { Below(<<"followers">>, Method, Proxy("followers", <<"followers">>)) }

ToursGrpcRules ==
  { Exact(<<"tours", "grpc", "published">>, {"GET"}, Rpc("tours", "GetPublishedTours")),
    Below(<<"tours", "grpc">>, {"GET"}, Rpc("tours", "GetTour")),
    Below(<<"tours", "grpc">>, Method \ {"GET"}, Refuse(405)) }

ToursRules ==
  UNION {Forward(name, "tours") : name \in {"tours", "keypoints", "reviews", "tourist-position"}}

ExecutionRules == Forward("executions", "tours")

\* POST is a checkout whatever follows the tourist.
PaymentsRules ==
  { Below(<<"checkout">>, {"POST"}, Rpc("payments", "Checkout")),
    Exact(<<"checkout", "*", "has-purchased", "*">>, {"GET"}, Rpc("payments", "HasPurchased")),
    Below(<<"checkout", "*", "has-purchased", "*">>, {"GET"}, Rpc("payments", "HasPurchased")),
    Below(<<"checkout">>, Method \ {"POST"}, Proxy("payments", <<"checkout">>)) }
  \union Forward("shopping-cart", "payments")

Rules ==
  UNION { StakeholdersRules, BlogRules, FollowersRules, ToursGrpcRules, ToursRules,
          ExecutionRules, PaymentsRules }

Fits(rule, request) ==
  /\ request.method \in rule.methods
  /\ IF rule.below
       THEN Len(request.path) > Len(rule.at) /\ Matches(rule.at, SubSeq(request.path, 1, Len(rule.at)))
       ELSE Matches(rule.at, request.path)

\* The longest rule that fits, or the fallback.
Dispatch(request) ==
  LET fits == {r \in Rules : Fits(r, request)}
      best == CHOOSE r \in fits : \A s \in fits : Len(s.at) <= Len(r.at)
  IN  IF fits = {} THEN [at |-> <<>>, does |-> Refuse(404)] ELSE [at |-> best.at, does |-> best.does]

\* The path that the service is asked for.
Rewritten(request) ==
  LET rule == Dispatch(request)
  IN  rule.does.prefix \o SubSeq(request.path, Len(rule.at) + 1, Len(request.path))

-------------------------------------------------------------------------------
(* The services.                                                             *)

Endpoint(method, at) == [method |-> method, path |-> at]

StakeholdersEndpoints ==
  { Endpoint("POST", <<"stakeholders", "register">>), Endpoint("POST", <<"stakeholders", "login">>),
    Endpoint("GET", <<"stakeholders", "accounts">>),
    Endpoint("PATCH", <<"stakeholders", "accounts", "*", "block">>),
    Endpoint("GET", <<"stakeholders">>) }

ProfileEndpoints ==
  { Endpoint("GET", <<"stakeholders", "profile", "search">>),
    Endpoint("GET", <<"stakeholders", "profile">>), Endpoint("PUT", <<"stakeholders", "profile">>),
    Endpoint("GET", <<"stakeholders", "profile", "*">>) }

ToursEndpoints ==
  { Endpoint("POST", <<"tours">>), Endpoint("GET", <<"tours">>),
    Endpoint("GET", <<"tours", "author", "*">>),
    Endpoint("GET", <<"tours", "*">>), Endpoint("PUT", <<"tours", "*">>),
    Endpoint("PUT", <<"tours", "*", "publish">>), Endpoint("PUT", <<"tours", "*", "archive">>),
    Endpoint("PUT", <<"tours", "*", "activate">>),
    Endpoint("POST", <<"keypoints">>), Endpoint("GET", <<"keypoints", "tour", "*">>),
    Endpoint("GET", <<"keypoints", "*">>), Endpoint("PUT", <<"keypoints", "*">>),
    Endpoint("DELETE", <<"keypoints", "*">>),
    Endpoint("POST", <<"reviews">>), Endpoint("GET", <<"reviews", "tour", "*">>),
    Endpoint("GET", <<"reviews", "*">>), Endpoint("DELETE", <<"reviews", "*">>),
    Endpoint("PUT", <<"tourist-position">>), Endpoint("GET", <<"tourist-position", "*">>),
    Endpoint("POST", <<"executions">>), Endpoint("GET", <<"executions", "*">>),
    Endpoint("GET", <<"executions", "tourist", "*">>),
    Endpoint("POST", <<"executions", "*", "check-keypoint">>),
    Endpoint("PUT", <<"executions", "*", "complete">>),
    Endpoint("PUT", <<"executions", "*", "abandon">>) }

BlogEndpoints ==
  { Endpoint("POST", <<"blog">>), Endpoint("GET", <<"blog">>), Endpoint("GET", <<"blog", "*">>),
    Endpoint("POST", <<"blog", "*", "comments">>), Endpoint("PUT", <<"blog", "*", "comments", "*">>),
    Endpoint("POST", <<"blog", "*", "like">>) }

FollowersEndpoints ==
  { Endpoint("POST", <<"followers", "follow">>), Endpoint("DELETE", <<"followers", "follow", "*">>),
    Endpoint("GET", <<"followers", "following", "*">>), Endpoint("GET", <<"followers", "is-following">>),
    Endpoint("GET", <<"followers", "visible-authors", "*">>),
    Endpoint("GET", <<"followers", "recommendations", "*">>) }

CartEndpoints ==
  { Endpoint("GET", <<"shopping-cart", "*">>), Endpoint("POST", <<"shopping-cart", "*", "items">>),
    Endpoint("DELETE", <<"shopping-cart", "*", "items", "*">>) }

CheckoutEndpoints ==
  { Endpoint("POST", <<"checkout", "*">>), Endpoint("GET", <<"checkout", "*", "purchases">>),
    Endpoint("GET", <<"checkout", "*", "has-purchased", "*">>) }

Endpoints(service) ==
  CASE service = "stakeholders" -> StakeholdersEndpoints \union ProfileEndpoints
    [] service = "tours"        -> ToursEndpoints
    [] service = "blog"         -> BlogEndpoints
    [] service = "followers"    -> FollowersEndpoints
    [] service = "payments"     -> CartEndpoints \union CheckoutEndpoints

\* The service that the request is passed on to has an endpoint for it.
HasEndpoint(request) ==
  \E e \in Endpoints(Dispatch(request).does.service) :
    e.method = request.method /\ Matches(e.path, Rewritten(request))

-------------------------------------------------------------------------------
(* The pages.                                                                *)

EditProfile == Endpoint("PUT", <<"stakeholders", "profile">>)

AccountRequests ==
  { Endpoint("POST", <<"stakeholders", "login">>), Endpoint("POST", <<"stakeholders", "register">>),
    Endpoint("GET", <<"stakeholders", "accounts">>),
    Endpoint("PATCH", <<"stakeholders", "accounts", "x", "block">>) }

ProfileRequests ==
  { Endpoint("GET", <<"stakeholders", "profile">>), EditProfile,
    Endpoint("GET", <<"stakeholders", "profile", "x">>),
    Endpoint("GET", <<"stakeholders", "profile", "search">>) }

FollowersRequests ==
  { Endpoint("POST", <<"followers", "follow">>), Endpoint("DELETE", <<"followers", "follow", "x">>),
    Endpoint("GET", <<"followers", "following", "x">>), Endpoint("GET", <<"followers", "is-following">>),
    Endpoint("GET", <<"followers", "recommendations", "x">>) }

TourRequests ==
  { Endpoint("POST", <<"tours">>), Endpoint("GET", <<"tours">>), Endpoint("GET", <<"tours", "author", "x">>),
    Endpoint("GET", <<"tours", "x">>), Endpoint("PUT", <<"tours", "x">>),
    Endpoint("PUT", <<"tours", "x", "publish">>), Endpoint("PUT", <<"tours", "x", "archive">>),
    Endpoint("PUT", <<"tours", "x", "activate">>),
    Endpoint("POST", <<"keypoints">>), Endpoint("GET", <<"keypoints", "tour", "x">>),
    Endpoint("DELETE", <<"keypoints", "x">>), Endpoint("PUT", <<"keypoints", "x">>),
    Endpoint("POST", <<"reviews">>), Endpoint("GET", <<"reviews", "tour", "x">>) }

ExecutionRequests ==
  { Endpoint("POST", <<"executions">>), Endpoint("PUT", <<"tourist-position">>),
    Endpoint("GET", <<"executions", "x">>), Endpoint("GET", <<"executions", "tourist", "x">>),
    Endpoint("POST", <<"executions", "x", "check-keypoint">>),
    Endpoint("PUT", <<"executions", "x", "complete">>), Endpoint("PUT", <<"executions", "x", "abandon">>) }

ShopRequests ==
  { Endpoint("GET", <<"shopping-cart", "x">>), Endpoint("POST", <<"shopping-cart", "x", "items">>),
    Endpoint("DELETE", <<"shopping-cart", "x", "items", "x">>), Endpoint("POST", <<"checkout", "x">>),
    Endpoint("GET", <<"checkout", "x", "purchases">>),
    Endpoint("GET", <<"checkout", "x", "has-purchased", "x">>) }

BlogRequests ==
  { Endpoint("GET", <<"blog">>), Endpoint("GET", <<"blog", "x">>), Endpoint("POST", <<"blog">>),
    Endpoint("POST", <<"blog", "x", "comments">>), Endpoint("PUT", <<"blog", "x", "comments", "x">>),
    Endpoint("POST", <<"blog", "x", "like">>) }

PageRequests ==
  UNION { AccountRequests, ProfileRequests, FollowersRequests, TourRequests,
          ExecutionRequests, ShopRequests, BlogRequests }

\* Requests that no page sends: the tours' gRPC calls and the older paths.
OtherRequests ==
  { Endpoint("GET", <<"tours", "grpc", "published">>), Endpoint("GET", <<"tours", "grpc", "x">>),
    Endpoint("POST", <<"auth", "login">>), Endpoint("PATCH", <<"accounts", "x", "block">>),
    Endpoint("GET", <<"profiles", "x">>) }

AllRequests == PageRequests \union OtherRequests

\* A request with what the gateway does with it, and whether the service that it is
\* passed on to has an endpoint for it.
Handled(r) ==
  LET does == Dispatch(r).does
  IN  [request |-> r, kind |-> does.kind, service |-> does.service, name |-> does.name,
       status |-> does.status,
       found |-> does.kind = "rpc" \/ (does.kind = "proxy" /\ HasEndpoint(r))]
===============================================================================
