----------------------------- MODULE GatewayProofs -----------------------------
(*****************************************************************************)
(* What clients are told, for any number of clients, any requests and any    *)
(* services that stop.                                                       *)
(*                                                                           *)
(* AnswerTells is inductive with the types: a status is 200 only where the   *)
(* service did the work, and no outcome but an error that the service itself *)
(* answered maps to a 4xx, checkouts aside.  What a rule of the gateway      *)
(* refuses it refuses with 404 or 405 (RulesTell), whichever of the rules is *)
(* the longest.                                                              *)
(*                                                                           *)
(* That a page's request is served is about the table of routes.  Every rule *)
(* but three that refuse and three for older names leaves the path as it is  *)
(* (RulesSorted), and so does whichever of them is the longest that fits     *)
(* (PlainRequests), so it is the page's own path that the service must have  *)
(* an endpoint for (PagesServed).                                            *)
(*****************************************************************************)
EXTENDS Gateway, TLAPS

\* A rule has a path of 1 to 4 segments, and only a refusal has a status.
WellFormed(rule) ==
  /\ Len(rule.at) \in 1..4
  /\ rule.does.kind \in {"rpc", "proxy", "refuse"}
  /\ IF rule.does.kind = "refuse" THEN rule.does.status \in {404, 405} ELSE rule.does.status = 0

LEMMA RulesTell == \A rule \in Rules : WellFormed(rule)
<1> USE DEF WellFormed, Exact, Below, Rpc, Proxy, Refuse
<1>0. ASSUME NEW name, NEW service, NEW rule \in Forward(name, service)
      PROVE  WellFormed(rule)
  BY <1>0 DEF Forward
<1>1. \A rule \in StakeholdersRules : WellFormed(rule)
  BY <1>0 DEF StakeholdersRules
<1>2. \A rule \in BlogRules \union FollowersRules \union ToursGrpcRules : WellFormed(rule)
  BY DEF BlogRules, FollowersRules, ToursGrpcRules
<1>3. \A rule \in ToursRules \union ExecutionRules : WellFormed(rule)
  <2> HIDE DEF WellFormed
  <2> QED  BY <1>0 DEF ToursRules, ExecutionRules
<1>4. \A rule \in PaymentsRules : WellFormed(rule)
  BY <1>0 DEF PaymentsRules
<1> HIDE DEF WellFormed
<1> QED  BY <1>1, <1>2, <1>3, <1>4 DEF Rules

LEMMA Largest ==
  ASSUME NEW S \in SUBSET (1..4), S # {}
  PROVE  \E n \in S : \A m \in S : m <= n
<1>1. CASE 4 \in S
  BY <1>1
<1>2. CASE 4 \notin S /\ 3 \in S
  BY <1>2
<1>3. CASE 4 \notin S /\ 3 \notin S /\ 2 \in S
  BY <1>3
<1>4. CASE 4 \notin S /\ 3 \notin S /\ 2 \notin S
  <2>1. \A m \in S : m = 1
    BY <1>4
  <2>2. 1 \in S
    BY <2>1
  <2> QED  BY <2>1, <2>2
<1> QED  BY <1>1, <1>2, <1>3, <1>4

\* Of the rules that fit, one is the longest.
LEMMA Longest ==
  ASSUME NEW fits \in SUBSET Rules, fits # {}
  PROVE  \E r \in fits : \A s \in fits : Len(s.at) <= Len(r.at)
<1> DEFINE lengths == {Len(r.at) : r \in fits}
<1>1. lengths \in SUBSET (1..4) /\ lengths # {}
  <2>1. ASSUME NEW r \in fits  PROVE Len(r.at) \in 1..4
    <3>1. WellFormed(r)
      BY RulesTell
    <3> QED  BY <3>1 DEF WellFormed
  <2> QED  BY <2>1
<1>2. PICK n \in lengths : \A m \in lengths : m <= n
  <2> HIDE DEF lengths
  <2> QED  BY <1>1, Largest
<1>3. PICK r \in fits : n = Len(r.at)
  BY <1>2
<1>4. \A s \in fits : Len(s.at) <= Len(r.at)
  BY <1>2, <1>3
<1> QED  BY <1>4

\* What the gateway makes of a request: only what it refuses has a status.
LEMMA RequestsTell ==
  ASSUME NEW r \in Requests
  PROVE  /\ r.kind \in {"rpc", "proxy", "refuse"}
         /\ IF r.kind = "refuse" THEN r.status \in {404, 405} ELSE r.status = 0
<1>1. PICK q \in Request : r = Handled(q)
  BY DEF Requests
<1> DEFINE does == Dispatch(q).does
           fits == {rule \in Rules : Fits(rule, q)}
           best == CHOOSE a \in fits : \A s \in fits : Len(s.at) <= Len(a.at)
<1>2. r.kind = does.kind /\ r.status = does.status
  BY <1>1 DEF Handled
<1>3. CASE fits = {}
  <2>1. does = Refuse(404)
    BY <1>3 DEF Dispatch
  <2> QED  BY <1>2, <2>1 DEF Refuse
<1>4. CASE fits # {}
  <2>1. does = best.does
    BY <1>4 DEF Dispatch
  <2>2. best \in fits
    BY <1>4, Longest
  <2>3. WellFormed(best)
    BY <2>2, RulesTell
  <2> HIDE DEF best
  <2> QED  BY <1>2, <2>1, <2>3 DEF WellFormed
<1> QED  BY <1>3, <1>4

-------------------------------------------------------------------------------
(* Where the requests of the pages go.                                       *)

\* The segments of the table's paths and the requests'.
Segment ==
  { "*", "x", "stakeholders", "login", "register", "profile", "search", "accounts", "block", "auth", "profiles",
    "tours", "author", "publish", "archive", "activate", "grpc", "published", "keypoints", "tour", "reviews",
    "tourist-position", "executions", "tourist", "check-keypoint", "complete", "abandon",
    "blog", "comments", "like", "followers", "follow", "following", "is-following", "recommendations",
    "checkout", "has-purchased", "purchases", "shopping-cart", "items" }

\* The service that has the paths of a name.
ServiceOf(name) ==
  CASE name = "stakeholders" -> "stakeholders"
    [] name \in {"tours", "keypoints", "reviews", "tourist-position", "executions"} -> "tours"
    [] name = "blog" -> "blog"
    [] name = "followers" -> "followers"
    [] name \in {"checkout", "shopping-cart"} -> "payments"

\* The names of today, and the rules for the older ones.
Today ==
  { "stakeholders", "tours", "keypoints", "reviews", "tourist-position", "executions", "blog", "followers",
    "checkout", "shopping-cart" }

OlderRules ==
  { Below(<<"auth">>, Method, Proxy("stakeholders", <<"stakeholders">>)),
    Below(<<"accounts">>, Method, Proxy("stakeholders", <<"stakeholders", "accounts">>)),
    Below(<<"profiles">>, Method, Proxy("stakeholders", <<"stakeholders", "profile">>)) }

\* A rule that leaves the path as it is: a call, or a proxy of one segment for itself.
Direct(rule) ==
  \/ rule.does.kind = "rpc"
  \/ rule.does.kind = "proxy" /\ Len(rule.at) = 1 /\ rule.does.prefix = rule.at

\* The three rules that refuse.
Refuses(rule) ==
  \/ rule.at = <<"stakeholders", "login">> /\ ~rule.below /\ "POST" \notin rule.methods
  \/ rule.at = <<"stakeholders", "profile">> /\ ~rule.below /\ "GET" \notin rule.methods
  \/ rule.at = <<"tours", "grpc">> /\ "GET" \notin rule.methods

Sorted(rule) ==
  /\ rule.at \in Seq(Segment) /\ Len(rule.at) \in 1..4 /\ rule.at[1] # "*"
  /\ \/ Refuses(rule)
     \/ rule \in OlderRules
     \/ rule.at[1] \in Today /\ rule.does.service = ServiceOf(rule.at[1]) /\ Direct(rule)

\* The services of the names.
LEMMA Services ==
  /\ ServiceOf("stakeholders") = "stakeholders"
  /\ ServiceOf("tours") = "tours" /\ ServiceOf("keypoints") = "tours" /\ ServiceOf("reviews") = "tours"
  /\ ServiceOf("tourist-position") = "tours" /\ ServiceOf("executions") = "tours"
  /\ ServiceOf("blog") = "blog" /\ ServiceOf("followers") = "followers"
  /\ ServiceOf("checkout") = "payments" /\ ServiceOf("shopping-cart") = "payments"
BY DEF ServiceOf

\* A call, or a proxy of one segment for itself.
LEMMA SortedByForm ==
  ASSUME NEW pattern \in Seq(Segment), Len(pattern) \in 1..4, pattern[1] \in Today, NEW below, NEW methods, NEW does,
         does.service = ServiceOf(pattern[1]),
         does.kind = "rpc" \/ (does.kind = "proxy" /\ Len(pattern) = 1 /\ does.prefix = pattern)
  PROVE  Sorted([at |-> pattern, below |-> below, methods |-> methods, does |-> does])
BY DEF Sorted, Direct, Today

\* The two rules that pass a name on.
LEMMA ForwardSorted ==
  ASSUME NEW name \in Today, NEW service, service = ServiceOf(name),
         NEW rule \in Forward(name, service)
  PROVE  Sorted(rule)
<1> DEFINE pattern == <<name>>
           does == Proxy(service, pattern)
<1>1. pattern \in Seq(Segment) /\ Len(pattern) = 1 /\ pattern[1] = name
  BY DEF Segment, Today
<1>2. does.service = service /\ does.kind = "proxy" /\ does.prefix = pattern
  BY DEF Proxy
<1>3. \/ rule = [at |-> pattern, below |-> FALSE, methods |-> Method, does |-> does]
      \/ rule = [at |-> pattern, below |-> TRUE, methods |-> Method, does |-> does]
  BY DEF Forward, Exact, Below
<1> HIDE DEF pattern, does
<1>4. \A below : Sorted([at |-> pattern, below |-> below, methods |-> Method, does |-> does])
  BY <1>1, <1>2, SortedByForm
<1> QED  BY <1>3, <1>4

\* The whole table.
LEMMA RulesSorted == \A rule \in Rules : Sorted(rule)
<1> USE Services
<1> USE DEF Sorted, Direct, Refuses, OlderRules, Today, Exact, Below, Rpc, Proxy, Refuse, Segment
<1>1. /\ Sorted(Exact(<<"stakeholders", "login">>, {"POST"}, Rpc("stakeholders", "Login")))
      /\ Sorted(Exact(<<"stakeholders", "profile">>, {"GET"}, Rpc("stakeholders", "GetProfile")))
  OBVIOUS
<1>2. /\ Sorted(Exact(<<"stakeholders", "login">>, Method \ {"POST"}, Refuse(405)))
      /\ Sorted(Exact(<<"stakeholders", "profile">>, Method \ {"GET"}, Refuse(405)))
  OBVIOUS
<1>3. /\ Sorted(Below(<<"auth">>, Method, Proxy("stakeholders", <<"stakeholders">>)))
      /\ Sorted(Below(<<"accounts">>, Method, Proxy("stakeholders", <<"stakeholders", "accounts">>)))
      /\ Sorted(Below(<<"profiles">>, Method, Proxy("stakeholders", <<"stakeholders", "profile">>)))
  OBVIOUS
<1>4. /\ Sorted(Exact(<<"blog">>, {"GET"}, Rpc("blog", "GetAllBlogs")))
      /\ Sorted(Below(<<"blog">>, {"GET"}, Rpc("blog", "GetBlog")))
  OBVIOUS
<1>5. /\ Sorted(Exact(<<"blog">>, Method \ {"GET"}, Proxy("blog", <<"blog">>)))
      /\ Sorted(Below(<<"blog">>, Method \ {"GET"}, Proxy("blog", <<"blog">>)))
      /\ Sorted(Below(<<"followers">>, Method, Proxy("followers", <<"followers">>)))
  OBVIOUS
<1>6. /\ Sorted(Exact(<<"tours", "grpc", "published">>, {"GET"}, Rpc("tours", "GetPublishedTours")))
      /\ Sorted(Below(<<"tours", "grpc">>, {"GET"}, Rpc("tours", "GetTour")))
  OBVIOUS
<1>7. Sorted(Below(<<"tours", "grpc">>, Method \ {"GET"}, Refuse(405)))
  OBVIOUS
<1>8. /\ Sorted(Below(<<"checkout">>, {"POST"}, Rpc("payments", "Checkout")))
      /\ Sorted(Below(<<"checkout">>, Method \ {"POST"}, Proxy("payments", <<"checkout">>)))
  OBVIOUS
<1>9. /\ Sorted(Exact(<<"checkout", "*", "has-purchased", "*">>, {"GET"}, Rpc("payments", "HasPurchased")))
      /\ Sorted(Below(<<"checkout", "*", "has-purchased", "*">>, {"GET"}, Rpc("payments", "HasPurchased")))
  OBVIOUS
<1> HIDE DEF Sorted, Direct, Refuses, OlderRules, Exact, Below, Rpc, Proxy, Refuse
<1>10. /\ \A rule \in Forward("stakeholders", "stakeholders") : Sorted(rule)
       /\ \A rule \in Forward("shopping-cart", "payments") : Sorted(rule)
       /\ \A rule \in ToursRules \union ExecutionRules : Sorted(rule)
  BY ForwardSorted DEF ToursRules, ExecutionRules
<1>11. \A rule \in StakeholdersRules : Sorted(rule)
  BY <1>1, <1>2, <1>3, <1>10 DEF StakeholdersRules
<1>12. \A rule \in BlogRules \union FollowersRules : Sorted(rule)
  BY <1>4, <1>5 DEF BlogRules, FollowersRules
<1>13. \A rule \in ToursGrpcRules : Sorted(rule)
  BY <1>6, <1>7 DEF ToursGrpcRules
<1>14. \A rule \in PaymentsRules : Sorted(rule)
  BY <1>8, <1>9, <1>10 DEF PaymentsRules
<1> QED  BY <1>10, <1>11, <1>12, <1>13, <1>14 DEF Rules

\* The first segments of a path.
LEMMA StartOf ==
  ASSUME NEW path \in Seq(Segment), NEW n \in Nat, n <= Len(path)
  PROVE  Len(SubSeq(path, 1, n)) = n /\ \A i \in 1..n : SubSeq(path, 1, n)[i] = path[i]
OBVIOUS

\* Matches, segment by segment.
LEMMA MatchesTells ==
  ASSUME NEW pattern \in Seq(Segment), NEW path, Matches(pattern, path)
  PROVE  Len(pattern) = Len(path) /\ \A i \in 1..Len(pattern) : pattern[i] \in {"*", path[i]}
BY DEF Matches

\* A rule that fits agrees with the path, segment by segment.
LEMMA FitsBySegment ==
  ASSUME NEW rule, Sorted(rule), NEW q, q.path \in Seq(Segment), Fits(rule, q)
  PROVE  /\ q.method \in rule.methods
         /\ Len(rule.at) <= Len(q.path) /\ (~rule.below => Len(rule.at) = Len(q.path))
         /\ \A i \in 1..Len(rule.at) : rule.at[i] \in {"*", q.path[i]}
<1>1. CASE rule.below
  <2> DEFINE n == Len(rule.at)
             start == SubSeq(q.path, 1, n)
  <2>1. n \in 1..4 /\ n < Len(q.path) /\ Matches(rule.at, start) /\ q.method \in rule.methods
    BY <1>1 DEF Fits, Sorted
  <2>2. Len(start) = n /\ \A i \in 1..n : start[i] = q.path[i]
    BY <2>1, StartOf
  <2> HIDE DEF start
  <2>3. \A i \in 1..n : rule.at[i] \in {"*", start[i]}
    BY <2>1, MatchesTells DEF Sorted
  <2>4. \A i \in 1..n : rule.at[i] \in {"*", q.path[i]}
    BY <2>2, <2>3
  <2> QED  BY <1>1, <2>1, <2>4
<1>2. CASE ~rule.below
  BY <1>2 DEF Fits, Sorted, Matches
<1> QED  BY <1>1, <1>2

\* Among the rules that fit a request Dispatch takes one that no other is longer than.
LEMMA DispatchFits ==
  ASSUME NEW q, NEW some \in Rules, Fits(some, q)
  PROVE  \E rule \in Rules : /\ Fits(rule, q) /\ Len(some.at) <= Len(rule.at)
                             /\ Dispatch(q).does = rule.does /\ Dispatch(q).at = rule.at
<1> DEFINE fits == {r \in Rules : Fits(r, q)}
           best == CHOOSE r \in fits : \A s \in fits : Len(s.at) <= Len(r.at)
<1>1. some \in fits
  OBVIOUS
<1>2. best \in fits /\ \A s \in fits : Len(s.at) <= Len(best.at)
  BY <1>1, Longest
<1>3. Dispatch(q).does = best.does /\ Dispatch(q).at = best.at
  BY <1>1 DEF Dispatch
<1> HIDE DEF best
<1> QED  BY <1>1, <1>2, <1>3

\* A request that no rule refuses, under a name of today.
Plain(q) ==
  /\ q.method \in Method /\ q.path \in Seq(Segment) /\ Len(q.path) \in 1..4
  /\ q.path[1] \in Today
  /\ q.path[1] \in {"followers", "checkout"} => Len(q.path) > 1
  /\ Len(q.path) = 2 /\ q.path[1] = "stakeholders" /\ q.path[2] = "login" => q.method = "POST"
  /\ Len(q.path) = 2 /\ q.path[1] = "stakeholders" /\ q.path[2] = "profile" => q.method = "GET"
  /\ Len(q.path) > 1 /\ q.path[1] = "tours" /\ q.path[2] = "grpc" => q.method = "GET"

\* Every rule that fits such a request leaves its path as it is.
LEMMA FittingAreDirect ==
  ASSUME NEW q, Plain(q), NEW rule \in Rules, Fits(rule, q)
  PROVE  Direct(rule) /\ rule.does.service = ServiceOf(q.path[1])
<1>1. Sorted(rule)
  BY RulesSorted
<1>2. /\ q.method \in rule.methods
      /\ Len(rule.at) <= Len(q.path) /\ (~rule.below => Len(rule.at) = Len(q.path))
      /\ \A i \in 1..Len(rule.at) : rule.at[i] \in {"*", q.path[i]}
  BY <1>1, FitsBySegment DEF Plain
<1>3. rule.at[1] = q.path[1]
  BY <1>1, <1>2 DEF Sorted
<1>4. ~Refuses(rule)
  <2>1. ASSUME NEW a, NEW b, rule.at = <<a, b>>, b # "*"
        PROVE  /\ q.path[1] = a /\ q.path[2] = b /\ Len(q.path) >= 2
               /\ ~rule.below => Len(q.path) = 2
    <3>1. Len(rule.at) = 2 /\ rule.at[1] = a /\ rule.at[2] = b
      BY <2>1
    <3> QED  BY <1>2, <1>3, <2>1, <3>1 DEF Plain
  <2>2. ~(rule.at = <<"stakeholders", "login">> /\ ~rule.below /\ "POST" \notin rule.methods)
    BY <1>2, <2>1 DEF Plain
  <2>3. ~(rule.at = <<"stakeholders", "profile">> /\ ~rule.below /\ "GET" \notin rule.methods)
    BY <1>2, <2>1 DEF Plain
  <2>4. ~(rule.at = <<"tours", "grpc">> /\ "GET" \notin rule.methods)
    BY <1>2, <2>1 DEF Plain
  <2> QED  BY <2>2, <2>3, <2>4 DEF Refuses
<1>5. rule \notin OlderRules
  BY <1>3 DEF OlderRules, Below, Plain, Today
<1> QED  BY <1>1, <1>3, <1>4, <1>5 DEF Sorted

\* A path of one segment.
LEMMA OneSegment ==
  ASSUME NEW a, NEW path \in Seq(Segment), Len(path) = 1, path[1] = a
  PROVE  Matches(<<a>>, path) /\ Len(<<a>>) = 1
BY DEF Matches

\* A rule of one segment fits its path, or everything below it.
LEMMA FitsBelow ==
  ASSUME NEW q, Plain(q), Len(q.path) > 1, NEW does, NEW methods, q.method \in methods
  PROVE  Fits(Below(<<q.path[1]>>, methods, does), q)
<1> DEFINE first == <<q.path[1]>>
           start == SubSeq(q.path, 1, 1)
<1>1. Len(start) = 1 /\ start[1] = q.path[1] /\ start \in Seq(Segment)
  BY StartOf DEF Plain
<1>2. Matches(first, start) /\ Len(first) = 1
  <2> HIDE DEF start
  <2> QED  BY <1>1, OneSegment
<1> HIDE DEF first
<1>3. Fits([at |-> first, below |-> TRUE, methods |-> methods, does |-> does], q)
  BY <1>2 DEF Fits
<1> QED  BY <1>3 DEF Below, first

LEMMA FitsExact ==
  ASSUME NEW q, Plain(q), Len(q.path) = 1, NEW does, NEW methods, q.method \in methods
  PROVE  Fits(Exact(<<q.path[1]>>, methods, does), q)
<1> DEFINE first == <<q.path[1]>>
<1>1. Matches(first, q.path)
  BY OneSegment DEF Plain
<1> HIDE DEF first
<1>2. Fits([at |-> first, below |-> FALSE, methods |-> methods, does |-> does], q)
  BY <1>1 DEF Fits
<1> QED  BY <1>2 DEF Exact, first

\* What is passed on under its name fits; so some rule fits any such request.
LEMMA ForwardFits ==
  ASSUME NEW q, Plain(q), NEW service, Forward(q.path[1], service) \subseteq Rules
  PROVE  \E rule \in Rules : Fits(rule, q)
<1>1. CASE Len(q.path) = 1
  BY <1>1, FitsExact DEF Forward, Plain
<1>2. CASE Len(q.path) > 1
  BY <1>2, FitsBelow DEF Forward, Plain
<1>3. Len(q.path) = 1 \/ Len(q.path) > 1
  BY DEF Plain
<1> QED  BY <1>1, <1>2, <1>3

LEMMA SomeRuleFits ==
  ASSUME NEW q, Plain(q)
  PROVE  \E rule \in Rules : Fits(rule, q)
<1> DEFINE name == q.path[1]
<1>1. CASE name \in {"stakeholders", "tours", "keypoints", "reviews", "tourist-position", "executions",
                     "shopping-cart"}
  <2>1. Forward("stakeholders", "stakeholders") \subseteq Rules
    BY DEF Rules, StakeholdersRules
  <2>2. Forward("shopping-cart", "payments") \subseteq Rules
    BY DEF Rules, PaymentsRules
  <2>3. \A n \in {"tours", "keypoints", "reviews", "tourist-position", "executions"} :
          Forward(n, "tours") \subseteq Rules
    BY DEF Rules, ToursRules, ExecutionRules
  <2> QED  BY <1>1, <2>1, <2>2, <2>3, ForwardFits
<1>2. CASE name = "blog" /\ Len(q.path) = 1
  BY <1>2, FitsExact DEF Rules, BlogRules, Plain
<1>3. CASE name = "blog" /\ Len(q.path) > 1
  BY <1>3, FitsBelow DEF Rules, BlogRules, Plain
<1>4. CASE name = "followers"
  BY <1>4, FitsBelow DEF Rules, FollowersRules, Plain
<1>5. CASE name = "checkout"
  BY <1>5, FitsBelow DEF Rules, PaymentsRules, Plain
<1> QED  BY <1>1, <1>2, <1>3, <1>4, <1>5 DEF Plain, Today

\* What is asked of the service is the very path that was sent, unless it is a call.
LEMMA PlainRequests ==
  ASSUME NEW q, Plain(q)
  PROVE  \/ Dispatch(q).does.kind = "rpc"
         \/ /\ Dispatch(q).does.kind = "proxy" /\ Dispatch(q).does.service = ServiceOf(q.path[1])
            /\ Rewritten(q) = q.path
<1>1. PICK some \in Rules : Fits(some, q)
  BY SomeRuleFits
<1>2. PICK rule \in Rules : Fits(rule, q) /\ Dispatch(q).does = rule.does /\ Dispatch(q).at = rule.at
  BY <1>1, DispatchFits
<1>3. Direct(rule) /\ rule.does.service = ServiceOf(q.path[1])
  BY <1>2, FittingAreDirect
<1>4. ASSUME rule.does.kind = "proxy"  PROVE Rewritten(q) = q.path
  <2>1. rule.at = <<q.path[1]>>
    <3>1. Sorted(rule) /\ Len(rule.at) = 1
      BY <1>3, <1>4, RulesSorted DEF Direct
    <3>2. rule.at[1] = q.path[1]
      BY <1>2, <3>1, FitsBySegment DEF Plain, Sorted
    <3> QED  BY <3>1, <3>2 DEF Sorted
  <2>2. rule.does.prefix = rule.at
    BY <1>3, <1>4 DEF Direct
  <2>3. Rewritten(q) = <<q.path[1]>> \o SubSeq(q.path, 2, Len(q.path))
    BY <1>2, <2>1, <2>2 DEF Rewritten
  <2>4. q.path \in Seq(Segment) /\ Len(q.path) >= 1
    BY DEF Plain
  <2> QED  BY <2>3, <2>4
<1> QED  BY <1>2, <1>3, <1>4 DEF Direct

\* The requests that are plain, by the length of their paths.
LEMMA Plain1 ==
  ASSUME NEW m \in Method, NEW x \in Today \ {"followers", "checkout"}
  PROVE  Plain(Endpoint(m, <<x>>))
BY DEF Plain, Endpoint, Segment, Today

LEMMA Plain2 ==
  ASSUME NEW m \in Method, NEW x \in Today, NEW y \in Segment,
         x = "stakeholders" /\ y = "login" => m = "POST",
         x = "stakeholders" /\ y = "profile" => m = "GET",
         x = "tours" /\ y = "grpc" => m = "GET"
  PROVE  Plain(Endpoint(m, <<x, y>>))
<1>1. <<x, y>> \in Seq(Segment)
  BY DEF Segment, Today
<1> QED  BY <1>1 DEF Plain, Endpoint, Today

LEMMA Plain3 ==
  ASSUME NEW m \in Method, NEW x \in Today, NEW y \in Segment, NEW z \in Segment,
         x = "tours" /\ y = "grpc" => m = "GET"
  PROVE  Plain(Endpoint(m, <<x, y, z>>))
<1>1. <<x, y, z>> \in Seq(Segment)
  BY DEF Segment, Today
<1> QED  BY <1>1 DEF Plain, Endpoint, Today

LEMMA Plain4 ==
  ASSUME NEW m \in Method, NEW x \in Today, NEW y \in Segment, NEW z \in Segment, NEW u \in Segment,
         x = "tours" /\ y = "grpc" => m = "GET"
  PROVE  Plain(Endpoint(m, <<x, y, z, u>>))
<1>1. <<x, y, z, u>> \in Seq(Segment)
  BY DEF Segment, Today
<1> QED  BY <1>1 DEF Plain, Endpoint, Today

\* The service has an endpoint for the path that was sent.
Served(q) ==
  \E e \in Endpoints(ServiceOf(q.path[1])) : e.method = q.method /\ Matches(e.path, q.path)

\* The same for those that are served.
LEMMA Served1 ==
  ASSUME NEW m, NEW x, Endpoint(m, <<x>>) \in Endpoints(ServiceOf(x))
  PROVE  Served(Endpoint(m, <<x>>))
<1>1. Matches(<<x>>, <<x>>)
  BY DEF Matches
<1> QED  BY <1>1 DEF Served, Endpoint

LEMMA Served2 ==
  ASSUME NEW m, NEW b, NEW x, NEW y, b \in {"*", y}, Endpoint(m, <<x, b>>) \in Endpoints(ServiceOf(x))
  PROVE  Served(Endpoint(m, <<x, y>>))
<1>1. Matches(<<x, b>>, <<x, y>>)
  BY DEF Matches
<1> QED  BY <1>1 DEF Served, Endpoint

LEMMA Served3 ==
  ASSUME NEW m, NEW b, NEW c, NEW x, NEW y, NEW z, b \in {"*", y}, c \in {"*", z},
         Endpoint(m, <<x, b, c>>) \in Endpoints(ServiceOf(x))
  PROVE  Served(Endpoint(m, <<x, y, z>>))
<1>1. Matches(<<x, b, c>>, <<x, y, z>>)
  BY DEF Matches
<1> QED  BY <1>1 DEF Served, Endpoint

LEMMA Served4 ==
  ASSUME NEW m, NEW b, NEW c, NEW d, NEW x, NEW y, NEW z, NEW u,
         b \in {"*", y}, c \in {"*", z}, d \in {"*", u},
         Endpoint(m, <<x, b, c, d>>) \in Endpoints(ServiceOf(x))
  PROVE  Served(Endpoint(m, <<x, y, z, u>>))
<1>1. Matches(<<x, b, c, d>>, <<x, y, z, u>>)
  BY DEF Matches
<1> QED  BY <1>1 DEF Served, Endpoint

\* The pages' requests have their paths as endpoints; editing a profile is not among them.
LEMMA PagesServed == \A q \in PageRequests \ {EditProfile} : Served(q)
<1> USE Served1, Served2, Served3, Served4, Services DEF Endpoints
<1>1. \A q \in AccountRequests \union (ProfileRequests \ {EditProfile}) : Served(q)
  BY DEF AccountRequests, ProfileRequests, StakeholdersEndpoints, ProfileEndpoints
<1>2. \A q \in FollowersRequests : Served(q)
  BY DEF FollowersRequests, FollowersEndpoints
<1>3. \A q \in TourRequests : Served(q)
  BY DEF TourRequests, ToursEndpoints
<1>4. \A q \in ExecutionRequests : Served(q)
  BY DEF ExecutionRequests, ToursEndpoints
<1>5. \A q \in ShopRequests : Served(q)
  BY DEF ShopRequests, CartEndpoints, CheckoutEndpoints
<1>6. \A q \in BlogRequests : Served(q)
  BY DEF BlogRequests, BlogEndpoints
<1> QED  BY <1>1, <1>2, <1>3, <1>4, <1>5, <1>6 DEF PageRequests

\* No rule refuses them.
LEMMA PagesPlain == \A q \in PageRequests \ {EditProfile} : Plain(q)
<1> USE Plain1, Plain2, Plain3, Plain4
<1>0. /\ "GET" \in Method /\ "POST" \in Method /\ "PUT" \in Method /\ "DELETE" \in Method /\ "PATCH" \in Method
      /\ "x" \in Segment /\ Today \subseteq Segment
  BY DEF Method, Segment, Today
<1>1. \A q \in AccountRequests \union (ProfileRequests \ {EditProfile}) : Plain(q)
  <2>1. \A y \in {"login", "register", "accounts", "block", "profile", "search"} : y \in Segment
    BY DEF Segment
  <2> QED  BY <1>0, <2>1 DEF AccountRequests, ProfileRequests, Today
<1>2. \A q \in FollowersRequests : Plain(q)
  <2>1. \A y \in {"follow", "following", "is-following", "recommendations"} : y \in Segment
    BY DEF Segment
  <2> QED  BY <1>0, <2>1 DEF FollowersRequests, Today
<1>3. \A q \in TourRequests : Plain(q)
  <2>1. \A y \in {"author", "publish", "archive", "activate", "tour"} : y \in Segment
    BY DEF Segment
  <2> QED  BY <1>0, <2>1 DEF TourRequests, Today
<1>4. \A q \in ExecutionRequests : Plain(q)
  <2>1. \A y \in {"tourist", "check-keypoint", "complete", "abandon"} : y \in Segment
    BY DEF Segment
  <2> QED  BY <1>0, <2>1 DEF ExecutionRequests, Today
<1>5. \A q \in ShopRequests : Plain(q)
  <2>1. \A y \in {"items", "purchases", "has-purchased"} : y \in Segment
    BY DEF Segment
  <2> QED  BY <1>0, <2>1 DEF ShopRequests, Today
<1>6. \A q \in BlogRequests : Plain(q)
  <2>1. \A y \in {"comments", "like"} : y \in Segment
    BY DEF Segment
  <2> QED  BY <1>0, <2>1 DEF BlogRequests, Today
<1> QED  BY <1>1, <1>2, <1>3, <1>4, <1>5, <1>6 DEF PageRequests

\* A request under an older name is rewritten by the one rule for it.
LEMMA OlderRequests ==
  ASSUME NEW q, q.method \in Method, q.path \in Seq(Segment), Len(q.path) > 1,
         NEW name \in {"auth", "accounts", "profiles"}, q.path[1] = name, NEW prefix,
         Below(<<name>>, Method, Proxy("stakeholders", prefix)) \in OlderRules
  PROVE  /\ Dispatch(q).does.kind = "proxy" /\ Dispatch(q).does.service = "stakeholders"
         /\ Rewritten(q) = prefix \o SubSeq(q.path, 2, Len(q.path))
<1> DEFINE does == Proxy("stakeholders", prefix)
           only == Below(<<name>>, Method, does)
<1>1. only \in Rules /\ Fits(only, q)
  <2>1. only \in Rules
    BY DEF OlderRules, Rules, StakeholdersRules
  <2> DEFINE first == <<name>>
             start == SubSeq(q.path, 1, 1)
  <2>2. Len(start) = 1 /\ start[1] = name /\ start \in Seq(Segment)
    BY StartOf
  <2>3. Matches(first, start) /\ Len(first) = 1
    <3> HIDE DEF start
    <3> QED  BY <2>2, OneSegment
  <2> HIDE DEF first, does
  <2>4. Fits([at |-> first, below |-> TRUE, methods |-> Method, does |-> does], q)
    BY <2>3 DEF Fits
  <2> QED  BY <2>1, <2>4 DEF Below, first
<1>2. PICK rule \in Rules : Fits(rule, q) /\ Dispatch(q).does = rule.does /\ Dispatch(q).at = rule.at
  <2> HIDE DEF only
  <2> QED  BY <1>1, DispatchFits
<1>3. Sorted(rule) /\ rule.at[1] = name
  <2>1. Sorted(rule)
    BY RulesSorted
  <2> QED  BY <1>2, <2>1, FitsBySegment DEF Sorted
<1>4. rule \in OlderRules
  <2>1. ~Refuses(rule)
    BY <1>3 DEF Refuses
  <2>2. rule.at[1] \notin Today
    BY <1>3 DEF Today
  <2> QED  BY <1>3, <2>1, <2>2 DEF Sorted
<1>5. rule = only
  BY <1>3, <1>4 DEF OlderRules, Below
<1>6. rule.at = <<name>> /\ rule.does = does
  BY <1>5 DEF Below
<1>7. Len(rule.at) = 1
  BY <1>6
<1> QED  BY <1>2, <1>6, <1>7 DEF Rewritten, Proxy

\* The tours' gRPC paths are calls: the rules for them are longer than the proxy's.
LEMMA GrpcRequests ==
  ASSUME NEW y \in Segment
  PROVE  Dispatch(Endpoint("GET", <<"tours", "grpc", y>>)).does.kind = "rpc"
<1> DEFINE path == <<"tours", "grpc", y>>
           q == Endpoint("GET", path)
           some == Below(<<"tours", "grpc">>, {"GET"}, Rpc("tours", "GetTour"))
<1>1. Plain(q)
  <2>1. "GET" \in Method /\ "grpc" \in Segment /\ "tours" \in Today
    BY DEF Method, Segment, Today
  <2> QED  BY <2>1, Plain3
<1>2. some \in Rules /\ Len(some.at) = 2 /\ Fits(some, q)
  <2>1. some \in Rules
    BY DEF Rules, ToursGrpcRules
  <2> DEFINE start == SubSeq(path, 1, 2)
  <2>2. path \in Seq(Segment) /\ Len(path) = 3 /\ path[1] = "tours" /\ path[2] = "grpc"
    BY DEF Segment
  <2>3. Len(start) = 2 /\ start[1] = "tours" /\ start[2] = "grpc"
    <3> HIDE DEF path
    <3> QED  BY <2>2, StartOf
  <2>4. Matches(<<"tours", "grpc">>, start)
    <3> HIDE DEF start
    <3> QED  BY <2>3 DEF Matches
  <2>5. q.path = path /\ q.method = "GET"
    BY DEF Endpoint
  <2>6. some.at = <<"tours", "grpc">> /\ some.below /\ some.methods = {"GET"} /\ Len(some.at) = 2
    BY DEF Below
  <2> HIDE DEF path, q, some
  <2> QED  BY <2>1, <2>2, <2>4, <2>5, <2>6 DEF Fits
<1> HIDE DEF path, q, some
<1>3. PICK rule \in Rules : /\ Fits(rule, q) /\ Len(some.at) <= Len(rule.at)
                            /\ Dispatch(q).does = rule.does
  BY <1>2, DispatchFits
<1>4. Direct(rule) /\ Len(rule.at) # 1
  <2>1. Direct(rule)
    BY <1>1, <1>3, FittingAreDirect
  <2>2. Len(rule.at) \in Nat
    BY RulesSorted DEF Sorted
  <2>3. 2 <= Len(rule.at)
    BY <1>2, <1>3
  <2> QED  BY <2>1, <2>2, <2>3
<1>5. Dispatch(q).does.kind = "rpc"
  BY <1>3, <1>4 DEF Direct
<1> QED  BY <1>5 DEF q, path

\* A service is called, or has an endpoint for the rewritten path.
Found(q) ==
  \/ Dispatch(q).does.kind = "rpc"
  \/ Dispatch(q).does.kind = "proxy" /\ HasEndpoint(q)

\* The segments of two sequences in a row, and of all but the first of a path.
LEMMA JoinTells ==
  ASSUME NEW front \in Seq(Segment), NEW tail \in Seq(Segment)
  PROVE  /\ Len(front \o tail) = Len(front) + Len(tail)
         /\ \A i \in 1..Len(front) : (front \o tail)[i] = front[i]
         /\ \A i \in 1..Len(tail) : (front \o tail)[Len(front) + i] = tail[i]
OBVIOUS

LEMMA RestTells ==
  ASSUME NEW path \in Seq(Segment), Len(path) > 1
  PROVE  LET tail == SubSeq(path, 2, Len(path))
         IN  /\ tail \in Seq(Segment) /\ Len(tail) = Len(path) - 1
             /\ \A i \in 1..Len(tail) : tail[i] = path[i + 1]
OBVIOUS

LEMMA MatchesBy ==
  ASSUME NEW pattern \in Seq(Segment), NEW path, Len(path) = Len(pattern),
         \A i \in 1..Len(pattern) : pattern[i] \in {"*", path[i]}
  PROVE  Matches(pattern, path)
BY DEF Matches

\* A pattern that has the prefix, and then fits what follows the older name, is found.
LEMMA OlderServed ==
  ASSUME NEW q, q.method \in Method, q.path \in Seq(Segment), Len(q.path) > 1,
         NEW name \in {"auth", "accounts", "profiles"}, q.path[1] = name,
         NEW prefix \in Seq(Segment), NEW pattern \in Seq(Segment),
         Below(<<name>>, Method, Proxy("stakeholders", prefix)) \in OlderRules,
         Endpoint(q.method, pattern) \in StakeholdersEndpoints \union ProfileEndpoints,
         Len(pattern) = Len(prefix) + Len(q.path) - 1,
         \A i \in 1..Len(prefix) : pattern[i] = prefix[i],
         \A i \in 1..(Len(q.path) - 1) : pattern[Len(prefix) + i] \in {"*", q.path[i + 1]}
  PROVE  Found(q)
<1> DEFINE tail == SubSeq(q.path, 2, Len(q.path))
           goes == prefix \o tail
<1>1. tail \in Seq(Segment) /\ Len(tail) = Len(q.path) - 1 /\ \A i \in 1..Len(tail) : tail[i] = q.path[i + 1]
  BY RestTells
<1>2. Dispatch(q).does.kind = "proxy" /\ Dispatch(q).does.service = "stakeholders" /\ Rewritten(q) = goes
  BY OlderRequests
<1> HIDE DEF tail
<1>3. /\ Len(goes) = Len(prefix) + Len(tail)
      /\ \A i \in 1..Len(prefix) : goes[i] = prefix[i]
      /\ \A i \in 1..Len(tail) : goes[Len(prefix) + i] = tail[i]
  BY <1>1, JoinTells
<1> HIDE DEF goes
<1>4. ASSUME NEW i \in 1..Len(pattern)  PROVE pattern[i] \in {"*", goes[i]}
  <2>1. CASE i <= Len(prefix)
    BY <1>3, <2>1
  <2>2. CASE i > Len(prefix)
    <3> DEFINE k == i - Len(prefix)
    <3>1. k \in 1..Len(tail) /\ i = Len(prefix) + k
      BY <1>1, <2>2
    <3> HIDE DEF k
    <3>2. goes[i] = q.path[k + 1] /\ pattern[i] \in {"*", q.path[k + 1]}
      BY <1>1, <1>3, <3>1
    <3> QED  BY <3>2
  <2> QED  BY <2>1, <2>2
<1>5. Matches(pattern, goes)
  BY <1>1, <1>3, <1>4, MatchesBy
<1>6. \E e \in Endpoints("stakeholders") : e.method = q.method /\ Matches(e.path, goes)
  <2>1. Endpoint(q.method, pattern).method = q.method /\ Endpoint(q.method, pattern).path = pattern
    BY DEF Endpoint
  <2>2. Endpoints("stakeholders") = StakeholdersEndpoints \union ProfileEndpoints
    BY DEF Endpoints
  <2> QED  BY <1>5, <2>1, <2>2
<1> QED  BY <1>2, <1>6 DEF Found, HasEndpoint

\* An older path is rewritten to one that has an endpoint.
LEMMA OlderFound ==
  /\ Found(Endpoint("POST", <<"auth", "login">>))
  /\ Found(Endpoint("PATCH", <<"accounts", "x", "block">>))
  /\ Found(Endpoint("GET", <<"profiles", "x">>))
<1>1. Found(Endpoint("POST", <<"auth", "login">>))
  <2> DEFINE path == <<"auth", "login">>
             q == Endpoint("POST", path)
             prefix == <<"stakeholders">>
             pattern == <<"stakeholders", "login">>
  <2>1. /\ path \in Seq(Segment) /\ Len(path) = 2
        /\ path[1] = "auth" /\ path[2] = "login"
    BY DEF Segment
  <2>2. /\ prefix \in Seq(Segment) /\ Len(prefix) = 1
        /\ prefix[1] = "stakeholders"
    BY DEF Segment
  <2>3. /\ pattern \in Seq(Segment) /\ Len(pattern) = 2
        /\ pattern[1] = "stakeholders" /\ pattern[2] = "login"
    BY DEF Segment
  <2>4. q.method = "POST" /\ q.path = path /\ "POST" \in Method
    BY DEF Endpoint, Method
  <2>5. Endpoint("POST", pattern) \in StakeholdersEndpoints \union ProfileEndpoints
    BY DEF StakeholdersEndpoints, ProfileEndpoints
  <2>6. Below(<<"auth">>, Method, Proxy("stakeholders", prefix)) \in OlderRules
    BY DEF OlderRules
  <2> HIDE DEF q, path, prefix, pattern
  <2>7. /\ \A i \in 1..Len(prefix) : pattern[i] = prefix[i]
        /\ \A i \in 1..(Len(path) - 1) : pattern[Len(prefix) + i] \in {"*", path[i + 1]}
    BY <2>1, <2>2, <2>3
  <2>8. Len(pattern) = Len(prefix) + Len(path) - 1 /\ Len(path) > 1
    BY <2>1, <2>2, <2>3
  <2>9. Found(q)
    BY <2>1, <2>2, <2>3, <2>4, <2>5, <2>6, <2>7, <2>8, OlderServed
  <2> QED  BY <2>9 DEF q, path
<1>2. Found(Endpoint("PATCH", <<"accounts", "x", "block">>))
  <2> DEFINE path == <<"accounts", "x", "block">>
             q == Endpoint("PATCH", path)
             prefix == <<"stakeholders", "accounts">>
             pattern == <<"stakeholders", "accounts", "*", "block">>
  <2>1. /\ path \in Seq(Segment) /\ Len(path) = 3
        /\ path[1] = "accounts" /\ path[2] = "x" /\ path[3] = "block"
    BY DEF Segment
  <2>2. /\ prefix \in Seq(Segment) /\ Len(prefix) = 2
        /\ prefix[1] = "stakeholders" /\ prefix[2] = "accounts"
    BY DEF Segment
  <2>3. /\ pattern \in Seq(Segment) /\ Len(pattern) = 4
        /\ pattern[1] = "stakeholders" /\ pattern[2] = "accounts" /\ pattern[3] = "*" /\ pattern[4] = "block"
    BY DEF Segment
  <2>4. q.method = "PATCH" /\ q.path = path /\ "PATCH" \in Method
    BY DEF Endpoint, Method
  <2>5. Endpoint("PATCH", pattern) \in StakeholdersEndpoints \union ProfileEndpoints
    BY DEF StakeholdersEndpoints, ProfileEndpoints
  <2>6. Below(<<"accounts">>, Method, Proxy("stakeholders", prefix)) \in OlderRules
    BY DEF OlderRules
  <2> HIDE DEF q, path, prefix, pattern
  <2>7. /\ \A i \in 1..Len(prefix) : pattern[i] = prefix[i]
        /\ \A i \in 1..(Len(path) - 1) : pattern[Len(prefix) + i] \in {"*", path[i + 1]}
    BY <2>1, <2>2, <2>3
  <2>8. Len(pattern) = Len(prefix) + Len(path) - 1 /\ Len(path) > 1
    BY <2>1, <2>2, <2>3
  <2>9. Found(q)
    BY <2>1, <2>2, <2>3, <2>4, <2>5, <2>6, <2>7, <2>8, OlderServed
  <2> QED  BY <2>9 DEF q, path
<1>3. Found(Endpoint("GET", <<"profiles", "x">>))
  <2> DEFINE path == <<"profiles", "x">>
             q == Endpoint("GET", path)
             prefix == <<"stakeholders", "profile">>
             pattern == <<"stakeholders", "profile", "*">>
  <2>1. /\ path \in Seq(Segment) /\ Len(path) = 2
        /\ path[1] = "profiles" /\ path[2] = "x"
    BY DEF Segment
  <2>2. /\ prefix \in Seq(Segment) /\ Len(prefix) = 2
        /\ prefix[1] = "stakeholders" /\ prefix[2] = "profile"
    BY DEF Segment
  <2>3. /\ pattern \in Seq(Segment) /\ Len(pattern) = 3
        /\ pattern[1] = "stakeholders" /\ pattern[2] = "profile" /\ pattern[3] = "*"
    BY DEF Segment
  <2>4. q.method = "GET" /\ q.path = path /\ "GET" \in Method
    BY DEF Endpoint, Method
  <2>5. Endpoint("GET", pattern) \in StakeholdersEndpoints \union ProfileEndpoints
    BY DEF StakeholdersEndpoints, ProfileEndpoints
  <2>6. Below(<<"profiles">>, Method, Proxy("stakeholders", prefix)) \in OlderRules
    BY DEF OlderRules
  <2> HIDE DEF q, path, prefix, pattern
  <2>7. /\ \A i \in 1..Len(prefix) : pattern[i] = prefix[i]
        /\ \A i \in 1..(Len(path) - 1) : pattern[Len(prefix) + i] \in {"*", path[i + 1]}
    BY <2>1, <2>2, <2>3
  <2>8. Len(pattern) = Len(prefix) + Len(path) - 1 /\ Len(path) > 1
    BY <2>1, <2>2, <2>3
  <2>9. Found(q)
    BY <2>1, <2>2, <2>3, <2>4, <2>5, <2>6, <2>7, <2>8, OlderServed
  <2> QED  BY <2>9 DEF q, path
<1> QED  BY <1>1, <1>2, <1>3

\* Every request but one is for something that a service has.
LEMMA AllFound == \A q \in AllRequests \ {EditProfile} : Found(q)
<1>1. \A q \in PageRequests \ {EditProfile} : Found(q)
  <2> SUFFICES ASSUME NEW q \in PageRequests \ {EditProfile}  PROVE Found(q)
    OBVIOUS
  <2>1. Plain(q) /\ Served(q)
    BY PagesPlain, PagesServed
  <2>2. CASE Dispatch(q).does.kind = "rpc"
    BY <2>2 DEF Found
  <2>3. CASE /\ Dispatch(q).does.kind = "proxy" /\ Dispatch(q).does.service = ServiceOf(q.path[1])
             /\ Rewritten(q) = q.path
    BY <2>1, <2>3 DEF Found, HasEndpoint, Served
  <2> QED  BY <2>1, <2>2, <2>3, PlainRequests
<1>2. /\ Found(Endpoint("GET", <<"tours", "grpc", "published">>))
      /\ Found(Endpoint("GET", <<"tours", "grpc", "x">>))
  <2>1. "published" \in Segment /\ "x" \in Segment
    BY DEF Segment
  <2> QED  BY <2>1, GrpcRequests DEF Found
<1> QED  BY <1>1, <1>2, OlderFound DEF AllRequests, OtherRequests

\* So only the one request can end where nobody serves it.
Unserved(r) == r.kind = "refuse" \/ ~r.found => r.request = EditProfile

LEMMA RequestsServed == \A r \in Requests : Unserved(r)
<1> SUFFICES ASSUME NEW r \in Requests  PROVE Unserved(r)
  OBVIOUS
<1>1. PICK q \in Request : r = Handled(q)
  BY DEF Requests
<1>2. CASE q = EditProfile
  BY <1>1, <1>2 DEF Unserved, Handled
<1>3. CASE q # EditProfile
  <2>1. Found(q)
    BY <1>3, AllFound, RequestAssumption
  <2> DEFINE does == Dispatch(q).does
  <2>2. /\ r.kind = does.kind /\ r.request = q
        /\ r.found = (does.kind = "rpc" \/ (does.kind = "proxy" /\ HasEndpoint(q)))
    BY <1>1 DEF Handled
  <2> QED  BY <2>1, <2>2 DEF Found, Unserved
<1> QED  BY <1>2, <1>3

-------------------------------------------------------------------------------

\* The statuses of the outcomes of a call.
LEMMA StatusTells ==
  ASSUME NEW name, NEW code
  PROVE  /\ Status(name, code) \in Nat
         /\ code # "OK" => Status(name, code) # 200
         /\ code \in {"Unavailable", "DeadlineExceeded"} /\ name # "Checkout" =>
              Status(name, code) \in {500, 503}
         /\ code = "ResourceExhausted" /\ name # "Checkout" => Status(name, code) \in {413, 500}
  BY DEF Status

LEMMA Refused == ASSUME NEW name PROVE "OK" \notin Refusal(name)
  BY DEF Refusal

GatewayInv == TypeOK /\ AnswerTells

\* The answer to c, if its status is one that speaks the truth.
LEMMA ReplyTells ==
  ASSUME TypeOK, AnswerTells, NEW c \in Client, NEW status \in Nat, Reply(c, status),
         UNCHANGED <<request, work>>,
         status = 200 => work[c] = "done",
         status \in (400..499) \ {413} /\ Name(c) # "Checkout" => work[c] \in Faulty
  PROVE  AnswerTells' /\ at' \in [Client -> {"idle", "wait", "forward", "asked", "broken"}]
                     /\ told' \in [Client -> Nat]
<1>1. at' \in [Client -> {"idle", "wait", "forward", "asked", "broken"}] /\ told' \in [Client -> Nat]
  BY DEF TypeOK, Reply
<1>2. ASSUME NEW d \in Client
      PROVE  /\ at'[d] = "idle" /\ told'[d] = 200 => work'[d] = "done"
             /\ at'[d] = "idle" /\ told'[d] \in (400..499) \ {413} /\ Name(d)' # "Checkout" =>
                  work'[d] \in Faulty
  <2>1. Name(d)' = Name(d) /\ work' = work
    BY DEF Name
  <2>2. CASE d = c
    BY <2>1, <2>2 DEF Reply, TypeOK
  <2>3. CASE d # c
    BY <2>1, <2>3 DEF Reply, TypeOK, AnswerTells
  <2> QED  BY <2>2, <2>3
<1> QED  BY <1>1, <1>2 DEF AnswerTells

\* The gateway's start, its channels and the services that start leave the clients alone.
LEMMA QuietSteps ==
  ASSUME GatewayInv,
         \/ Boot \/ UNCHANGED vars
         \/ \E s \in Grpc : Connect(s)
         \/ \E s \in Service : ServiceStarts(s)
  PROVE  GatewayInv'
<1>1. UNCHANGED clientVars
  BY DEF Boot, Start, DialStakeholders, DialPayments, DialFails, Connect, ServiceStarts, vars
<1>2. AnswerTells'
  BY <1>1 DEF GatewayInv, AnswerTells, clientVars, Name
<1>3. TypeOK'
  <2> USE DEF GatewayInv, TypeOK, clientVars
  <2>1. CASE Boot
    BY <1>1, <2>1 DEF Boot, Start, DialStakeholders, DialPayments, DialFails
  <2>2. CASE UNCHANGED vars
    BY <2>2 DEF vars
  <2>3. ASSUME NEW s \in Grpc, Connect(s)  PROVE TypeOK'
    BY <1>1, <2>3 DEF Connect
  <2>4. ASSUME NEW s \in Service, ServiceStarts(s)  PROVE TypeOK'
    BY <1>1, <2>4 DEF ServiceStarts
  <2> QED  BY <2>1, <2>2, <2>3, <2>4
<1> QED  BY <1>2, <1>3 DEF GatewayInv

\* A service stops, serves or rejects: what it has done, or answered with an error,
\* stays so.
LEMMA ServiceSteps ==
  ASSUME GatewayInv,
         \/ \E s \in Service : ServiceStops(s)
         \/ \E c \in Client : Serve(c) \/ Reject(c)
  PROVE  GatewayInv'
<1>1. /\ UNCHANGED <<gateway, request, told>>
      /\ work' \in [Client -> {"none", "working", "done"} \union Faulty]
      /\ \A d \in Client : work[d] # "working" => work'[d] = work[d]
      /\ \A d \in Client : at'[d] = "idle" => at[d] = "idle"
      /\ at' \in [Client -> {"idle", "wait", "forward", "asked", "broken"}]
  <2>1. ASSUME NEW s \in Service, ServiceStops(s)  PROVE <1>1!:
    BY <2>1 DEF GatewayInv, TypeOK, ServiceStops
  <2>2. ASSUME NEW c \in Client, Serve(c) \/ Reject(c)  PROVE <1>1!:
    BY <2>2 DEF GatewayInv, TypeOK, Serve, Reject, Faulty
  <2> QED  BY <2>1, <2>2
<1>2. AnswerTells'
  BY <1>1 DEF GatewayInv, AnswerTells, Name, Faulty
<1>3. running' \subseteq Service /\ channel' \in [Grpc -> {"closed", "idle", "connecting", "ready", "failing"}]
  BY DEF GatewayInv, TypeOK, ServiceStops, Serve, Reject
<1>4. TypeOK'
  BY <1>1, <1>3 DEF GatewayInv, TypeOK
<1> QED  BY <1>2, <1>4 DEF GatewayInv

\* A request comes in; one that is refused has a status that says so.
LEMMA SendStep ==
  ASSUME GatewayInv, NEW c \in Client, NEW r \in Requests, Send(c, r)
  PROVE  GatewayInv'
<1>1. /\ r.kind \in {"rpc", "proxy", "refuse"}
      /\ IF r.kind = "refuse" THEN r.status \in {404, 405} ELSE r.status = 0
  BY RequestsTell
<1>2. /\ request' \in [Client -> Requests] /\ told' \in [Client -> Nat]
      /\ at'[c] = "idle" => r.kind = "refuse"
      /\ at' \in [Client -> {"idle", "wait", "forward", "asked", "broken"}]
      /\ work' \in [Client -> {"none", "working", "done"} \union Faulty]
  BY <1>1 DEF GatewayInv, TypeOK, Send, Faulty
<1>3. ASSUME NEW d \in Client
      PROVE  /\ at'[d] = "idle" /\ told'[d] = 200 => work'[d] = "done"
             /\ at'[d] = "idle" /\ told'[d] \in (400..499) \ {413} /\ Name(d)' # "Checkout" =>
                  work'[d] \in Faulty
  <2>1. CASE d = c
    <3>1. told'[c] = r.status /\ (r.kind = "refuse" => work'[c] \in Faulty)
      BY DEF GatewayInv, TypeOK, Send, Faulty
    <3> QED  BY <1>1, <1>2, <2>1, <3>1
  <2>2. CASE d # c
    BY <2>2 DEF GatewayInv, TypeOK, AnswerTells, Send, Name
  <2> QED  BY <2>1, <2>2
<1>4. AnswerTells'
  BY <1>3 DEF AnswerTells
<1>5. TypeOK'
  BY <1>2 DEF GatewayInv, TypeOK, Send
<1> QED  BY <1>4, <1>5 DEF GatewayInv

\* The gateway's own 400: the request was invalid.
LEMMA TurnDownStep ==
  ASSUME GatewayInv, NEW c \in Client, NEW r \in Requests, TurnDown(c, r)
  PROVE  GatewayInv'
<1> USE DEF Faulty
<1>1. ASSUME NEW d \in Client
      PROVE  /\ at'[d] = "idle" /\ told'[d] = 200 => work'[d] = "done"
             /\ at'[d] = "idle" /\ told'[d] \in (400..499) \ {413} /\ Name(d)' # "Checkout" =>
                  work'[d] \in Faulty
  <2>1. CASE d = c
    BY <2>1 DEF GatewayInv, TypeOK, TurnDown
  <2>2. CASE d # c
    BY <2>2 DEF GatewayInv, TypeOK, AnswerTells, TurnDown, Name
  <2> QED  BY <2>1, <2>2
<1>2. AnswerTells'
  BY <1>1 DEF AnswerTells
<1>3. TypeOK'
  BY DEF GatewayInv, TypeOK, TurnDown
<1> QED  BY <1>2, <1>3 DEF GatewayInv

\* The handlers.
LEMMA HandleStep ==
  ASSUME GatewayInv, NEW c \in Client, Handle(c)
  PROVE  GatewayInv'
<1> USE DEF GatewayInv
<1>1. /\ UNCHANGED <<gateway, running, request>>
      /\ channel' \in [Grpc -> {"closed", "idle", "connecting", "ready", "failing"}]
      /\ work' \in [Client -> {"none", "working", "done"} \union Faulty]
  BY DEF TypeOK, Handle, Call, Forwards, Answer, Break, Deadline
<1>2. ASSUME NEW status \in Nat, Reply(c, status), UNCHANGED work,
             status = 200 => work[c] = "done",
             status \in (400..499) \ {413} /\ Name(c) # "Checkout" => work[c] \in Faulty
      PROVE  GatewayInv'
  BY <1>1, <1>2, ReplyTells DEF TypeOK
<1>3. ASSUME NEW code \in {"Unavailable", "DeadlineExceeded"}, Reply(c, Status(Name(c), code)), UNCHANGED work
      PROVE  GatewayInv'
  BY <1>2, <1>3, StatusTells
<1>4. CASE Call(c)
  <2>1. CASE UNCHANGED <<at, work, told>>
    BY <1>1, <2>1 DEF TypeOK, AnswerTells, Name
  <2>2. CASE at' = [at EXCEPT ![c] = "asked"] /\ UNCHANGED told /\ work' = [work EXCEPT ![c] = "working"]
    BY <1>1, <2>2 DEF TypeOK, AnswerTells, Name
  <2> QED  BY <1>3, <1>4, <2>1, <2>2 DEF Call
<1>5. CASE Forwards(c)
  <2>1. CASE at' = [at EXCEPT ![c] = "asked"] /\ UNCHANGED told /\ work' = [work EXCEPT ![c] = "working"]
    BY <1>1, <2>1 DEF TypeOK, AnswerTells, Name
  <2>2. CASE Reply(c, 502) /\ UNCHANGED work
    BY <1>2, <2>2
  <2> QED  BY <1>5, <2>1, <2>2 DEF Forwards
<1>6. CASE Answer(c)
  <2>1. CASE work[c] = "done" /\ Reply(c, 200)
    BY <1>2, <1>6, <2>1 DEF Answer
  <2>2. CASE work[c] = "done" /\ Name(c) \in Large /\ Reply(c, Status(Name(c), "ResourceExhausted"))
    <3>1. Name(c) # "Checkout"
      BY <2>2 DEF Large
    <3>2. Status(Name(c), "ResourceExhausted") \in {413, 500}
      BY <3>1, StatusTells
    <3> QED  BY <1>2, <1>6, <2>2, <3>2 DEF Answer
  <2>3. ASSUME work[c] = "failed", NEW code \in Refusal(Name(c)), Reply(c, Status(Name(c), code))
        PROVE  GatewayInv'
    <3>1. code # "OK"
      BY Refused
    <3> QED  BY <1>2, <1>6, <2>3, <3>1, StatusTells DEF Answer, Faulty
  <2>4. ASSUME work[c] = "failed", NEW status \in {400, 500}, Reply(c, status)
        PROVE  GatewayInv'
    BY <1>2, <1>6, <2>4 DEF Answer, Faulty
  <2>5. CASE work[c] = "unrouted" /\ Reply(c, 404)
    BY <1>2, <1>6, <2>5 DEF Answer, Faulty
  <2> QED  BY <1>6, <2>1, <2>2, <2>3, <2>4, <2>5 DEF Answer
<1>7. CASE Break(c)
  <2>1. CASE IsRpc(c)
    BY <1>3, <1>7, <2>1 DEF Break
  <2>2. CASE ~IsRpc(c)
    BY <1>2, <1>7, <2>2 DEF Break
  <2> QED  BY <2>1, <2>2
<1>8. CASE Deadline(c)
  BY <1>3, <1>8 DEF Deadline
<1> QED  BY <1>4, <1>5, <1>6, <1>7, <1>8 DEF Handle

\* The types and AnswerTells are one inductive invariant of the gateway.
THEOREM GatewayKeeps == Spec => []GatewayInv
<1>1. Init => GatewayInv
  BY DEF Init, GatewayInv, TypeOK, AnswerTells
<1>2. GatewayInv /\ [Next]_vars => GatewayInv'
  BY QuietSteps, ServiceSteps, SendStep, TurnDownStep, HandleStep DEF Next
<1> QED  BY <1>1, <1>2, PTL DEF Spec

\* Whatever is asked, stops or comes back, a client is told 200 only of what was done,
\* and a 4xx only where the service answered with an error, nobody serves the path or
\* the request was invalid, never for a deadline, a service that is away or a broken
\* connection; checkouts aside (main.go:239-693).
THEOREM ToldTheTruth == Spec => []AnswerTells
<1>1. GatewayInv => AnswerTells
  BY DEF GatewayInv
<1> QED  BY <1>1, GatewayKeeps, PTL

\* Whatever a page asks for, editing a profile aside, never ends where no service has
\* an endpoint for it, however the gateway rewrites its path (main.go:239-687).
THEOREM PagesAreServed == Spec => []PagesReach
<1>1. Init => PagesReach
  BY DEF Init, PagesReach
<1>2. GatewayInv /\ PagesReach /\ [Next]_vars => PagesReach'
  <2> SUFFICES ASSUME GatewayInv, PagesReach, [Next]_vars  PROVE PagesReach'
    OBVIOUS
  <2> USE DEF GatewayInv, TypeOK, PagesReach
  <2>1. CASE UNCHANGED vars \/ Boot \/ \E s \in Grpc : Connect(s)
    BY <2>1 DEF vars, clientVars, Boot, Start, DialStakeholders, DialPayments, DialFails, Connect
  <2>2. ASSUME NEW s \in Service, ServiceStops(s) \/ ServiceStarts(s)  PROVE PagesReach'
    BY <2>2 DEF ServiceStops, ServiceStarts, clientVars
  <2>3. ASSUME NEW c \in Client, Handle(c)  PROVE PagesReach'
    BY <2>3 DEF Handle, Call, Forwards, Answer, Break, Deadline
  <2>4. ASSUME NEW c \in Client, Serve(c)  PROVE PagesReach'
    BY <2>4 DEF Serve
  <2>5. ASSUME NEW c \in Client, Reject(c)  PROVE PagesReach'
    <3>1. Unserved(request[c])
      BY RequestsServed
    <3> QED  BY <2>5, <3>1 DEF Reject, Unserved
  <2>6. ASSUME NEW c \in Client, NEW r \in Requests, Send(c, r)  PROVE PagesReach'
    <3>1. Unserved(r)
      BY RequestsServed
    <3> QED  BY <2>6, <3>1 DEF Send, Unserved
  <2>7. ASSUME NEW c \in Client, NEW r \in Requests, TurnDown(c, r)  PROVE PagesReach'
    BY <2>7 DEF TurnDown
  <2> QED  BY <2>1, <2>2, <2>3, <2>4, <2>5, <2>6, <2>7 DEF Next
<1> QED  BY <1>1, <1>2, GatewayKeeps, PTL DEF Spec
===============================================================================
