-------------------------------- MODULE Gateway --------------------------------
(*****************************************************************************)
(* The gateway at run time: its start, which waits for two of its services,  *)
(* its gRPC channels, and requests in flight while services stop and come    *)
(* back.                                                                     *)
(*                                                                           *)
(* A gRPC call has 5 s; giving up on it does not stop the service.  A        *)
(* proxied request has no time limit.  Channels are grpc-go's: a lost        *)
(* connection leaves a channel idle until the next call wakes it, a failed   *)
(* one is retried.  A service that runs accepts a connection at once.        *)
(*****************************************************************************)
EXTENDS Routes, FiniteSets

CONSTANTS
  Client,   \* requests in flight at once
  Request,  \* the requests that clients send
  Fragile   \* the services that may stop (a bound)

Grpc    == {"stakeholders", "tours", "payments", "blog"}
Service == Grpc \union {"followers"}

ASSUME FragileAssumption == Fragile \subseteq Service
ASSUME RequestAssumption == Request \subseteq AllRequests

VARIABLES
  gateway,   \* "down", the service whose connection main waits for, or "up"
  running,   \* the services that run
  channel,   \* Grpc -> "closed", "idle", "connecting", "ready" or "failing"
  request,   \* Client -> the last request
  at,        \* Client -> where the gateway is with it, or "idle"
  work,      \* Client -> what has become of the request in the service
  told       \* Client -> the status of the answer, 0 before one

clientVars == <<request, at, work, told>>
vars == <<gateway, running, channel, clientVars>>

\* The requests and what the gateway does with them.
Requests == {Handled(r) : r \in Request}

To(c)   == request[c].service
Name(c) == request[c].name
IsRpc(c) == request[c].kind = "rpc"

\* The service answered with an error; nobody serves the path; the gateway found the
\* request itself invalid.
Faulty == {"failed", "unrouted", "invalid"}

TypeOK ==
  /\ gateway \in {"down", "stakeholders", "payments", "up"}
  /\ running \subseteq Service
  /\ channel \in [Grpc -> {"closed", "idle", "connecting", "ready", "failing"}]
  /\ request \in [Client -> Requests]
  /\ at \in [Client -> {"idle", "wait", "forward", "asked", "broken"}]
  /\ work \in [Client -> {"none", "working", "done"} \union Faulty]
  /\ told \in [Client -> Nat]

Init ==
  /\ gateway = "down"
  /\ running = Service
  /\ channel = [s \in Grpc |-> "closed"]
  /\ request \in [Client -> Requests]
  /\ at = [c \in Client |-> "idle"]
  /\ work = [c \in Client |-> "none"]
  /\ told = [c \in Client |-> 0]

-------------------------------------------------------------------------------
(* main: start and the channels.                                             *)

\* Compose starts the container, and again whenever main ended in log.Fatalf.
Start ==
  /\ gateway = "down"
  /\ gateway' = "stakeholders"
  /\ channel' = [s \in Grpc |-> IF s = "stakeholders" THEN "connecting" ELSE "closed"]
  /\ UNCHANGED <<running, clientVars>>

\* The blocking dial of stakeholders succeeds; the channel to tours is opened without
\* waiting; next is payments.
DialStakeholders ==
  /\ gateway = "stakeholders" /\ gateway \in running
  /\ gateway' = "payments"
  /\ channel' = [channel EXCEPT !["stakeholders"] = "ready", !["tours"] = "connecting",
                                !["payments"] = "connecting"]
  /\ UNCHANGED <<running, clientVars>>

\* The same for payments; the channel to the blog service is opened without waiting.
DialPayments ==
  /\ gateway = "payments" /\ gateway \in running
  /\ gateway' = "up"
  /\ channel' = [channel EXCEPT !["payments"] = "ready", !["blog"] = "connecting"]
  /\ UNCHANGED <<running, clientVars>>

\* Mutant of DialFails: main returns without an error and is not started again.
DialFailsQuietly ==
  /\ gateway \in {"stakeholders", "payments"} \ running
  /\ gateway' = "ended"
  /\ channel' = [s \in Grpc |-> "closed"]
  /\ UNCHANGED <<running, clientVars>>

\* 5 s have passed: log.Fatalf.
DialFails ==
  /\ gateway \in {"stakeholders", "payments"} \ running
  /\ gateway' = "down"
  /\ channel' = [s \in Grpc |-> "closed"]
  /\ UNCHANGED <<running, clientVars>>

\* grpc-go connects, or fails to and retries until it can.
Connect(s) ==
  /\ gateway # s
  /\ \/ channel[s] \in {"connecting", "failing"} /\ s \in running
        /\ channel' = [channel EXCEPT ![s] = "ready"]
     \/ channel[s] = "connecting" /\ s \notin running
        /\ channel' = [channel EXCEPT ![s] = "failing"]
  /\ UNCHANGED <<gateway, running, clientVars>>

\* healthHandler: 200 or 503.
Healthy == \A s \in Grpc : channel[s] \in {"ready", "idle"}

-------------------------------------------------------------------------------
(* The services.                                                             *)

\* A service stops: its connections break, and what it was working on is not done.
ServiceStops(s) ==
  /\ s \in Fragile \intersect running
  /\ running' = running \ {s}
  /\ channel' = [g \in Grpc |-> IF g = s /\ channel[g] = "ready" THEN "idle" ELSE channel[g]]
  /\ at' = [c \in Client |-> IF at[c] = "asked" /\ To(c) = s THEN "broken" ELSE at[c]]
  /\ work' = [c \in Client |-> IF work[c] = "working" /\ To(c) = s THEN "none" ELSE work[c]]
  /\ UNCHANGED <<gateway, request, told>>

\* It is started again, finds its database and listens.
ServiceStarts(s) ==
  /\ s \notin running
  /\ running' = running \union {s}
  /\ UNCHANGED <<gateway, channel, clientVars>>

\* A service serves a request that it has an endpoint for and has no error to report,
\* whether or not anybody still waits for the answer.
Serve(c) ==
  /\ work[c] = "working" /\ request[c].found
  /\ work' = [work EXCEPT ![c] = "done"]
  /\ UNCHANGED <<gateway, running, channel, request, at, told>>

\* It answers one with an error, which says nothing of what it has written: a key point
\* is inserted, changed or deleted before the tour's length is, and the length may fail
\* (keypoint_service.go:59, 131, 175).  A path without an endpoint it does not know.
Reject(c) ==
  /\ work[c] = "working"
  /\ work' = [work EXCEPT ![c] = IF request[c].found THEN "failed" ELSE "unrouted"]
  /\ UNCHANGED <<gateway, running, channel, request, at, told>>

-------------------------------------------------------------------------------
(* The handlers.                                                             *)

\* The codes of the errors that the services answer a call with.
Refusal(name) ==
  CASE name = "Login"      -> {"InvalidArgument", "Unauthenticated", "PermissionDenied", "Internal"}
    [] name = "GetProfile" -> {"Unauthenticated", "NotFound", "Internal"}
    [] name = "GetTour"    -> {"InvalidArgument", "NotFound", "Internal"}
    [] name = "Checkout"   -> {"FailedPrecondition", "Internal"}
    [] OTHER               -> {"Internal"}

\* The calls whose answer carries pictures and may exceed the 10 MB that a channel takes.
Large == {"GetProfile", "GetAllBlogs", "GetBlog"}

\* Mutant of Status: whatever is not known is the client's fault.
StatusBadRequest(name, code) == IF code = "OK" THEN 200 ELSE 400

\* The status of the answer for the outcome of a call.
Status(name, code) ==
  CASE code = "OK" -> 200
    [] name = "Checkout" -> 400
    [] code = "InvalidArgument" /\ name \in {"Login", "GetTour"} -> 400
    [] code = "Unauthenticated" /\ name \in {"Login", "GetProfile"} -> 401
    [] code = "PermissionDenied" /\ name = "Login" -> 403
    [] code = "NotFound" /\ name \in {"GetProfile", "GetTour"} -> 404
    [] code = "ResourceExhausted" /\ name = "GetProfile" -> 413
    [] code = "Unavailable" /\ name \in {"GetProfile", "GetTour", "GetPublishedTours"} -> 503
    [] OTHER -> 500

Reply(c, status) ==
  /\ told' = [told EXCEPT ![c] = status]
  /\ at' = [at EXCEPT ![c] = "idle"]

\* A request comes in: a rule refuses it, or it waits for a service.
Send(c, r) ==
  /\ gateway = "up" /\ at[c] = "idle" /\ work[c] # "working"
  /\ request' = [request EXCEPT ![c] = r]
  /\ told' = [told EXCEPT ![c] = r.status]
  /\ at' = [at EXCEPT ![c] = CASE r.kind = "rpc"    -> "wait"
                                [] r.kind = "proxy"  -> "forward"
                                [] r.kind = "refuse" -> "idle"]
  /\ work' = [work EXCEPT ![c] = IF r.kind = "refuse" THEN "unrouted" ELSE "none"]
  /\ UNCHANGED <<gateway, running, channel>>

\* The gateway's own 400: a login whose body is not JSON, a blog or a tour without an id.
TurnDown(c, r) ==
  /\ gateway = "up" /\ at[c] = "idle" /\ work[c] # "working"
  /\ r.name \in {"Login", "GetBlog", "GetTour"}
  /\ request' = [request EXCEPT ![c] = r]
  /\ told' = [told EXCEPT ![c] = 400]
  /\ work' = [work EXCEPT ![c] = "invalid"]
  /\ UNCHANGED <<gateway, running, channel, at>>

\* A call on an idle channel wakes it, on a ready one it is sent, and on a failing one
\* it fails at once.
Call(c) ==
  /\ at[c] = "wait"
  /\ \/ /\ channel[To(c)] = "idle"
        /\ channel' = [channel EXCEPT ![To(c)] = "connecting"]
        /\ UNCHANGED <<at, work, told>>
     \/ /\ channel[To(c)] = "ready"
        /\ at' = [at EXCEPT ![c] = "asked"]
        /\ work' = [work EXCEPT ![c] = "working"]
        /\ UNCHANGED <<channel, told>>
     \/ /\ channel[To(c)] = "failing"
        /\ Reply(c, Status(Name(c), "Unavailable"))
        /\ UNCHANGED <<channel, work>>
  /\ UNCHANGED <<gateway, running, request>>

\* A reverse proxy connects to the service or answers 502.
Forwards(c) ==
  /\ at[c] = "forward"
  /\ IF To(c) \in running
       THEN /\ at' = [at EXCEPT ![c] = "asked"]
            /\ work' = [work EXCEPT ![c] = "working"]
            /\ UNCHANGED told
       ELSE Reply(c, 502) /\ UNCHANGED work
  /\ UNCHANGED <<gateway, running, channel, request>>

\* The service's answer is passed on; a proxied one keeps its status (400 stands for
\* every 4xx).
Answer(c) ==
  /\ at[c] = "asked"
  /\ \/ work[c] = "done" /\ Reply(c, 200)
     \/ work[c] = "done" /\ Name(c) \in Large /\ Reply(c, Status(Name(c), "ResourceExhausted"))
     \/ work[c] = "failed" /\ IsRpc(c)
        /\ \E code \in Refusal(Name(c)) : Reply(c, Status(Name(c), code))
     \/ work[c] = "failed" /\ ~IsRpc(c) /\ \E status \in {400, 500} : Reply(c, status)
     \/ work[c] = "unrouted" /\ Reply(c, 404)
  /\ UNCHANGED <<gateway, running, channel, request, work>>

\* The connection broke before the answer.
Break(c) ==
  /\ at[c] = "broken"
  /\ Reply(c, IF IsRpc(c) THEN Status(Name(c), "Unavailable") ELSE 502)
  /\ UNCHANGED <<gateway, running, channel, request, work>>

\* context.WithTimeout: 5 s for connecting and the call together.
Deadline(c) ==
  /\ IsRpc(c) /\ at[c] \in {"wait", "asked"}
  /\ Reply(c, Status(Name(c), "DeadlineExceeded"))
  /\ UNCHANGED <<gateway, running, channel, request, work>>

-------------------------------------------------------------------------------

Boot == Start \/ DialStakeholders \/ DialPayments \/ DialFails

Handle(c) == Call(c) \/ Forwards(c) \/ Answer(c) \/ Break(c) \/ Deadline(c)

Next ==
  \/ Boot
  \/ \E s \in Grpc : Connect(s)
  \/ \E s \in Service : ServiceStops(s) \/ ServiceStarts(s)
  \/ \E c \in Client : Handle(c) \/ Serve(c) \/ Reject(c)
  \/ \E c \in Client, r \in Requests : Send(c, r) \/ TurnDown(c, r)

Spec == Init /\ [][Next]_vars

\* The container is restarted, dials end and channels are retried; a service need not
\* serve, come back or answer.
Fairness == WF_vars(Boot) /\ \A s \in Grpc : WF_vars(Connect(s))

LiveSpec == Spec /\ Fairness

-------------------------------------------------------------------------------

\* Only what has been answered is told as answered.  With 200 the service did it.  With
\* a 4xx the service itself answered with an error, nobody serves the path, or the
\* request was invalid: a passed deadline, a service that is away or a connection that
\* broke, after which the service may still be at work, is never told as the client's
\* fault.  Checkouts are the exception (main.go:633), and 413 speaks of the size of an
\* answer (main.go:273, 325, 382, 491, 538, 666).
AnswerTells ==
  \A c \in Client :
    /\ at[c] = "idle" /\ told[c] = 200 => work[c] = "done"
    /\ at[c] = "idle" /\ told[c] \in (400..499) \ {413} /\ Name(c) # "Checkout" =>
         work[c] \in Faulty

\* Every request of the pages, editing a profile aside, has a handler in a service
\* behind the gateway, under the path that it is rewritten to (main.go:239-687).
PagesReach ==
  \A c \in Client : work[c] = "unrouted" => request[c].request = EditProfile


\* Once the services stay up the gateway comes up and stays, and keeps finding all its
\* channels healthy, however they failed before (main.go:168-236, observability.go:159).
Recovers ==
  <>[](running = Service) => <>[](gateway = "up") /\ []<>(gateway = "up" /\ Healthy)
===============================================================================
