# SOA-tourism: TLA+ models, checks and proofs

SOA-tourism is a tourism platform made of small services behind a gateway. Authors write tours
(a document with key points on a map), tourists put published tours into a cart, buy them, walk
them and review them; users follow each other and write blogs. Each service has its own database
and the services meet over HTTP, gRPC and RabbitMQ. Almost nothing in the code runs under a
lock or in a transaction that spans two calls, so what can go wrong is mostly a matter of
interleaving and of failures between two writes. That is what the modules in this directory
model, and what TLC and TLAPS check.

## 1. Inventory

Paths are relative to `src/`.

| Component | Where | State | Operations that change it |
|---|---|---|---|
| payments: checkout | `services/payments`, `CheckoutService`, `TourPurchaseTokenRepository`, `RabbitMqPublisher` | Postgres: `TourPurchaseTokens`, `OrderItems`, `ShoppingCarts` | `CheckoutAsync` (REST and gRPC) |
| payments: cart | `ShoppingCartService`, `ShoppingCartRepository` | `ShoppingCarts` (with a stored total), `OrderItems` | `GetCartAsync` (creates), `AddItemAsync`, `RemoveItemAsync`; `ClearCartAsync` has no caller |
| checkout saga | `StartCheckoutSagaAsync`, `RabbitMqCheckoutConsumer`, `services/tours/messaging/checkout_consumer.go` | queues `checkout-requested`, `checkout-approved`, `checkout-rejected` | the consumers run; nothing calls `StartCheckoutSagaAsync` |
| tours: purchase cache | `services/tours/repository/purchase_repository.go`, `messaging/purchase_completed_consumer.go` | a map in memory, never persisted | `SaveToken`, `HasToken` (fills on a miss over HTTP) |
| tours: authoring | `service/tour_service.go`, `service/keypoint_service.go` and their repositories | Mongo: `tours`, `keypoints` | `Create`, `Update`, `Publish`, `Archive`, `Activate`; key point `Create`, `Update`, `Delete` with renumbering |
| tours: execution | `service/tour_execution_service.go` | Mongo: `tour_executions` | `Start`, `CheckKeyPoint`, `Complete`, `Abandon` |
| tours: reviews, positions | `service/review_service.go`, `service/tourist_position_service.go` | Mongo: `reviews`, `tourist_positions` | `Create`, `Delete`; `Update` (upsert) |
| stakeholders | `services/stakeholders` | Neo4j: `Account`, `Profile` nodes; JWTs | `Register`, `Login`, `BlockAccount`, profile update, `seedAdmin` at startup |
| followers | `services/followers` | Neo4j: `User` nodes, `FOLLOWS` edges | `followUser`, `unfollowUser`; reads |
| blog | `services/blog` | Mongo: blogs with embedded comments and likes | `createBlog`, `addComment`, `editComment`, `likeBlog` |
| tours: catalogue | `tour_service.go` (reads), `grpc/tours_server.go` | none of its own | lists, previews, the tour as a buyer or anybody else sees it |
| gateway | `services/gateway/main.go` | its gRPC channels | start with two blocking dials, routing and path rewriting, REST to gRPC, status mapping, 5 s deadlines |
| frontend: blog page | `frontend/soa-front/src/app/blog` | cards, open blog, flags, requests in flight | load, open, close, like, comment, edit, create |
| frontend: execution page | `frontend/soa-front/src/app/tour-execution` | the walk as shown, an interval timer, requests in flight | open or start, poll, check, complete, abandon, leave |
| frontend: services | `frontend/soa-front/src/app/services` | none | the method and path of every request |
| frontend: other pages | `frontend/soa-front` | forms, maps, local storage | cart, authoring, profile and account pages |
| encounters | `services/encounters` | none (a stub) | none |
| monitoring, build | `monitoring`, `docker-compose.yml`, `proto` | none | none |

Interactions. payments asks tours over HTTP whether a tour is published (`TourClient`) and tells
tours of purchases through the queue `purchase-completed`; tours asks payments over HTTP whether
a tourist has purchased a tour (`HasToken`); the blog service asks followers who follows whom; the
gateway calls stakeholders, tours, payments and blog over gRPC and proxies the rest.

What is hard: every handler is a sequence of independent database calls. Two requests of
one user (two tabs, a retried request after the gateway's timeout) overlap freely; a decision is
taken on a document that was read some calls ago and written back by id alone; a failure in the
middle is undone by hand (checkout) or not at all; the broker's messages are transient and
acknowledged on delivery; caches are filled from answers that may be outdated when they arrive.

What makes each component correct:

- checkout: a cart row is sold once; acknowledged tokens stay; what leaves the cart is either paid
  for or reported; events and caches say only what is stored.
- cart: no tour twice, one cart per tourist, the stored total is the sum of the rows.
- authoring: the status follows its lifecycle, timestamps agree with it, a published tour has two
  key points which no longer change, the key points are numbered 1 to n.
- execution: finished executions stay as they are, key points are completed once and in any order,
  no execution of a tour that was not bought.
- reviews, positions: one per tourist and tour, one per tourist; with overlap the code keeps no more than that there are
  no more than requests.
- catalogue: an answer put together from several reads is still true of the tour.
- execution page: it shows what is stored, its timer runs while there is something to poll and not
  after.
- gateway: every request of the pages reaches its endpoint; the status of an answer tells whether the service has
  answered, and what; it comes up and recovers however its services fail.
- stakeholders: one account per name and email, a blocked account cannot log in, an
  administrator is never made by registration.
- followers, blog: following decides what blogs are seen and commented; comments, edits and likes
  stay.
- blog page: the buttons for loading, liking and creating come back, what it shows of a blog is of that blog, a blog has one card.

## 2. Plan

Order of work, most important first.

1. `Checkout` with the abstract `ItemLedger` it implements, and `CheckoutProofs`. Done.
2. `TourAuthoring` with the abstract `TourLifecycle` it implements, and its theorems. Done.
3. `TourExecution` and `TourExecutionProofs`. Done.
4. `Cart`: the cart endpoints call by call; it implements `ItemLedger` too. Done.
5. `Accounts` (startup, registration, login, blocking) and `AccountsProofs`. Done.
6. `Blog` (blogs, comments, likes, and the graph that decides who sees them). Done.
7. `BlogPage`: the frontend page on top of it, with answers in any order. Done.
8. `ExecutionPage` with `Positions`: `tour-execution.component.ts` composed with `TourExecution`. Done.
9. `Reviews` and `Catalog`: reviews and readers of a tour beside its authoring. Done.
10. `Routes` and `Gateway`: every rule of the gateway, the endpoints behind it and the requests of the
    pages; its start, its channels and what clients are told. Done.
11. Proofs: `TourProofs` (authoring, readers, reviews), `GatewayProofs`, `CartProofs`, `BlogProofs`,
    `BlogPageProofs`, and positions and page in `TourExecutionProofs`. Done.
12. Left: the update and the search of profiles; the cart page and the authoring pages, whose state is
    forms.

The checkout saga (two consumers and `StartCheckoutSagaAsync`) is not in the plan: nothing calls
`StartCheckoutSagaAsync`, so no message ever reaches the consumers, and no state of theirs is one the
program can be in.

| Module | Extends or instantiates | What it is |
|---|---|---|
| `ItemLedger` | | abstract: rows go on a shelf once, leave it for good, are sold once |
| `Checkout` | `ItemLedger` as `Ledger` | the purchase path |
| `CheckoutProofs` | `Checkout` | its theorems |
| `Cart`, `CartProofs` | `ItemLedger` as `Shelf` | the cart endpoints, their theorems |
| `TourLifecycle` | | abstract: none, draft, published, archived |
| `TourAuthoring` | `TourLifecycle` as `Lifecycle` | tours and key points |
| `Catalog` | `TourAuthoring` | readers of the tour |
| `Reviews` | | reviews of a tour |
| `TourProofs` | `MCTourAuthoring`, `MCTourPage` | the theorems of authoring, readers and reviews |
| `TourExecution` | | walks of a tour |
| `Positions` | | the position documents of a tourist |
| `ExecutionPage` | `TourExecution`, `Positions` | the page of a walk, composed with both |
| `TourExecutionProofs` | `MCExecutionPage` | the theorems of the three |
| `Accounts`, `AccountsProofs` | | stakeholders, its theorems |
| `Blog`, `BlogProofs` | | blog and followers, their theorems |
| `BlogPage`, `BlogPageProofs` | | the blog page and its requests, their theorems |
| `Routes` | | the gateway's rules, the endpoints, the requests of the pages |
| `Gateway` | `Routes` | the gateway at run time |
| `GatewayProofs` | `Gateway` | its theorems |
| `MC*` | the module of that name (`MCTourPage`: `Catalog` and `Reviews`) | instances for TLC, history variables, conditional properties |

## 3. The modules and the code

One convention runs through all of them. A handler of this system is a sequence of database calls,
HTTP calls and publications; each of those is atomic and nothing larger is. So a handler is an entry
in a function from calls to program counters (`pc`, or `call` where a call carries more), every call
that touches shared state is one action, and what the handler read earlier is kept in a variable of
the call. A request that a handler refuses before it wrote anything changes nothing and is left out,
unless the refusal ends a call that had begun. Each module names its bounds in the comments of its
CONSTANTS.

Definitions whose comment begins with "Mutant of" are variants of the definition that follows, each
with one plausible mistake; nothing refers to them. They are kept to show that every property of
every run is violated when the code has that mistake.

### Checkout

`CheckoutService.CheckoutAsync` of payments, with what it touches. Each `Request` is one call:

| Step of the call | Code |
|---|---|
| `ReadCart` | loads a cart of the tourist (any part of the rows, since a tourist may have two carts); an empty one is refused |
| `Vet`, `Refuse` | one `GET /tours/{id}` per row, in any order; anything but "published" refuses the call |
| `Grant`, `GrantFails` | `AddRangeAsync` with its `SaveChangesAsync` |
| `Clear`, `ClearFails` | `ClearAsync`; EF checks that each DELETE hit a row (`RowsPresent`) |
| `Publish`, `PublishFails` | the event goes to `purchase-completed` |
| `Undo`, `UndoWithClear`, `UndoFails` | the catch block; after a failed `ClearAsync` the row deletions are still tracked in the same DbContext, and the save of `DeleteRangeAsync` sends them again |

Around it: the cart endpoints as far as their commits go (`AddItem`, `RemoveItem`), the status of tours
(`PublishTour`, `ArchiveTour`, `ActivateTour`), the tours process with its map of purchases (`Consume`,
`AskPayments`, `SaveAnswer`, `ToursRestart`) and the broker (`BrokerRestart`). `Faults` says which kinds of
failure may happen, so that one module serves the runs with all of them and with none. `added` and
`removed` are history variables. Money, names and token ids are left out; a token is named by the
call that made it and the row it is for.

`ItemLedger` is what the carts and checkouts promise together, in five lines of state and three
actions. The mapping takes the rows of all carts as the shelf and the rows of successful calls as
what was sold.

### TourAuthoring

One tour and its key points: `TourService` (Create, Update, Publish, Archive, Activate) and
`KeyPointService` (Create, Update, Delete with `normalizeKeyPointOrder`). `PublishRead`, `PublishCount`
and `PublishWrite` are the three calls of Publish, and so on; the renumbering is one update per key
point from a list read before; `todo` is what is left of it, from positions to key points. `Tick` moves `time.Now()`. Tours share no document, so one tour
is enough. The content of a tour is reduced to `complete` (Publish requires name, description,
difficulty, tags and durations); `lengthKm`, which the client computes and no code reads, is left out.

### Catalog and Reviews

`Catalog` adds the readers: `ListPublished` and `ListPreview` are the list with the first key point of
each tour, `TouristTour`, `TouristToken`, `TouristAll` and `TouristFirst` the four calls of
`GetByIDForTourist`, `GetTourOnly` and `RpcGetTour` the plain reads. `HasToken` may answer either way
while the cache does not know of a purchase yet. Purchases are what `Checkout` says of one tour: `Vet` looks at
its status, `Sell` stores the token at any time after that, `TakeBack` is the catch block. An answer stays in `answer` while the author goes on,
so a property of it is one of everything that may happen after it was given.

`Reviews` is `ReviewService`: `CreateFindTour`, `CreateCount`, `CreateInsert`, `Delete`. The code asks
neither for a purchase nor for a published tour, nor does the model. `MCTourPage` explores
authoring with either of the two beside it; they share nothing but the tour.

### TourExecution

`TourExecutionService`: Start, CheckKeyPoint, Complete, Abandon, on any number of executions of one
tour. CheckKeyPoint reads the execution (`CheckRead`), finds the first key point within 200 m that is not
in the list, which is any of those left or none, and writes the whole list back (`CheckWrite`),
completing the execution when its length is the number of key points. The position and distances are
that free choice. `lastActivityAt` is not kept; `completedAt` and `abandonedAt` are kept as set or absent.

### Positions and ExecutionPage

`Positions` is `PUT /tourist-position` of one tourist: the upsert as the search and the insertion it is
on a collection without a unique index, and the read after it.

`ExecutionPage` is `tour-execution.component.ts` in one browser, composed with `TourExecution` and
`Positions` by shared slots: a request of the page holds a slot of `Call` from its sending to the arrival
of its answer (`role`, `got`), and the handlers of the services run in that slot. A slot that the page
does not hold is another page of the same tourist, or a request whose answer was lost. `Poll` is the
10 s timer, which waits for nothing; `Finish` stops it before it asks. `shown` is what the page shows
and the condition of its buttons. The component survives `Leave` as long as its requests are in
flight, because its subscriptions are never cancelled: `KeyPointsLoaded` then may start a timer that
nobody stops, which `TimerTells` allows by `late` and nothing else.

### Cart

The cart endpoints and `ClearAsync`, for one tourist (carts of different tourists share no row). A call
loads a cart and its rows (`Load`), creates the cart when there is none (`Create`), and saves (`Add`,
`Remove`, `Clear`). `SetTotal` is EF's change tracking: `TotalPrice` is written only if it differs from the
loaded value. `Checkout` abstracts from these calls to the rows they commit; `Cart` shows that the
abstraction is one: `ImplementsShelf` says that rows come once and none that has left is brought back. Which rows
leave at the same time the ledger does not say: that a checkout's rows go as a whole, or it reports no sale, is
`ImplementsLedger` of `Checkout`.

### Accounts

The process of stakeholders (`server`: down, seeding, constraining, up), its Neo4j database and the
requests. `Seed` is `seedAdmin`, which runs at every start and ignores any failure; `Constrain` is
`EnsureUniqueConstraints`, which fails for good if the accounts break the constraints. The handlers
compare names by `toLower` (`Fold`), the constraints compare them exactly. `BlockRead` is the statement
that looks at one matching account, `BlockWrite` the one that blocks every matching account. Passwords and profile texts are
not kept; guides and tourists are one role.

### Blog

`BlogService` with `FollowerClient` and the graph of followers. `Load` is `findById`; what follows is
decided by the step it goes on with: `GetAsk` (reading), `CommentAsk` and `CommentSave`, `EditSave`,
`LikeSave`. `Save` replaces the whole document by the loaded and changed copy. `ListAsk` and `ListFind` are
the two calls of the list. A failed question to followers, a failed save, a refused edit and a stopped
process are all `Fail`: nothing is saved.

### BlogPage

`blog.component.ts` in one browser. A request is a message in `net` that is sent, then answered, then
taken by its callback; any number of other steps may lie between, because the page never cancels or
orders requests. Requests of a kind are told apart by a number, so two comments with one text are two
messages. `SubmitComment` has no guard on `isSubmittingComment`, as `submitComment()` has none: the button is
disabled, but Ctrl+Enter in the editor is not (`blog.component.html:177`). `selected` keeps the difference between a card that was opened (the object of the list
itself, after a failed GET) and an object of its own (after a successful one), since writes to the first
show in the list. What is on the screen (`GridShown`, `DetailShown`, `FormShown`) guards what the user
can do. `Leave` destroys the page and makes a new one; the callbacks of the old one change nothing any
more. The service is one step per request here; `Blog` takes it apart.

### Routes and Gateway

`Routes` is a table: the rules of `main` in `services/gateway/main.go`, a pattern of path segments and a set of methods
each, with what they do (a gRPC call, a proxied request with the path rewritten, a refusal); the
endpoints that the routers of the five services register; and the requests that the Angular services
send. `Dispatch` is `http.ServeMux` with the handlers' own looks at the rest of the path: the longest
rule that fits. `HasEndpoint` asks whether what the rule makes of the request is known behind it.

`Gateway` is the process. `Start`, `DialStakeholders`, `DialPayments` and `DialFails` are `main` up to
`ListenAndServe`; `Connect` is grpc-go's channel, which goes idle when its connection breaks, is woken by
the next call, and retries when it fails. A request is dispatched (`Send`), or found invalid by the gateway itself
(`TurnDown`), then called (`Call`) or
forwarded (`Forwards`), and answered by `Answer`, `Break` or, for a gRPC call, `Deadline`: the service works on
(`work`) whether or not somebody still waits. `Reject` is an answer with an error; it does not mean that nothing was
written, since the tours service answers 400 or 404 when a key point was inserted, changed or deleted and the tour's
length then could not be updated (`keypoint_service.go:59-64, 131-145, 175-187`). `Status` is the mapping of codes to statuses of all the
handlers at once. `AnswerTells` therefore says of a 4xx only where it comes from: an error that the service answered, a path
that nobody serves, an invalid request, never a deadline, an outage or a broken connection after which the service may
still be at work. It leaves checkouts out because the code answers every error of a
checkout with 400, a deadline included; what that leads to is the overlap of calls in `Checkout`.

## 4. The runs

Distinct states are TLC's counts. Every run but `checkout_live` and `gateway` uses symmetry; their
properties are all invariants, action properties or safety refinements, for which that is sound (in
`checkout` the temporal property is a refinement without fairness). Deadlock is checked everywhere.

| Run | Instance | States | Shows |
|---|---|---|---|
| `checkout` | 1 tourist, 2 tours, 2 rows, 2 calls, all faults | 153 678 | with any two checkouts, edits of the cart and failures: each row is sold once, acknowledged tokens stay, a vanished row was in a checkout that failed, no draft is sold, events are true, the cache is wrong only after a failure, and the whole implements `ItemLedger` |
| `checkout_live` | 1 tourist, 1 tour, 2 rows, 2 calls, no faults, fairness | 13 052 | every checkout ends and tours learns of every purchase |
| `checkout_undo` | no faults | violated | a failed checkout may leave its tokens |
| `tour` | 2 requests, 3 key points, orders 0..1 sent by clients, clock 1..2 | 523 502 | timestamps, lifecycle; alone: two key points, renumbering |
| `tour_page` | 1 request of the author, 3 key points, 1 visitor; 2 requests about reviews | 430 261 | what a visitor was shown stays true, however late the sale is; reviews of a tourist are bounded by the overlap |
| `one_review` | the same, 1 key point | violated | a tourist may leave two reviews of a tour |
| `execution` | 1 execution, 2 key points, a page, 2 requests at once, 2 position documents | 1 543 897 | key points once, full is finished, timestamps, positions bounded; alone: finished is final, reached stays; a page that is left to itself shows what is stored and polls while it should |
| `cart` | 2 carts, 3 rows, 2 tours, prices 0..1, 2 calls | 129 234 | no row comes back; alone: every row shown, no tour twice, the total |
| `accounts` | 3 nodes, 4 names (2 up to case), 3 emails, 2 calls | 78 495 | names unique while served, one profile, blocked stays out; calm: names differ, no blocked admin |
| `blog` | an author, a reader, 1 blog, 2 comments, 2 calls | 1 189 285 | no mixed document, seen and commented only when visible; alone: comments, edits and likes stay |
| `blog_page` | 2 blogs, 2 requests in flight, of any kinds | 5 436 487 | flags of loading, liking and creating, the card of the open blog; for a user who waits: likes, comments and cards are right |
| `gateway` | every request of the pages, 1 client, 2 services that stop (one of which the start waits for), fairness | 49 632 | 200 tells of what was done and a 4xx of what was answered, every request but one has an endpoint, the gateway recovers |

Why the bounds are enough. Every hazard of section 5 is a matter of two actors: two calls, or a call
and a failure or a restart. Two calls of everything, both repeatable where the
module lets a slot be used again (everywhere but `Checkout`, whose calls keep their outcome for the
properties), cover every pair of interleaved handlers, any number of times in sequence. Two rows are
needed so that one checkout can find one of its rows gone and the other there; three key points so that
a published tour can lose or gain one and still have two, while two are enough for an execution, where
one overlapping check can drop what another has reached, and the page is explored with it; three account nodes so that two admins and a user exist at once; two values
of the clock so that stale timestamps differ. In `gateway` one client is enough because clients share only
the channels, and of the services it matters whether `main` waits for them and whether they are called
over gRPC: `payments` and `tours` are one of each kind that can fail a call; followers, which is only
proxied to, and the other two differ in their routes alone. Where the module is proved (section 6), the theorem
covers every size.

Properties of the form `Serial…`, `Calm…` and `Waiting…` hold under a condition that a history variable of
the MC module records: that no two requests have overlapped (`overlapped`), that starts succeeded
(`disturbed`), that the user waited for answers (`closed`, `raced`). Single-request faults (`Stop`, `Fail`)
are still in. So they do not catch the interleaving that their hazard is about, which the code does not exclude; the
hazards of `PROJECT.json` say so one by one. They say what the sequential code gets right, and the condition says what breaks it:
taken without it, TLC refutes each of them within seconds. That is a large part of what these models
show, so here is the list: two adds put one tour into a cart twice and leave a total that is not the
sum (`NoTourTwice`, `TotalIsSum`); two first requests create two carts, of which a GET shows one
(`RowsShown`; the three are `SerialCartRight`); a key point request that passed its draft check leaves a published tour with one key point
(`PublishedHasKeyPoints`); two deletes leave gaps in the order
(`DeleteNormalizes`); two polls drop a reached key point (`ReachedKept`), and one that
was on its way changes a finished execution (`FinishedKept`); an answer to a poll that comes after the one
to Complete makes the page show an active walk that nothing polls (`ShownIsStored`, `ActiveIsPolled`); two writes of a blog drop a
comment, an edit or several likes (`CommentsKept`, `LikesKept`); an answer that comes when another blog
is open puts one blog's likes and comments with another, and a blog created while the list loads has
two cards or none (`OfTheBlog`, `OneCard`); two registrations take names that differ in case only
(`NamesDiffer`); and after a start whose seeding failed, the admin's name in another case can be
registered, and blocking that account blocks the admin (`AdminNotBlocked`). `SeenWhenVisible` in contrast holds under overlap because it asks
only that the author was visible at some moment of the request (`sight`).

### Fairness

`Checkout` and `Gateway` state fairness.

`Checkout`: `WF_vars(CheckoutStep(r))` for each call: every wait in
`CheckoutAsync` (HTTP client, EF commands, the broker's connection) has a timeout, and an async method
of a running process is resumed, so a call that can take a step takes one. `WF_vars` on the consumer: a
subscribed consumer is pushed its messages and its goroutine does nothing else. Nothing is assumed of tourists,
authors or `HasToken`, and `checkout_live` runs without faults, since after a lost message the
queue alone does not deliver.

`Gateway`: `WF_vars(Boot)`, because Compose restarts the container whenever `main` ended in `log.Fatalf`
(`restart: on-failure`), and a blocking dial ends, by connecting or by its 5 s; `WF_vars(Connect(s))`, because a
channel of grpc-go that is connecting or failing is retried in the background. Nothing is assumed of
services, which need not come back, serve or answer, nor of clients; `Recovers` is about runs in which
the services stay up from some point on.

### What the code says and does not do

- `checkout_undo` (`FailedLeavesNoToken`). Two checkouts of one cart: both store tokens, one clears the
  cart, the other's `ClearAsync` throws. Its catch block calls `DeleteRangeAsync`, whose save sends
  the tracked row deletions again, throws again, and leaves the tokens. The tourist is told that the system
  undid the transaction.
- `one_review` (`OneReview`). "Turista moze ostaviti samo jednu recenziju po turi" (a tourist may leave only one review
  of a tour, `review_service.go:48`): two requests both count none, both insert, and no index refuses the second.
  What is left is `ReviewsBounded`: no more reviews than requests at once.
- Three more properties are kept in the modules with a comment, for a reader to check: TLC refutes each
  within seconds. `FailedKeepsCart` (`Checkout`): `Publish` throws after `ClearAsync` has committed, the
  tokens are deleted and the cart stays empty. `FinishedIsFinal` (`TourExecution`): "execution is not active" is checked on what
  was read; a poll in flight writes to an execution that was completed or abandoned meanwhile.
  `UsernameUnique` (`Accounts`): a start that stops between `seedAdmin` and the constraints leaves an admin,
  the next start creates another, the constraints are refused, and no start succeeds any more.
- In the table of `Routes`: the page edits a profile with `PUT /stakeholders/profile` (`profile.service.ts:47`), which the
  service handles (`profile_hanlder.go:27`); the gateway's rule for that path takes GET alone and answers 405
  (`main.go:307`). `PagesReach` names this request as its only exception.
- On the blog page, `isSubmittingComment` tells nothing: of two comments in flight the first answer resets it
  (`blog.component.ts:141`), and an answer that comes after the blog was closed throws before it does, which leaves the
  button disabled. `FlagsTell` leaves it out.
- Read off rather than run: the gateway's answer to `GET /blog/{id}` has no comments
  (`services/gateway/main.go:443-457`, `proto/blogs/v1/blogs.proto`), while the page declares and renders
  them (`blog.service.ts:20`, `blog.component.html:164`). `BlogPage` models the page that results: the
  comment form is reachable only for blogs that this page created or that answered a POST or PUT.

## 5. Hazards

`PROJECT.json` lists them with their lines and the properties that watch them. In short: overlapping
handlers that decide on stale reads (cart, authoring, execution, reviews, positions, blog, checkout);
answers put together from several reads (catalogue); hand-made undo that can fail itself (checkout);
restarts between two writes (accounts, checkout); transient messages and a cache that is filled from
late answers (tours); answers out of order (blog page, execution page) and timers that outlive what
they are for; checks that compare in one way what the database compares in another (accounts); routes
and statuses written by hand in three places, and a start that depends on two services (gateway).

Smaller ones that no property could state, since the code promises nothing there: a proxied request
has no deadline (`main.go:53`); an idle channel counts as healthy (`observability.go:162`), so `/health` may say
ok of a service that is down; a walk that was finished on another page is polled on, each poll being refused;
a username may be spelled like somebody else's email.

## 6. Proofs

TLAPS proves, for every value of the constants, what follows. Assumptions on constants are
the named ASSUMEs of each module, which the runs evaluate; none bounds a set, but some
are finite: the key points of a tour, the ids of reviews and position documents, and the requests at once whose
number is the bound proved.

**CheckoutProofs.** The properties alone are not inductive: that a row is sold once depends on what
the calls that have not finished hold. `IInv` adds

- `RowsKnown`: the rows in carts and calls are rows that were added, and a row is in one cart at most;
- `ClearedOnce`: the rows of a call past `Clear` are in no cart, and no two such calls share one;
- `TokensExplained`: the `pc` of a call tells when its tokens are stored, and each stored token is of a call that may have stored it;
- `Vetted`: what a call has vetted is not a draft any more (a tour never becomes a draft again);
- `EventsOfDone`: an event in the queue is of a call that is "done" and says what that call bought;
- `BeliefsJustified`: the cache and the answers on their way are justified by tokens or by a failed call.

There is one lemma per conjunct (`TypeStep`, `RowsStep`, …), each by cases on the actions, the tours side
of `Next` being one case (`ToursStepEffect`). `Invariant` puts them together; `SoldOnce`, `TokensKept`,
`LossReported`, `DraftsNotSold`, `TrueEvents`, `CacheStaleness` and `Typing` follow. `Refinement`: every step
of `Spec` maps to a step of `ItemLedger` or a stutter; `ClearedOnce` is what makes `Publish` a `Sell`.

**TourProofs.** `TimeInv` says what a pending status write still knows of the document it read:
`Decided` that a call about to write "archived" saw a publication time not later than its own, one about
to activate is on a tour that was published, and so on. `Timestamps` proves it invariant;
`TimestampsTell` and `LifecycleKept` (the refinement of `TourLifecycle`) follow. Key points
are not in it: the status alone is.

`SerialInv` is about key points and holds until two requests overlap: who has passed the check for a draft
still has one, who counted two key points still has them, and what `normalizeKeyPointOrder` has left to
do (`Renumbering`) is part of a list of all key points, the others of which have their position for their
order already. The list has each once because it is a sequence of as many different ones as there are
(`ListsAll`, by cardinality, not by induction). `KeyPointsOfPublished` and `DeleteRenumbers` follow, for stopped
requests too. `BuyersKnowTour` and `ListIsComplete` add the visitors, as many as there may be, whose
reads overlap with everything: a tour that is not a draft keeps its key points (`Frozen`), so an answer put together
from reads before and after is right, and so is a sale long after the checkout looked at the tour (`VisitorsKnow`). Their
hypothesis `[]Alone` says that the author's requests never overlap, which is how `tour_page` explores them.

`ReviewsBounded` is inductive with the types: a request about to insert found no review,
and each insertion takes one from the pending ones (`FewReviews`, and `FewReviewsOfPage` with the rest of the page
around it).

**TourExecutionProofs.** `ExecInv` says that lists repeat nothing and are not full on an active
execution, that a pending check's list extended by what it reached repeats nothing (`Fresh`), and that a call in
progress is on an execution that has begun (`Begun`). Theorems: `Executions`, `ExecTyping`, `CompletedOnce`, `FullIsFinished`,
`StampsAgree`. `FewPositions` bounds the position documents: `FewDocuments` counts pending
insertions with the documents, which makes it inductive with the types. `PageUsesService` says that the
composition implements both modules, so that all this holds behind the page.

`PageInv` is about the composition: a slot works on what its request asked for (`Slot`); the requests from the
opening of the page to its key points come one at a time (`OpeningInv`); and for a page that nothing
has disturbed, it has one request at most, the service works for it alone, what it shows is stored unless an
answer that says otherwise has arrived (`TruthInv`), and it polls an active walk until it asks to finish
(`PollInv`). `PageKept` proves it; `ShownWhenWaiting` and `TimerRuns` are what it says between requests.
`ProgressKept` is an action property: until calls overlap, a check writes to what it read (`AloneInv`).

**CartProofs.** `Drawn` says that ids of rows are drawn once and tell rows apart, `HasCart` that a call
about to save has a cart. Theorems: `CartKept`, `CartTyping`, and `CartRefinement`: a save that adds is a `Put`, and
one that deletes by loaded ids is a `Take` of rows that it loaded. `SerialCart`: a request that is alone
holds the only cart, its rows and its total as they are stored (`AloneWithIt`), so it leaves a total that is
the sum. A save sets the total to the sum of the very rows that are stored, so all that is needed of sums is that
of no rows being 0 (`SumOfNone`).

**BlogProofs.** `BlogInv` says that documents and loaded copies are `Sound`: their comments were drawn and
have one form each. Theorems: `BlogKept`, `BlogTyping`, `OneFormKept`. `SightInv` relates the history of what was
visible to what a request has asked (`OnlyVisibleSeen`, `OnlyFollowersComment`, for any overlap); `AloneInv` says that a write which is alone
with its blog holds it as it is stored (`WritesKept`).

**BlogPageProofs.** A flag of loading, liking or creating and the one request it stands for come and go together
(`FlagsInv`), however many comments and edits are in flight with it, so the
page loads one thing at a time, and only while no blog is open and nothing else went wrong (`LoadingInv`). `StoredInv` is about
what requests ask for and answers tell; it is needed for the types, since the answer to a failed GET opens a
card by its place. `Waiting`: as long as no blog was closed before its answers, every request about a blog in
flight is about the blog that is open, so its answer is put where it belongs. `Cards`: as long as no blog
was created with the list on its way, cards are of different blogs, a blog that was created is on no card until the page is
told of it, and every list that answers later has it. The list has each blog once because a sequence of
as many members as the set, which has them all, repeats none. Theorems: `PageTypes`, `FlagsAreTrue`,
`ShownOfTheBlog`, `CardsOfTheBlogs`. No object is the `None` that stands for the absence of one
(`ObjectAssumption`).

**GatewayProofs.** `RulesTell` goes through the table: only a refusal has a status, and it is 404 or 405;
`Longest` shows that `Dispatch` finds a rule when one fits. With that `AnswerTells` is inductive with the types, because
no code but those that a service answers maps to a 4xx (`StatusTells`): `GatewayKeeps`, `ToldTheTruth`. `PagesAreServed` is about every request of the pages and every rule of the table at once.
A rule refuses, serves an older name, or is a call or a proxy that leaves the path as it is (`RulesSorted`); whichever
of those that fit is the longest, the service is asked for the page's own path (`PlainRequests`), which is one of its
endpoints (`PagesServed`). The older names have one rule each (`OlderServed`), and for the tours' gRPC paths the
longest rule is a call (`GrpcRequests`). That requests are the ones listed is the assumption `RequestAssumption`.

**AccountsProofs.** `AccInv`: serving means that the constraints exist, existing constraints mean that names are unique,
and calls in progress mean that the process serves (`Served`); a login about to issue a token found an account (`Found`); a
registration about to create a profile has its account, which has no profile yet, and is the only
registration of its name at that point (`Profiled`). Theorems: `AccountsKept`, `AccountTyping`,
`UniqueWhenServed`, `ProfileOnce`, and `OutForGood`, an action property: no step lets a locked-out account in.
`AdminFirst` is the order of a start that succeeds: the admin has the name before the constraints exist, and these
before the first request, so no other account can have it in any case and no blocking finds it
(`AdminNeverBlocked`, for any overlap). `NamesToldApart` needs requests that do not overlap as well: a registration about to
create its account looked for the name, and nothing came in between (`AloneFree`).

The properties that hold under a condition are stated and proved with the history variables of their MC
modules, which restrict nothing: each proof shows that a behaviour with the history is one of the
module without it.

Only model-checked: `CheckoutEnds`, `ToursLearnPurchase` and `Recovers`, since liveness under fairness is out of this
prover's reach, as is ENABLED. Every invariant and every other action property of the passing runs is a theorem.

## 7. Not modelled

- The checkout saga, for the reason in section 2, and `services/stakeholders/auth.go`, an older copy that
  nothing calls.
- The pages other than the blog page and the execution page: what they can make the services do is in
  the requests of the other modules; their own state is forms and maps.
- Of the gateway: reading the caller's name out of a token without checking it, headers, bodies, metrics,
  and clients that go away before their answer.
- Recommendations of followers, the texts of profiles with their update and search (which is why stakeholders is
  partly modelled), pictures and Markdown: data that
  decides nothing.
- The Go map of `PurchaseRepository` is used by several goroutines without a lock. What a torn map would
  do has no meaning in Go's memory model; that the runtime may stop the process is `ToursRestart`.
- `encounters` is a stub, and monitoring, Docker files and generated code hold no state of the system.
