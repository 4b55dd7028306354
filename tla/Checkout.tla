------------------------------- MODULE Checkout -------------------------------
(*****************************************************************************)
(* The purchase path: the payments service turns the rows of a shopping cart *)
(* into purchase tokens (CheckoutService.CheckoutAsync) and tells the tours  *)
(* service, which keeps a cache of purchases (PurchaseRepository) that it    *)
(* fills from the purchase-completed queue and, on a miss, over HTTP.        *)
(*                                                                           *)
(* Every CheckoutAsync call is a process of its own.  A step is one commit   *)
(* (SaveChangesAsync), one HTTP answer or one publication, because the code  *)
(* holds no lock and opens no transaction across them.                       *)
(*****************************************************************************)
EXTENDS FiniteSets

CONSTANTS
  Tourist,   \* touristId values
  Tour,      \* tour ids
  ItemId,    \* Guids of OrderItem rows; as many as rows ever inserted (a bound)
  Request,   \* calls of CheckoutAsync, each made once (a bound)
  NoBuyer,   \* the touristId of a call not made yet
  Faults     \* the failures that may happen: a subset of FaultKinds

FaultKinds == {"http",    \* GET /tours/{id} fails or times out
               "db",      \* a SaveChangesAsync fails and changes nothing
               "broker",  \* RabbitMQ unreachable, restarted, or drops a message
               "crash"}   \* the payments or the tours process stops

ASSUME FaultsAssumption == Faults \subseteq FaultKinds
ASSUME NoBuyerAssumption == NoBuyer \notin Tourist

VARIABLES
  \* tours database and tours process
  status,      \* Tour -> tour status
  cache,       \* PurchaseRepository.tokens: <<tourist, tour>> pairs
  answers,     \* positive has-purchased answers that HasToken has not saved yet
  consumerUp,  \* the purchase-completed consumer is subscribed
  \* payments database
  cart,        \* Tourist -> the OrderItem rows in the tourist's carts
  tokens,      \* TourPurchaseTokens rows
  \* broker
  queue,       \* purchase-completed messages not delivered yet
  \* payments process: one CheckoutAsync call per request
  pc,          \* where the call stands
  buyer,       \* the touristId it was called with
  items,       \* cart.Items as the call read them
  left,        \* the items whose tour is still to be vetted
  \* history
  added,       \* every row ever inserted
  removed      \* the rows removed through the cart endpoint

toursVars == <<status, cache, answers, consumerUp>>
dbVars    == <<cart, tokens>>
callVars  == <<pc, buyer, items, left>>
histVars  == <<added, removed>>
vars == <<toursVars, dbVars, queue, callVars, histVars>>

Status == {"draft", "published", "archived"}
Item   == [id: ItemId, tour: Tour]

\* A token row: which call made it and for which cart row; its tourist is
\* buyer[req] and its tour item.tour.
Token  == [req: Request, item: Item]

\* The awaits of the call.
Running  == {"vet", "grant", "clear", "publish", "undo", "undoWithClear"}
\* "done": tokens returned.  "refused": an InvalidOperationException before
\* anything was written.  "failed": the catch block rethrew.  "crashed": the
\* process stopped and the caller got no answer.
Finished == {"done", "refused", "failed", "crashed"}

TokensOf(r) == [req: {r}, item: items[r]]

\* HasPurchasedAsync.
HasPurchased(u, t) == \E k \in tokens : buyer[k.req] = u /\ k.item.tour = t

\* The PurchaseCompletedEvent of call r.
Completed(r) == [req |-> r, tourist |-> buyer[r],
                 tours |-> {i.tour : i \in items[r]}]

TypeOK ==
  /\ status \in [Tour -> Status]
  /\ cache \subseteq Tourist \X Tour
  /\ answers \subseteq Tourist \X Tour
  /\ consumerUp \in BOOLEAN
  /\ cart \in [Tourist -> SUBSET Item]
  /\ tokens \subseteq Token
  /\ queue \subseteq [req: Request, tourist: Tourist, tours: SUBSET Tour]
  /\ pc \in [Request -> {"idle"} \union Running \union Finished]
  /\ buyer \in [Request -> Tourist \union {NoBuyer}]
  /\ items \in [Request -> SUBSET Item]
  /\ left \in [Request -> SUBSET Item]
  /\ added \subseteq Item
  /\ removed \subseteq Item

Init ==
  /\ status = [t \in Tour |-> "draft"]
  /\ cache = {}
  /\ answers = {}
  /\ consumerUp = TRUE
  /\ cart = [u \in Tourist |-> {}]
  /\ tokens = {}
  /\ queue = {}
  /\ pc = [r \in Request |-> "idle"]
  /\ buyer = [r \in Request |-> NoBuyer]
  /\ items = [r \in Request |-> {}]
  /\ left = [r \in Request |-> {}]
  /\ added = {}
  /\ removed = {}

-------------------------------------------------------------------------------
(* Tours: the author's status changes, seen here only through their writes.  *)

\* TourService.Publish, on a draft that is complete enough.
PublishTour(t) ==
  /\ status[t] = "draft"
  /\ status' = [status EXCEPT ![t] = "published"]
  /\ UNCHANGED <<cache, answers, consumerUp, dbVars, queue, callVars, histVars>>

\* TourService.Archive.
ArchiveTour(t) ==
  /\ status[t] = "published"
  /\ status' = [status EXCEPT ![t] = "archived"]
  /\ UNCHANGED <<cache, answers, consumerUp, dbVars, queue, callVars, histVars>>

\* TourService.Activate.
ActivateTour(t) ==
  /\ status[t] = "archived"
  /\ status' = [status EXCEPT ![t] = "published"]
  /\ UNCHANGED <<cache, answers, consumerUp, dbVars, queue, callVars, histVars>>

-------------------------------------------------------------------------------
(* The cart endpoints, as far as checkout sees them: the rows they commit.   *)

\* ShoppingCartService.AddItemAsync.  The tour's status is not looked at, and
\* the test that the tour is not in the cart reads an earlier cart: of two calls
\* that both read before either commits, both insert, so the insertion has no
\* guard on the present cart.
AddItem(u, t) ==
  \E n \in ItemId :
    LET row == [id |-> n, tour |-> t] IN
      /\ \A i \in added : i.id # n
      /\ cart' = [cart EXCEPT ![u] = @ \union {row}]
      /\ added' = added \union {row}
      /\ UNCHANGED <<toursVars, tokens, queue, callVars, removed>>

\* ShoppingCartService.RemoveItemAsync.
RemoveItem(u, i) ==
  /\ i \in cart[u]
  /\ cart' = [cart EXCEPT ![u] = @ \ {i}]
  /\ removed' = removed \union {i}
  /\ UNCHANGED <<toursVars, tokens, queue, callVars, added>>

-------------------------------------------------------------------------------
(* CheckoutAsync, one call r.                                                *)

Goto(r, p) == pc' = [pc EXCEPT ![r] = p]

\* Loads one cart of the tourist, who may have several (see Cart): any part of the
\* rows.  An empty one is refused ("Korpa je prazna.").
ReadCart(r, u) ==
  /\ pc[r] = "idle"
  /\ \E loaded \in SUBSET cart[u] :
       /\ buyer' = [buyer EXCEPT ![r] = u]
       /\ items' = [items EXCEPT ![r] = loaded]
       /\ left' = [left EXCEPT ![r] = loaded]
       /\ Goto(r, IF loaded = {} THEN "refused" ELSE "vet")
  /\ UNCHANGED <<toursVars, dbVars, queue, histVars>>

\* Mutant of Vet: any tour that exists passes.
VetExisting(r) ==
  /\ pc[r] = "vet"
  /\ \E i \in left[r] :
       /\ left' = [left EXCEPT ![r] = @ \ {i}]
       /\ Goto(r, IF left[r] = {i} THEN "grant" ELSE "vet")
  /\ UNCHANGED <<toursVars, dbVars, queue, buyer, items, histVars>>

\* Mutant of Vet: the loop never gets past an item.
VetAgain(r) ==
  /\ pc[r] = "vet"
  /\ \E i \in left[r] : status[i.tour] = "published"
  /\ UNCHANGED vars

\* IsTourPurchasableAsync answers true for the next item.
Vet(r) ==
  /\ pc[r] = "vet"
  /\ \E i \in left[r] :
       /\ status[i.tour] = "published"
       /\ left' = [left EXCEPT ![r] = @ \ {i}]
       /\ Goto(r, IF left[r] = {i} THEN "grant" ELSE "vet")
  /\ UNCHANGED <<toursVars, dbVars, queue, buyer, items, histVars>>

\* It answers false: the tour is not published, or the request failed.
Refuse(r) ==
  /\ pc[r] = "vet"
  /\ \E i \in left[r] : status[i.tour] # "published" \/ "http" \in Faults
  /\ Goto(r, "refused")
  /\ UNCHANGED <<toursVars, dbVars, queue, buyer, items, left, histVars>>

\* Mutant of Grant: no AddRangeAsync, nothing is stored.
GrantUnsaved(r) ==
  /\ pc[r] = "grant"
  /\ Goto(r, "clear")
  /\ UNCHANGED <<toursVars, dbVars, queue, buyer, items, left, histVars>>

\* TourPurchaseTokenRepository.AddRangeAsync commits.
Grant(r) ==
  /\ pc[r] = "grant"
  /\ tokens' = tokens \union TokensOf(r)
  /\ Goto(r, "clear")
  /\ UNCHANGED <<toursVars, cart, queue, buyer, items, left, histVars>>

\* AddRangeAsync fails.  DeleteRangeAsync then detaches the entities, which were
\* never stored, and saves nothing.
GrantFails(r) ==
  /\ pc[r] = "grant"
  /\ "db" \in Faults
  /\ Goto(r, "failed")
  /\ UNCHANGED <<toursVars, dbVars, queue, buyer, items, left, histVars>>

\* Mutant of RowsPresent: the deletion of a missing row is no error.
RowsIgnored(r) == TRUE

\* EF expects every DELETE to hit one row: a save that deletes the call's items
\* succeeds only while all of them are in the table.
RowsPresent(r) == items[r] \subseteq cart[buyer[r]]

\* ShoppingCartRepository.ClearAsync commits.
Clear(r) ==
  /\ pc[r] = "clear"
  /\ RowsPresent(r)
  /\ cart' = [cart EXCEPT ![buyer[r]] = @ \ items[r]]
  /\ Goto(r, "publish")
  /\ UNCHANGED <<toursVars, tokens, queue, buyer, items, left, histVars>>

\* ClearAsync throws: DbUpdateConcurrencyException because a row is gone, or a
\* failed save.  The deletions stay tracked in the call's DbContext.
ClearFails(r) ==
  /\ pc[r] = "clear"
  /\ ~RowsPresent(r) \/ "db" \in Faults
  /\ Goto(r, "undoWithClear")
  /\ UNCHANGED <<toursVars, dbVars, queue, buyer, items, left, histVars>>

\* RabbitMqPublisher.Publish: a transient message without confirmation, which a
\* failing broker may drop after the call returned.  The tokens are returned.
Publish(r) ==
  /\ pc[r] = "publish"
  /\ \/ queue' = queue \union {Completed(r)}
     \/ "broker" \in Faults /\ queue' = queue
  /\ Goto(r, "done")
  /\ UNCHANGED <<toursVars, dbVars, buyer, items, left, histVars>>

\* Mutant of PublishFails: it throws after the broker has taken the message.
PublishFailsLate(r) ==
  /\ pc[r] = "publish"
  /\ "broker" \in Faults
  /\ queue' = queue \union {Completed(r)}
  /\ Goto(r, "undo")
  /\ UNCHANGED <<toursVars, dbVars, buyer, items, left, histVars>>

\* Publish throws: the broker does not accept the connection.
PublishFails(r) ==
  /\ pc[r] = "publish"
  /\ "broker" \in Faults
  /\ Goto(r, "undo")
  /\ UNCHANGED <<toursVars, dbVars, queue, buyer, items, left, histVars>>

\* Mutant of Undo: deletes by tourist and tour, not the call's own rows.
UndoByTour(r) ==
  /\ pc[r] = "undo"
  /\ tokens' = {k \in tokens : \/ buyer[k.req] # buyer[r]
                              \/ \A i \in items[r] : i.tour # k.item.tour}
  /\ Goto(r, "failed")
  /\ UNCHANGED <<toursVars, cart, queue, buyer, items, left, histVars>>

\* The catch block after a failed publication: DeleteRangeAsync removes the
\* tokens.  The cart was cleared by an earlier commit and stays so.
Undo(r) ==
  /\ pc[r] = "undo"
  /\ tokens' = tokens \ TokensOf(r)
  /\ Goto(r, "failed")
  /\ UNCHANGED <<toursVars, cart, queue, buyer, items, left, histVars>>

\* The catch block after a failed ClearAsync: the save of DeleteRangeAsync also
\* carries the tracked item deletions, so it clears the cart with the tokens.
UndoWithClear(r) ==
  /\ pc[r] = "undoWithClear"
  /\ RowsPresent(r)
  /\ tokens' = tokens \ TokensOf(r)
  /\ cart' = [cart EXCEPT ![buyer[r]] = @ \ items[r]]
  /\ Goto(r, "failed")
  /\ UNCHANGED <<toursVars, queue, buyer, items, left, histVars>>

\* DeleteRangeAsync throws in its turn, rolling its own save back: the database
\* fails, or the tracked item deletions meet the missing rows again.
UndoFails(r) ==
  /\ \/ pc[r] = "undo" /\ "db" \in Faults
     \/ pc[r] = "undoWithClear" /\ (~RowsPresent(r) \/ "db" \in Faults)
  /\ Goto(r, "failed")
  /\ UNCHANGED <<toursVars, dbVars, queue, buyer, items, left, histVars>>

CheckoutStep(r) ==
  \/ Vet(r) \/ Refuse(r)
  \/ Grant(r) \/ GrantFails(r)
  \/ Clear(r) \/ ClearFails(r)
  \/ Publish(r) \/ PublishFails(r)
  \/ Undo(r) \/ UndoWithClear(r) \/ UndoFails(r)

\* The payments process stops; what it committed stays.
PaymentsCrash ==
  /\ "crash" \in Faults
  /\ \E r \in Request : pc[r] \in Running
  /\ pc' = [r \in Request |-> IF pc[r] \in Running THEN "crashed" ELSE pc[r]]
  /\ UNCHANGED <<toursVars, dbVars, queue, buyer, items, left, histVars>>

-------------------------------------------------------------------------------
(* The tours side of a purchase.                                             *)

\* Mutant of Consume: the event does not unmarshal and is dropped.
ConsumeUnread(m) ==
  /\ consumerUp
  /\ m \in queue
  /\ queue' = queue \ {m}
  /\ UNCHANGED <<toursVars, dbVars, callVars, histVars>>

\* StartPurchaseCompletedConsumer's loop: SaveToken for every item.  The order
\* of messages is abstracted: saving only adds to the map.
Consume(m) ==
  /\ consumerUp
  /\ m \in queue
  /\ queue' = queue \ {m}
  /\ cache' = cache \union ({m.tourist} \X m.tours)
  /\ UNCHANGED <<status, answers, consumerUp, dbVars, callVars, histVars>>

\* Mutant of AskPayments: an error counts as a purchase.
AskPaymentsTrusting(u, t) ==
  /\ <<u, t>> \notin cache
  /\ answers' = answers \union {<<u, t>>}
  /\ UNCHANGED <<status, cache, consumerUp, dbVars, queue, callVars, histVars>>

\* HasToken misses the map and asks payments, which answers hasPurchased: true.
\* (An answer false, or an error, changes nothing.)
AskPayments(u, t) ==
  /\ <<u, t>> \notin cache
  /\ HasPurchased(u, t)
  /\ answers' = answers \union {<<u, t>>}
  /\ UNCHANGED <<status, cache, consumerUp, dbVars, queue, callVars, histVars>>

\* HasToken receives that answer and saves it.
SaveAnswer(a) ==
  /\ a \in answers
  /\ answers' = answers \ {a}
  /\ cache' = cache \union {a}
  /\ UNCHANGED <<status, consumerUp, dbVars, queue, callVars, histVars>>

\* The tours process restarts with an empty map.  Messages already pushed to it
\* were acknowledged on delivery (autoAck) and are gone; a consumer whose Dial
\* fails at startup is never started again.
ToursRestart ==
  /\ "crash" \in Faults
  /\ cache' = {}
  /\ answers' = {}
  /\ IF consumerUp THEN queue' \in SUBSET queue ELSE queue' = queue
  /\ \/ consumerUp' = TRUE
     \/ "broker" \in Faults /\ consumerUp' = FALSE
  /\ UNCHANGED <<status, dbVars, callVars, histVars>>

\* The broker restarts: the queue is durable, its messages are not, and the
\* consumer's delivery channel closes, which ends its loop.
BrokerRestart ==
  /\ "broker" \in Faults
  /\ queue' = {}
  /\ consumerUp' = FALSE
  /\ UNCHANGED <<status, cache, answers, dbVars, callVars, histVars>>

-------------------------------------------------------------------------------

Next ==
  \/ \E t \in Tour : PublishTour(t) \/ ArchiveTour(t) \/ ActivateTour(t)
  \/ \E u \in Tourist, t \in Tour : AddItem(u, t) \/ AskPayments(u, t)
  \/ \E u \in Tourist : \E i \in cart[u] : RemoveItem(u, i)
  \/ \E r \in Request, u \in Tourist : ReadCart(r, u)
  \/ \E r \in Request : CheckoutStep(r)
  \/ PaymentsCrash
  \/ \E m \in queue : Consume(m)
  \/ \E a \in answers : SaveAnswer(a)
  \/ ToursRestart
  \/ BrokerRestart

Spec == Init /\ [][Next]_vars

\* A call that has started keeps going (every wait in it has a timeout), and a
\* subscribed consumer handles what is pushed to it.
Fairness ==
  /\ \A r \in Request : WF_vars(CheckoutStep(r))
  /\ WF_vars(\E m \in queue : Consume(m))

FairSpec == Spec /\ Fairness

-------------------------------------------------------------------------------
(* Properties.                                                               *)

\* A cart row is sold by at most one checkout that reports success, however many
\* run at once: the row count that EF checks in ClearAsync lets one of them
\* through and sends the others to the catch block (CheckoutService.cs:54-78).
OneSuccessPerItem ==
  \A r, s \in Request :
    pc[r] = "done" /\ pc[s] = "done" /\ r # s => items[r] \intersect items[s] = {}

\* A checkout that returned its tokens keeps every one of them stored, whatever
\* other checkouts of the same cart undo (CheckoutService.cs:72-77).
AcknowledgedTokensKept ==
  \A r \in Request : pc[r] = "done" => TokensOf(r) \subseteq tokens

\* A row that left the cart without the tourist's doing and is covered by no
\* token was in a checkout that reported a failure: crashes at any point lose
\* nothing, because the tokens are stored before the cart is cleared
\* (CheckoutService.cs:54-55).
LossIsReported ==
  \A i \in added :
    \/ i \in removed
    \/ \E u \in Tourist : i \in cart[u]
    \/ \E k \in tokens : k.item = i
    \/ \E r \in Request : pc[r] = "failed" /\ i \in items[r]

\* No token was ever issued for a tour that was not yet published, though carts
\* may hold drafts and the status is read long before the token is stored
\* (CheckoutService.cs:35-41, TourClient.cs:25).
NoTokenForDraft == \A k \in tokens : status[k.item.tour] # "draft"

\* A purchase-completed event is never about a purchase that was undone: what
\* the queue says is in the tokens table (CheckoutService.cs:54-70).
EventsAreTrue ==
  \A m \in queue : \A t \in m.tours : HasPurchased(m.tourist, t)

\* The tours cache is wrong about a purchase only after a checkout of that
\* tourist with that tour failed: nothing else makes it stale, not lost events,
\* restarts or answers that arrive late (purchase_repository.go:30-65).
StaleOnlyAfterFailure ==
  \A u \in Tourist, t \in Tour :
    <<u, t>> \in cache =>
      \/ HasPurchased(u, t)
      \/ \E r \in Request : /\ pc[r] = "failed" /\ buyer[r] = u
                            /\ \E i \in items[r] : i.tour = t

\* Every checkout that is started comes to an end (CheckoutService.cs:28-79).
CheckoutEnds ==
  \A r \in Request : pc[r] \in Running ~> pc[r] \in Finished

\* Without failures the tours service learns of every acknowledged purchase by
\* itself, without being asked (purchase_completed_consumer.go:46-56).
ToursLearnPurchase ==
  \A r \in Request :
    pc[r] = "done" ~> \A i \in items[r] : <<buyer[r], i.tour>> \in cache

\* The carts and the concurrent, fallible checkouts together behave like a ledger
\* that takes rows off the shelf in one step and sells each once: no interleaving
\* clears half of what a call read, and none reports a sale of a row another call
\* sold (ShoppingCartRepository.cs:55-62).
Shelf == UNION {cart[u] : u \in Tourist}
Sales == {x \in Request \X Item : pc[x[1]] = "done" /\ x[2] \in items[x[1]]}
Ledger == INSTANCE ItemLedger WITH
            Row <- Item,
            Sale <- Request,
            shelf <- Shelf,
            gone <- added \ Shelf,
            sold <- Sales
ImplementsLedger == Ledger!Spec

-------------------------------------------------------------------------------
(* What the program says of itself and does not keep.                        *)

\* "Sistem je poništio započetu transakciju" (the system undid the transaction
\* it had begun): after a failed checkout none of its tokens remain.
FailedLeavesNoToken ==
  \A r \in Request : pc[r] = "failed" => TokensOf(r) \intersect tokens = {}

\* The same message: after a failed checkout the rows it read, unless removed or
\* sold by another checkout, are still in the cart.  TLC refutes it, with the fault
\* "broker": the rows are gone for good once Clear has committed.
FailedKeepsCart ==
  \A r \in Request : pc[r] = "failed" =>
    \A i \in items[r] :
      \/ i \in cart[buyer[r]] \union removed
      \/ \E s \in Request \ {r} : i \in items[s] /\ pc[s] # "refused"
===============================================================================
