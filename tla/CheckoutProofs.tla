---------------------------- MODULE CheckoutProofs ----------------------------
(*****************************************************************************)
(* Safety of the purchase path for any number of tourists, tours, cart rows  *)
(* and overlapping CheckoutAsync calls, and any set of faults.               *)
(*                                                                           *)
(* None of the properties is inductive alone.  IInv adds what links a call's *)
(* program counter to the two tables: which rows are fresh, which calls have *)
(* their tokens stored, which rows have left every cart.                     *)
(*****************************************************************************)
EXTENDS Checkout, TLAPS

\* The calls whose ClearAsync committed and which have not failed.
Cleared == {"publish", "undo", "done"}
\* The calls whose tokens are stored.
Granted == {"clear", "publish", "undo", "undoWithClear", "done"}

\* A row is in at most one cart and was inserted there; a call knows only rows
\* that were inserted, and an idle call none.
RowsKnown ==
  /\ \A u \in Tourist : cart[u] \subseteq added
  /\ \A u, v \in Tourist : u # v => cart[u] \intersect cart[v] = {}
  /\ \A r \in Request : items[r] \subseteq added
  /\ \A r \in Request : pc[r] # "idle" => buyer[r] \in Tourist

\* What a call cleared is in no cart, and no other call cleared it.
ClearedOnce ==
  /\ \A r \in Request : pc[r] \in Cleared =>
       \A u \in Tourist : items[r] \intersect cart[u] = {}
  /\ \A r, s \in Request : pc[r] \in Cleared /\ pc[s] \in Cleared /\ r # s =>
       items[r] \intersect items[s] = {}

\* The token table as the calls' program counters explain it.
TokensExplained ==
  /\ \A r \in Request : pc[r] \in Granted => TokensOf(r) \subseteq tokens
  /\ \A k \in tokens : /\ pc[k.req] \in Granted \union {"failed", "crashed"}
                       /\ k.item \in items[k.req]

\* A call past vetting has vetted every item, and a vetted tour is no draft.
Vetted ==
  /\ \A r \in Request : \A i \in items[r] \ left[r] : status[i.tour] # "draft"
  /\ \A r \in Request : pc[r] \in {"grant"} \union Granted => left[r] = {}

\* Every message in the queue is the event of a call that succeeded.
EventsOfDone ==
  \A m \in queue : pc[m.req] = "done" /\ m = Completed(m.req)

\* What the tours service believes of u and t, or is about to, is a purchase or
\* the trace of a failed one.
Justified(u, t) ==
  \/ HasPurchased(u, t)
  \/ \E r \in Request : /\ pc[r] = "failed" /\ buyer[r] = u
                        /\ \E i \in items[r] : i.tour = t

BeliefsJustified ==
  \A u \in Tourist, t \in Tour :
    <<u, t>> \in cache \union answers => Justified(u, t)

IInv ==
  /\ TypeOK /\ RowsKnown /\ ClearedOnce /\ TokensExplained /\ Vetted
  /\ EventsOfDone /\ BeliefsJustified /\ LossIsReported /\ NoTokenForDraft

-------------------------------------------------------------------------------
(* Preservation, one lemma per conjunct.                                     *)

\* Every action of the module respects the types.
LEMMA TypeStep == TypeOK /\ RowsKnown /\ [Next]_vars => TypeOK'
<1> SUFFICES ASSUME TypeOK, RowsKnown, [Next]_vars PROVE TypeOK'
  OBVIOUS
<1> USE DEF TypeOK, toursVars, dbVars, callVars, histVars, Item, Token, Status,
            Running, Finished, Goto
<1>1. ASSUME NEW t \in Tour, PublishTour(t) \/ ArchiveTour(t) \/ ActivateTour(t)
      PROVE TypeOK'
  BY <1>1 DEF PublishTour, ArchiveTour, ActivateTour
<1>2. ASSUME NEW u \in Tourist, NEW t \in Tour, AddItem(u, t)
      PROVE TypeOK'
  BY <1>2 DEF AddItem
<1>3. ASSUME NEW u \in Tourist, NEW t \in Tour, AskPayments(u, t)
      PROVE TypeOK'
  BY <1>3 DEF AskPayments
<1>4. ASSUME NEW u \in Tourist, NEW i \in cart[u], RemoveItem(u, i)
      PROVE TypeOK'
  BY <1>4 DEF RemoveItem
<1>5. ASSUME NEW r \in Request, NEW u \in Tourist, ReadCart(r, u)
      PROVE TypeOK'
  BY <1>5 DEF ReadCart
<1>6. ASSUME NEW r \in Request, CheckoutStep(r)
      PROVE TypeOK'
  <2>1. CASE Vet(r)
    BY <2>1 DEF Vet
  <2>2. CASE Grant(r)
    BY <2>2 DEF Grant, TokensOf
  <2>3. CASE Clear(r)
    BY <2>3 DEF Clear
  <2>4. CASE UndoWithClear(r)
    BY <2>4 DEF UndoWithClear
  <2>5. CASE Publish(r)
    BY <2>5 DEF Publish, Completed, RowsKnown
  <2>6. QED
    BY <1>6, <2>1, <2>2, <2>3, <2>4, <2>5
    DEF CheckoutStep, Refuse, GrantFails, ClearFails, PublishFails, Undo, UndoFails
<1>7. CASE PaymentsCrash
  BY <1>7 DEF PaymentsCrash
<1>8. ASSUME NEW m \in queue, Consume(m)
      PROVE TypeOK'
  BY <1>8 DEF Consume
<1>9. ASSUME NEW a \in answers, SaveAnswer(a)
      PROVE TypeOK'
  BY <1>9 DEF SaveAnswer
<1>10. CASE ToursRestart \/ BrokerRestart
  BY <1>10 DEF ToursRestart, BrokerRestart
<1>11. CASE UNCHANGED vars
  BY <1>11 DEF vars
<1>12. QED
  BY <1>1, <1>2, <1>3, <1>4, <1>5, <1>6, <1>7, <1>8, <1>9, <1>10, <1>11 DEF Next

\* The actions of the tours service and the broker change nothing that payments
\* keeps; only the status of a tour, which never goes back to draft, the queue,
\* which only shrinks, and what tours believes.
ToursStep ==
  \/ \E t \in Tour : PublishTour(t) \/ ArchiveTour(t) \/ ActivateTour(t)
  \/ \E u \in Tourist, t \in Tour : AskPayments(u, t)
  \/ \E m \in queue : Consume(m)
  \/ \E a \in answers : SaveAnswer(a)
  \/ ToursRestart
  \/ BrokerRestart

LEMMA ToursStepEffect ==
  ASSUME TypeOK, ToursStep
  PROVE  /\ UNCHANGED <<dbVars, callVars, histVars>>
         /\ queue' \subseteq queue
         /\ \A t \in Tour : status[t] # "draft" => status'[t] # "draft"
BY DEF ToursStep, TypeOK, PublishTour, ArchiveTour, ActivateTour, AskPayments,
       Consume, SaveAnswer, ToursRestart, BrokerRestart

\* The case split of every preservation lemma below.
LEMMA StepCases ==
  [Next]_vars <=>
    \/ ToursStep
    \/ \E u \in Tourist, t \in Tour : AddItem(u, t)
    \/ \E u \in Tourist : \E i \in cart[u] : RemoveItem(u, i)
    \/ \E r \in Request, u \in Tourist : ReadCart(r, u)
    \/ \E r \in Request : CheckoutStep(r)
    \/ PaymentsCrash
    \/ UNCHANGED vars
BY DEF Next, ToursStep

\* Fresh rows go to one cart, and calls read what is in the carts.
LEMMA RowsStep == TypeOK /\ RowsKnown /\ [Next]_vars => RowsKnown'
<1> SUFFICES ASSUME TypeOK, RowsKnown, [Next]_vars PROVE RowsKnown'
  OBVIOUS
<1> USE DEF TypeOK, RowsKnown, toursVars, dbVars, callVars, histVars, Goto, Item
<1>1. CASE ToursStep
  BY <1>1, ToursStepEffect
<1>2. ASSUME NEW u \in Tourist, NEW t \in Tour, AddItem(u, t)
      PROVE RowsKnown'
  BY <1>2 DEF AddItem
<1>3. ASSUME NEW u \in Tourist, NEW i \in cart[u], RemoveItem(u, i)
      PROVE RowsKnown'
  BY <1>3 DEF RemoveItem
<1>4. ASSUME NEW r \in Request, NEW u \in Tourist, ReadCart(r, u)
      PROVE RowsKnown'
  BY <1>4 DEF ReadCart
<1>5. ASSUME NEW r \in Request, CheckoutStep(r)
      PROVE RowsKnown'
  <2>1. CASE Clear(r)
    BY <2>1 DEF Clear
  <2>2. CASE UndoWithClear(r)
    BY <2>2 DEF UndoWithClear
  <2>3. CASE Vet(r) \/ Refuse(r)
    BY <2>3 DEF Vet, Refuse
  <2>4. QED
    BY <1>5, <2>1, <2>2, <2>3
    DEF CheckoutStep, Grant, GrantFails, ClearFails, Publish, PublishFails, Undo,
        UndoFails
<1>6. CASE PaymentsCrash
  BY <1>6 DEF PaymentsCrash, Running
<1>7. CASE UNCHANGED vars
  BY <1>7 DEF vars
<1>8. QED
  BY StepCases, <1>1, <1>2, <1>3, <1>4, <1>5, <1>6, <1>7

\* Clear needs every row present, so it cannot overlap an earlier one; and no row
\* comes back to a cart.
LEMMA ClearedStep ==
  TypeOK /\ RowsKnown /\ ClearedOnce /\ [Next]_vars => ClearedOnce'
<1> SUFFICES ASSUME TypeOK, RowsKnown, ClearedOnce, [Next]_vars
             PROVE ClearedOnce'
  OBVIOUS
<1> USE DEF TypeOK, ClearedOnce, Cleared, dbVars, callVars, Goto
<1>1. CASE ToursStep
  BY <1>1, ToursStepEffect
<1>2. ASSUME NEW u \in Tourist, NEW t \in Tour, AddItem(u, t)
      PROVE ClearedOnce'
  BY <1>2 DEF AddItem, RowsKnown
<1>3. ASSUME NEW u \in Tourist, NEW i \in cart[u], RemoveItem(u, i)
      PROVE ClearedOnce'
  BY <1>3 DEF RemoveItem
<1>4. ASSUME NEW r \in Request, NEW u \in Tourist, ReadCart(r, u)
      PROVE ClearedOnce'
  BY <1>4 DEF ReadCart
<1>5. ASSUME NEW r \in Request, CheckoutStep(r)
      PROVE ClearedOnce'
  <2>1. CASE Clear(r)
    <3>1. items[r] \subseteq cart[buyer[r]] /\ buyer[r] \in Tourist
      BY <2>1 DEF Clear, RowsPresent, RowsKnown
    <3>2. \A u \in Tourist : items[r] \intersect cart'[u] = {}
      BY <2>1, <3>1 DEF Clear, RowsKnown
    <3>3. \A s \in Request : pc[s] \in Cleared => items[r] \intersect items[s] = {}
      BY <3>1
    <3>4. QED
      BY <2>1, <3>2, <3>3 DEF Clear
  <2>2. CASE UndoWithClear(r)
    BY <2>2 DEF UndoWithClear
  <2>3. CASE Vet(r) \/ Refuse(r)
    BY <2>3 DEF Vet, Refuse
  <2>4. QED
    BY <1>5, <2>1, <2>2, <2>3
    DEF CheckoutStep, Grant, GrantFails, ClearFails, Publish, PublishFails, Undo,
        UndoFails
<1>6. CASE PaymentsCrash
  BY <1>6 DEF PaymentsCrash, Running
<1>7. CASE UNCHANGED vars
  BY <1>7 DEF vars
<1>8. QED
  BY StepCases, <1>1, <1>2, <1>3, <1>4, <1>5, <1>6, <1>7

\* Only a call's own steps add and delete its tokens.
LEMMA TokensStep ==
  TypeOK /\ RowsKnown /\ TokensExplained /\ [Next]_vars => TokensExplained'
<1> SUFFICES ASSUME TypeOK, RowsKnown, TokensExplained, [Next]_vars
             PROVE TokensExplained'
  OBVIOUS
<1> USE DEF TypeOK, TokensExplained, Granted, TokensOf, Token, dbVars, callVars, Goto
<1>1. CASE ToursStep
  BY <1>1, ToursStepEffect
<1>2. ASSUME NEW u \in Tourist, NEW t \in Tour, AddItem(u, t)
      PROVE TokensExplained'
  BY <1>2 DEF AddItem
<1>3. ASSUME NEW u \in Tourist, NEW i \in cart[u], RemoveItem(u, i)
      PROVE TokensExplained'
  BY <1>3 DEF RemoveItem
<1>4. ASSUME NEW r \in Request, NEW u \in Tourist, ReadCart(r, u)
      PROVE TokensExplained'
  BY <1>4 DEF ReadCart
<1>5. ASSUME NEW r \in Request, CheckoutStep(r)
      PROVE TokensExplained'
  <2>1. CASE Grant(r)
    BY <2>1 DEF Grant
  <2>2. CASE Undo(r)
    BY <2>2 DEF Undo
  <2>3. CASE UndoWithClear(r)
    BY <2>3 DEF UndoWithClear
  <2>4. CASE Vet(r) \/ Refuse(r)
    BY <2>4 DEF Vet, Refuse
  <2>5. CASE Clear(r) \/ ClearFails(r) \/ UndoFails(r)
    BY <2>5 DEF Clear, ClearFails, UndoFails
  <2>6. CASE GrantFails(r) \/ Publish(r) \/ PublishFails(r)
    BY <2>6 DEF GrantFails, Publish, PublishFails
  <2>7. QED
    BY <1>5, <2>1, <2>2, <2>3, <2>4, <2>5, <2>6 DEF CheckoutStep
<1>6. CASE PaymentsCrash
  BY <1>6 DEF PaymentsCrash, Running
<1>7. CASE UNCHANGED vars
  BY <1>7 DEF vars
<1>8. QED
  BY StepCases, <1>1, <1>2, <1>3, <1>4, <1>5, <1>6, <1>7

\* Items leave the set to vet only when their tour is published, and a tour that
\* was published is never a draft again.
LEMMA VettedStep ==
  TypeOK /\ RowsKnown /\ Vetted /\ [Next]_vars => Vetted'
<1> SUFFICES ASSUME TypeOK, RowsKnown, Vetted, [Next]_vars PROVE Vetted'
  OBVIOUS
<1> USE DEF TypeOK, Vetted, Granted, dbVars, callVars, toursVars, Goto
<1>1. CASE ToursStep
  <2>1. \A i \in Item : i.tour \in Tour
    BY DEF Item
  <2>2. QED
    BY <1>1, <2>1, ToursStepEffect
<1>2. ASSUME NEW u \in Tourist, NEW t \in Tour, AddItem(u, t)
      PROVE Vetted'
  BY <1>2 DEF AddItem
<1>3. ASSUME NEW u \in Tourist, NEW i \in cart[u], RemoveItem(u, i)
      PROVE Vetted'
  BY <1>3 DEF RemoveItem
<1>4. ASSUME NEW r \in Request, NEW u \in Tourist, ReadCart(r, u)
      PROVE Vetted'
  BY <1>4 DEF ReadCart
<1>5. ASSUME NEW r \in Request, CheckoutStep(r)
      PROVE Vetted'
  <2>1. CASE Vet(r)
    BY <2>1 DEF Vet
  <2>2. CASE Refuse(r) \/ Grant(r) \/ GrantFails(r)
    BY <2>2 DEF Refuse, Grant, GrantFails
  <2>3. CASE Clear(r) \/ ClearFails(r) \/ Publish(r) \/ PublishFails(r)
    BY <2>3 DEF Clear, ClearFails, Publish, PublishFails
  <2>4. CASE Undo(r) \/ UndoWithClear(r) \/ UndoFails(r)
    BY <2>4 DEF Undo, UndoWithClear, UndoFails
  <2>5. QED
    BY <1>5, <2>1, <2>2, <2>3, <2>4 DEF CheckoutStep
<1>6. CASE PaymentsCrash
  BY <1>6 DEF PaymentsCrash, Running
<1>7. CASE UNCHANGED vars
  BY <1>7 DEF vars
<1>8. QED
  BY StepCases, <1>1, <1>2, <1>3, <1>4, <1>5, <1>6, <1>7

\* A message is sent by the step that makes its call "done", and a call that is
\* done changes no more.
LEMMA EventsStep ==
  TypeOK /\ EventsOfDone /\ [Next]_vars => EventsOfDone'
<1> SUFFICES ASSUME TypeOK, EventsOfDone, [Next]_vars PROVE EventsOfDone'
  OBVIOUS
<1> USE DEF TypeOK, EventsOfDone, Completed, dbVars, callVars, toursVars, Goto
<1>1. CASE ToursStep
  BY <1>1, ToursStepEffect
<1>2. ASSUME NEW u \in Tourist, NEW t \in Tour, AddItem(u, t)
      PROVE EventsOfDone'
  BY <1>2 DEF AddItem
<1>3. ASSUME NEW u \in Tourist, NEW i \in cart[u], RemoveItem(u, i)
      PROVE EventsOfDone'
  BY <1>3 DEF RemoveItem
<1>4. ASSUME NEW r \in Request, NEW u \in Tourist, ReadCart(r, u)
      PROVE EventsOfDone'
  BY <1>4 DEF ReadCart
<1>5. ASSUME NEW r \in Request, CheckoutStep(r)
      PROVE EventsOfDone'
  <2>1. CASE Publish(r)
    BY <2>1 DEF Publish
  <2>2. CASE Vet(r) \/ Refuse(r) \/ Grant(r) \/ GrantFails(r)
    BY <2>2 DEF Vet, Refuse, Grant, GrantFails
  <2>3. CASE Clear(r) \/ ClearFails(r) \/ PublishFails(r)
    BY <2>3 DEF Clear, ClearFails, PublishFails
  <2>4. CASE Undo(r) \/ UndoWithClear(r) \/ UndoFails(r)
    BY <2>4 DEF Undo, UndoWithClear, UndoFails
  <2>5. QED
    BY <1>5, <2>1, <2>2, <2>3, <2>4 DEF CheckoutStep
<1>6. CASE PaymentsCrash
  BY <1>6 DEF PaymentsCrash, Running
<1>7. CASE UNCHANGED vars
  BY <1>7 DEF vars
<1>8. QED
  BY StepCases, <1>1, <1>2, <1>3, <1>4, <1>5, <1>6, <1>7

\* A row that leaves the carts does so in the step of a call that holds a token
\* for it or fails in that step, or by the tourist's removal.
LEMMA LossStep ==
  TypeOK /\ RowsKnown /\ TokensExplained /\ LossIsReported /\ [Next]_vars
    => LossIsReported'
<1> SUFFICES ASSUME TypeOK, RowsKnown, TokensExplained, LossIsReported, [Next]_vars
             PROVE LossIsReported'
  OBVIOUS
<1> USE DEF TypeOK, LossIsReported, dbVars, callVars, histVars, toursVars, Goto
<1>1. CASE ToursStep
  BY <1>1, ToursStepEffect
<1>2. ASSUME NEW u \in Tourist, NEW t \in Tour, AddItem(u, t)
      PROVE LossIsReported'
  BY <1>2 DEF AddItem
<1>3. ASSUME NEW u \in Tourist, NEW i \in cart[u], RemoveItem(u, i)
      PROVE LossIsReported'
  BY <1>3 DEF RemoveItem
<1>4. ASSUME NEW r \in Request, NEW u \in Tourist, ReadCart(r, u)
      PROVE LossIsReported'
  BY <1>4 DEF ReadCart
<1>5. ASSUME NEW r \in Request, CheckoutStep(r)
      PROVE LossIsReported'
  <2>1. CASE Clear(r)
    <3>1. ASSUME NEW i \in items[r] PROVE \E k \in tokens : k.item = i
      <4>1. [req |-> r, item |-> i] \in tokens
        BY <2>1 DEF Clear, TokensExplained, Granted, TokensOf
      <4>2. QED
        BY <4>1
    <3>2. buyer[r] \in Tourist
      BY <2>1 DEF Clear, RowsKnown
    <3>3. QED
      BY <2>1, <3>1, <3>2 DEF Clear
  <2>2. CASE Undo(r)
    <3>1. \A k \in tokens \ tokens' : k.item \in items[r]
      BY <2>2 DEF Undo, TokensOf
    <3>2. QED
      BY <2>2, <3>1 DEF Undo
  <2>3. CASE UndoWithClear(r)
    <3>1. \A k \in tokens \ tokens' : k.item \in items[r]
      BY <2>3 DEF UndoWithClear, TokensOf
    <3>2. buyer[r] \in Tourist
      BY <2>3 DEF UndoWithClear, RowsKnown
    <3>3. QED
      BY <2>3, <3>1, <3>2 DEF UndoWithClear
  <2>4. CASE Grant(r)
    BY <2>4 DEF Grant
  <2>5. CASE Vet(r) \/ Refuse(r) \/ GrantFails(r) \/ ClearFails(r)
    BY <2>5 DEF Vet, Refuse, GrantFails, ClearFails
  <2>6. CASE Publish(r) \/ PublishFails(r) \/ UndoFails(r)
    BY <2>6 DEF Publish, PublishFails, UndoFails
  <2>7. QED
    BY <1>5, <2>1, <2>2, <2>3, <2>4, <2>5, <2>6 DEF CheckoutStep
<1>6. CASE PaymentsCrash
  BY <1>6 DEF PaymentsCrash, Running
<1>7. CASE UNCHANGED vars
  BY <1>7 DEF vars
<1>8. QED
  BY StepCases, <1>1, <1>2, <1>3, <1>4, <1>5, <1>6, <1>7

\* Tokens are stored only by a call that has vetted all its items.
LEMMA DraftStep ==
  TypeOK /\ Vetted /\ NoTokenForDraft /\ [Next]_vars => NoTokenForDraft'
<1> SUFFICES ASSUME TypeOK, Vetted, NoTokenForDraft, [Next]_vars
             PROVE NoTokenForDraft'
  OBVIOUS
<1> USE DEF TypeOK, NoTokenForDraft, dbVars, toursVars
<1>1. CASE ToursStep
  <2>1. \A k \in tokens : k.item.tour \in Tour
    BY DEF Token, Item
  <2>2. QED
    BY <1>1, <2>1, ToursStepEffect
<1>2. ASSUME NEW r \in Request, CheckoutStep(r)
      PROVE NoTokenForDraft'
  <2>1. CASE Grant(r)
    BY <2>1 DEF Grant, Vetted, TokensOf
  <2>2. QED
    BY <1>2, <2>1
    DEF CheckoutStep, Vet, Refuse, GrantFails, Clear, ClearFails, Publish,
        PublishFails, Undo, UndoWithClear, UndoFails
<1>3. CASE ~ToursStep /\ ~(\E r \in Request : CheckoutStep(r))
  BY <1>3, StepCases DEF AddItem, RemoveItem, ReadCart, PaymentsCrash, vars
<1>4. QED
  BY <1>1, <1>2, <1>3

\* A reason to believe in a purchase lasts: the token is there, or the call that
\* deleted it has failed.
LEMMA JustifiedStays ==
  ASSUME TypeOK, RowsKnown, TokensExplained, [Next]_vars,
         NEW u \in Tourist, NEW t \in Tour, Justified(u, t)
  PROVE  Justified(u, t)'
<1> USE DEF TypeOK, Justified, HasPurchased, dbVars, callVars, histVars, toursVars, Goto
<1>1. CASE ToursStep
  BY <1>1, ToursStepEffect
<1>2. ASSUME NEW v \in Tourist, NEW w \in Tour, AddItem(v, w)
      PROVE Justified(u, t)'
  BY <1>2 DEF AddItem
<1>3. ASSUME NEW v \in Tourist, NEW i \in cart[v], RemoveItem(v, i)
      PROVE Justified(u, t)'
  BY <1>3 DEF RemoveItem
<1>4. ASSUME NEW r \in Request, NEW v \in Tourist, ReadCart(r, v)
      PROVE Justified(u, t)'
  <2>1. \A k \in tokens : k.req \in Request /\ k.req # r
    BY <1>4 DEF ReadCart, TokensExplained, Granted, Token
  <2>2. QED
    BY <1>4, <2>1 DEF ReadCart
<1>5. ASSUME NEW r \in Request, CheckoutStep(r)
      PROVE Justified(u, t)'
  <2>1. CASE Undo(r) \/ UndoWithClear(r)
    <3>1. \A k \in tokens \ tokens' : k.req = r /\ k.item \in items[r]
      BY <2>1 DEF Undo, UndoWithClear, TokensOf
    <3>2. pc' = [pc EXCEPT ![r] = "failed"] /\ UNCHANGED <<buyer, items>>
      BY <2>1 DEF Undo, UndoWithClear
    <3>3. QED
      BY <3>1, <3>2
  <2>2. CASE Grant(r)
    BY <2>2 DEF Grant
  <2>3. CASE Vet(r) \/ Refuse(r) \/ GrantFails(r) \/ ClearFails(r)
    BY <2>3 DEF Vet, Refuse, GrantFails, ClearFails
  <2>4. CASE Clear(r) \/ Publish(r) \/ PublishFails(r) \/ UndoFails(r)
    BY <2>4 DEF Clear, Publish, PublishFails, UndoFails
  <2>5. QED
    BY <1>5, <2>1, <2>2, <2>3, <2>4 DEF CheckoutStep
<1>6. CASE PaymentsCrash
  BY <1>6 DEF PaymentsCrash, Running
<1>7. CASE UNCHANGED vars
  BY <1>7 DEF vars
<1>8. QED
  BY StepCases, <1>1, <1>2, <1>3, <1>4, <1>5, <1>6, <1>7

\* What a message in the queue says is stored.
LEMMA EventsStored ==
  ASSUME TypeOK, TokensExplained, EventsOfDone,
         NEW m \in queue, NEW t \in m.tours
  PROVE  HasPurchased(m.tourist, t)
<1>1. /\ m.req \in Request /\ pc[m.req] = "done"
      /\ m.tourist = buyer[m.req]
      /\ \E i \in items[m.req] : i.tour = t
  BY DEF TypeOK, EventsOfDone, Completed
<1>2. PICK i \in items[m.req] : i.tour = t
  BY <1>1
<1>3. [req |-> m.req, item |-> i] \in tokens
  BY <1>1, <1>2 DEF TokensExplained, Granted, TokensOf
<1>4. QED
  BY <1>1, <1>2, <1>3 DEF HasPurchased

\* The cache and the answers grow by stored purchases only.
LEMMA BeliefsStep ==
  TypeOK /\ RowsKnown /\ TokensExplained /\ EventsOfDone /\ BeliefsJustified
    /\ [Next]_vars => BeliefsJustified'
<1> SUFFICES ASSUME TypeOK, RowsKnown, TokensExplained, EventsOfDone,
                    BeliefsJustified, [Next]_vars,
                    NEW u \in Tourist, NEW t \in Tour,
                    (<<u, t>> \in cache \union answers)'
             PROVE Justified(u, t)'
  BY DEF BeliefsJustified
<1>1. CASE <<u, t>> \in cache \union answers
  BY <1>1, JustifiedStays DEF BeliefsJustified
<1>2. CASE <<u, t>> \notin cache \union answers
  <2>1. CASE \E m \in queue : Consume(m)
    <3>1. PICK m \in queue : Consume(m)
      BY <2>1
    <3>2. u = m.tourist /\ t \in m.tours
      BY <1>2, <3>1 DEF Consume, TypeOK
    <3>3. QED
      BY <3>2, EventsStored, JustifiedStays DEF Justified
  <2>2. CASE \E v \in Tourist, w \in Tour : AskPayments(v, w)
    <3>1. HasPurchased(u, t)
      BY <1>2, <2>2 DEF AskPayments
    <3>2. QED
      BY <3>1, JustifiedStays DEF Justified
  <2>3. QED
    BY <1>2, <2>1, <2>2
    DEF Next, vars, toursVars, PublishTour, ArchiveTour, ActivateTour, AddItem,
        RemoveItem, ReadCart, CheckoutStep, Vet, Refuse, Grant, GrantFails, Clear,
        ClearFails, Publish, PublishFails, Undo, UndoWithClear, UndoFails,
        PaymentsCrash, SaveAnswer, ToursRestart, BrokerRestart
<1>3. QED
  BY <1>1, <1>2

-------------------------------------------------------------------------------
(* The theorems.                                                             *)

\* IInv holds in every state of every behaviour.
THEOREM Invariant == Spec => []IInv
<1>1. Init => IInv
  BY NoBuyerAssumption
  DEF Init, IInv, TypeOK, RowsKnown, ClearedOnce, TokensExplained, Vetted,
      EventsOfDone, BeliefsJustified, LossIsReported, NoTokenForDraft, Cleared,
      Granted, Status, Running, Finished
<1>2. IInv /\ [Next]_vars => IInv'
  BY TypeStep, RowsStep, ClearedStep, TokensStep, VettedStep, EventsStep,
     BeliefsStep, LossStep, DraftStep
  DEF IInv
<1>3. QED
  BY <1>1, <1>2, PTL DEF Spec

\* The variables keep their types (the values the entities and maps may hold).
THEOREM Typing == Spec => []TypeOK
<1>1. IInv => TypeOK
  BY DEF IInv
<1>2. QED
  BY <1>1, Invariant, PTL

\* No cart row is sold by two checkouts that both report success, for any number
\* of overlapping CheckoutAsync calls.
THEOREM SoldOnce == Spec => []OneSuccessPerItem
<1>1. IInv => OneSuccessPerItem
  BY DEF IInv, ClearedOnce, Cleared, OneSuccessPerItem
<1>2. QED
  BY <1>1, Invariant, PTL

\* The tokens CheckoutAsync returned stay stored.
THEOREM TokensKept == Spec => []AcknowledgedTokensKept
<1>1. IInv => AcknowledgedTokensKept
  BY DEF IInv, TokensExplained, Granted, AcknowledgedTokensKept
<1>2. QED
  BY <1>1, Invariant, PTL

\* A row lost from the cart without a token was in a checkout that failed.
THEOREM LossReported == Spec => []LossIsReported
<1>1. IInv => LossIsReported
  BY DEF IInv
<1>2. QED
  BY <1>1, Invariant, PTL

\* CheckoutAsync stores no token for a tour that was never published.
THEOREM DraftsNotSold == Spec => []NoTokenForDraft
<1>1. IInv => NoTokenForDraft
  BY DEF IInv
<1>2. QED
  BY <1>1, Invariant, PTL

\* Every purchase-completed message that is still queued tells of stored tokens.
THEOREM TrueEvents == Spec => []EventsAreTrue
<1>1. IInv => EventsAreTrue
  BY EventsStored DEF IInv, EventsAreTrue
<1>2. QED
  BY <1>1, Invariant, PTL

\* The tours cache holds a purchase that payments does not know only after a
\* failed checkout.
THEOREM CacheStaleness == Spec => []StaleOnlyAfterFailure
<1>1. IInv => StaleOnlyAfterFailure
  BY DEF IInv, BeliefsJustified, Justified, StaleOnlyAfterFailure
<1>2. QED
  BY <1>1, Invariant, PTL

LEMMA TakeStep == ASSUME NEW S \in SUBSET Item, Ledger!Take(S) PROVE Ledger!Next
BY DEF Ledger!Next

LEMMA SellStep ==
  ASSUME NEW r \in Request, NEW S \in SUBSET Item, Ledger!Sell(r, S)
  PROVE  Ledger!Next
BY DEF Ledger!Next

\* Who has sold what changes only when a call becomes done or stops being it.
LEMMA SalesKept ==
  ASSUME UNCHANGED items, \A q \in Request : pc'[q] = "done" <=> pc[q] = "done"
  PROVE  Sales' = Sales
BY DEF Sales

\* Carts and checkouts implement the ledger: rows leave together and are sold
\* once.
THEOREM Refinement == Spec => ImplementsLedger
<1> USE DEF Shelf
<1>1. Init => Ledger!Init
  BY DEF Init, Ledger!Init, Sales
<1>2. ASSUME IInv, [Next]_vars PROVE [Ledger!Next]_(Ledger!vars)
  <2> USE DEF IInv, TypeOK, Ledger!vars, dbVars, callVars, histVars,
              toursVars, Goto
  <2>1. CASE ToursStep
    BY <1>2, <2>1, ToursStepEffect, SalesKept
  <2>2. ASSUME NEW u \in Tourist, NEW t \in Tour, AddItem(u, t)
        PROVE [Ledger!Next]_(Ledger!vars)
    <3>1. PICK row \in Item : /\ row \notin added
                             /\ cart' = [cart EXCEPT ![u] = @ \union {row}]
                             /\ added' = added \union {row}
      BY <2>2 DEF AddItem, Item
    <3>2. Shelf' = Shelf \union {row} /\ Shelf \subseteq added
      BY <1>2, <3>1 DEF RowsKnown
    <3>3. Ledger!Put(row)
      BY <2>2, <3>1, <3>2, SalesKept DEF AddItem, Ledger!Put
    <3>4. QED
      BY <3>3 DEF Ledger!Next
  <2>3. ASSUME NEW u \in Tourist, NEW i \in cart[u], RemoveItem(u, i)
        PROVE [Ledger!Next]_(Ledger!vars)
    <3>1. Shelf' = Shelf \ {i} /\ i \in Shelf /\ i \in added
      BY <1>2, <2>3 DEF RemoveItem, RowsKnown
    <3>2. Ledger!Take({i})
      BY <2>3, <3>1, SalesKept DEF RemoveItem, Ledger!Take
    <3>3. {i} \in SUBSET Item
      BY <1>2, <2>3
    <3>4. QED
      BY <3>2, <3>3, TakeStep
  <2>4. ASSUME NEW r \in Request, NEW u \in Tourist, ReadCart(r, u)
        PROVE [Ledger!Next]_(Ledger!vars)
    <3>1. Sales' = Sales
      BY <1>2, <2>4 DEF ReadCart, Sales
    <3>2. QED
      BY <2>4, <3>1 DEF ReadCart
  <2>5. ASSUME NEW r \in Request, CheckoutStep(r)
        PROVE [Ledger!Next]_(Ledger!vars)
    <3>0. items[r] \in SUBSET Item
      BY <1>2
    <3>1. CASE Clear(r) \/ UndoWithClear(r)
      <4>1. /\ buyer[r] \in Tourist /\ items[r] \subseteq cart[buyer[r]]
            /\ cart' = [cart EXCEPT ![buyer[r]] = @ \ items[r]]
        BY <1>2, <3>1 DEF Clear, UndoWithClear, RowsPresent, RowsKnown
      <4>2. /\ Shelf' = Shelf \ items[r]
            /\ items[r] \subseteq Shelf
            /\ Shelf \subseteq added
        BY <1>2, <4>1 DEF RowsKnown
      <4>3. Sales' = Sales
        BY <1>2, <3>1, SalesKept DEF Clear, UndoWithClear
      <4>4. UNCHANGED <<items, added>>
        BY <3>1 DEF Clear, UndoWithClear
      <4>5. PICK S \in SUBSET Item : S = items[r]
        BY <3>0
      <4>6. Ledger!Take(S)
        BY <4>2, <4>3, <4>4, <4>5 DEF Ledger!Take
      <4>7. QED
        BY <4>6, TakeStep
    <3>2. CASE Publish(r)
      <4>1. /\ UNCHANGED <<cart, added>>
            /\ Sales' = Sales \union ({r} \X items[r])
        BY <1>2, <3>2 DEF Publish, Sales
      <4>2. /\ items[r] \subseteq added \ Shelf
            /\ \A x \in Sales : x[2] \notin items[r]
        BY <1>2, <3>2 DEF Publish, RowsKnown, ClearedOnce, Cleared, Sales
      <4>3. PICK S \in SUBSET Item : S = items[r]
        BY <3>0
      <4>4. Ledger!Sell(r, S)
        BY <4>1, <4>2, <4>3 DEF Ledger!Sell
      <4>5. QED
        BY <4>4, SellStep
    <3>3. CASE ~(Clear(r) \/ UndoWithClear(r) \/ Publish(r))
      <4>1. UNCHANGED <<cart, added>> /\ Sales' = Sales
        BY <1>2, <2>5, <3>3, SalesKept
        DEF CheckoutStep, Vet, Refuse, Grant, GrantFails, ClearFails, PublishFails,
            Undo, UndoFails
      <4>2. QED
        BY <4>1
    <3>4. QED
      BY <3>1, <3>2, <3>3
  <2>6. CASE PaymentsCrash
    <3>1. UNCHANGED <<cart, added>> /\ Sales' = Sales
      BY <1>2, <2>6, SalesKept DEF PaymentsCrash, Running
    <3>2. QED
      BY <3>1
  <2>7. CASE UNCHANGED vars
    BY <2>7, SalesKept DEF vars
  <2>8. QED
    BY <1>2, StepCases, <2>1, <2>2, <2>3, <2>4, <2>5, <2>6, <2>7
<1>3. QED
  BY <1>1, <1>2, Invariant, PTL DEF Spec, ImplementsLedger, Ledger!Spec
===============================================================================
