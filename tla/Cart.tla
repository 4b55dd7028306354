--------------------------------- MODULE Cart ---------------------------------
(*****************************************************************************)
(* The cart endpoints of the payments service for one tourist, call by call  *)
(* (ShoppingCartService on ShoppingCartRepository).                          *)
(*                                                                           *)
(* Every request has a DbContext of its own: it loads a cart with its rows,  *)
(* changes the loaded objects and saves once.  The save is one transaction   *)
(* that inserts and deletes rows and sets TotalPrice to what was computed    *)
(* from the loaded rows.  No column is unique but the keys and nothing is a  *)
(* concurrency token.  Checkout takes the contents of the cart from here.    *)
(*****************************************************************************)
EXTENDS Integers, FiniteSetsExt

CONSTANTS
  CartId,    \* Guids of ShoppingCarts rows of this tourist (a bound)
  ItemId,    \* Guids of OrderItems rows, each inserted once (a bound)
  Tour,      \* tour ids
  Call,      \* requests in progress at once
  MaxPrice,  \* largest price a client sends (a bound)
  None

ASSUME PriceAssumption == MaxPrice \in Nat
ASSUME NoneAssumption == None \notin CartId

VARIABLES
  carts,     \* the ShoppingCarts rows
  total,     \* their TotalPrice
  rows,      \* the OrderItems rows
  used,      \* ids of all OrderItems rows ever inserted
  pc,        \* Call -> where the call stands
  op,        \* Call -> what it was called for
  mine,      \* Call -> the cart it loaded, or None
  seen,      \* Call -> that cart's rows as loaded
  seenTotal  \* Call -> that cart's TotalPrice as loaded

dbVars   == <<carts, total, rows, used>>
callVars == <<pc, op, mine, seen, seenTotal>>
vars == <<dbVars, callVars>>

Op  == {"get", "add", "remove", "clear"}
Row == [id: ItemId, cart: CartId, tour: Tour, price: 0..MaxPrice]

RowsOf(k) == {i \in rows : i.cart = k}
Sum(S)    == MapThenSumSet(LAMBDA i : i.price, S)

TypeOK ==
  /\ carts \subseteq CartId
  /\ DOMAIN total = CartId
  /\ rows \subseteq Row
  /\ used \subseteq ItemId
  /\ pc \in [Call -> {"idle", "create", "save"}]
  /\ op \in [Call -> Op]
  /\ mine \in [Call -> CartId \union {None}]
  /\ seen \in [Call -> SUBSET Row]
  /\ DOMAIN seenTotal = Call

Init ==
  /\ carts = {}
  /\ total = [k \in CartId |-> 0]
  /\ rows = {}
  /\ used = {}
  /\ pc = [c \in Call |-> "idle"]
  /\ op = [c \in Call |-> "get"]
  /\ mine = [c \in Call |-> None]
  /\ seen = [c \in Call |-> {}]
  /\ seenTotal = [c \in Call |-> 0]

Goto(c, p) == pc' = [pc EXCEPT ![c] = p]

\* Mutant of SetTotal: forgets what the cart held before.
SetTotalNew(c, S) ==
  total' = [total EXCEPT ![mine[c]] = Sum(S \ seen[c])]

\* RecalculateTotal over the loaded rows, as changed: EF sends an UPDATE only
\* when the value differs from the one it loaded.
SetTotal(c, S) ==
  total' = IF Sum(S) = seenTotal[c] THEN total
           ELSE [total EXCEPT ![mine[c]] = Sum(S)]

-------------------------------------------------------------------------------

\* A call has its cart: a GET is done, the others go on to their save.
Loaded(c, o, k, S, n) ==
  /\ mine' = [mine EXCEPT ![c] = k]
  /\ seen' = [seen EXCEPT ![c] = S]
  /\ seenTotal' = [seenTotal EXCEPT ![c] = n]
  /\ Goto(c, IF o = "get" THEN "idle" ELSE "save")

\* GetByTouristIdAsync: FirstOrDefault without an order returns any of the
\* tourist's carts.  Without one, GET and add create it, remove is refused and
\* checkout finds an empty cart.
Load(c, o) ==
  /\ pc[c] = "idle"
  /\ op' = [op EXCEPT ![c] = o]
  /\ IF carts = {}
       THEN /\ Goto(c, IF o \in {"get", "add"} THEN "create" ELSE "idle")
            /\ UNCHANGED <<mine, seen, seenTotal>>
       ELSE \E k \in carts : Loaded(c, o, k, RowsOf(k), total[k])
  /\ UNCHANGED dbVars

\* The rest of GetOrCreateAsync: INSERT.
Create(c) ==
  /\ pc[c] = "create"
  /\ \E k \in CartId \ carts :
       /\ carts' = carts \union {k}
       /\ Loaded(c, op[c], k, {}, 0)
  /\ UNCHANGED <<total, rows, used, op>>

\* AddItemAsync with the price the client sends: one save, unless the loaded cart
\* holds the tour ("Ova tura je vec u korpi"), which changes nothing.
Add(c) ==
  /\ pc[c] = "save" /\ op[c] = "add"
  /\ \E n \in ItemId \ used, t \in Tour, p \in 0..MaxPrice :
       LET row == [id |-> n, cart |-> mine[c], tour |-> t, price |-> p] IN
         /\ \A i \in seen[c] : i.tour # t
         /\ rows' = rows \union {row}
         /\ used' = used \union {n}
         /\ SetTotal(c, seen[c] \union {row})
  /\ Goto(c, "idle")
  /\ UNCHANGED <<carts, op, mine, seen, seenTotal>>

\* Mutant of Remove: the save writes the loaded rows back, less the removed one.
RemoveWriteBack(c) ==
  /\ pc[c] = "save" /\ op[c] = "remove"
  /\ \E i \in seen[c] \intersect rows :
       /\ rows' = (rows \ RowsOf(mine[c])) \union (seen[c] \ {i})
       /\ SetTotal(c, seen[c] \ {i})
  /\ Goto(c, "idle")
  /\ UNCHANGED <<carts, used, op, mine, seen, seenTotal>>

\* RemoveItemAsync of a loaded row: DELETE and UPDATE together.  If the row is
\* gone the save throws and is rolled back (Fail).
Remove(c) ==
  /\ pc[c] = "save" /\ op[c] = "remove"
  /\ \E i \in seen[c] \intersect rows :
       /\ rows' = rows \ {i}
       /\ SetTotal(c, seen[c] \ {i})
  /\ Goto(c, "idle")
  /\ UNCHANGED <<carts, used, op, mine, seen, seenTotal>>

\* ClearAsync, called by checkout for a cart it loaded with rows: all of them go
\* or, if one is gone already, none (Fail).
Clear(c) ==
  /\ pc[c] = "save" /\ op[c] = "clear"
  /\ seen[c] # {} /\ seen[c] \subseteq rows
  /\ rows' = rows \ seen[c]
  /\ SetTotal(c, {})
  /\ Goto(c, "idle")
  /\ UNCHANGED <<carts, used, op, mine, seen, seenTotal>>

\* The call ends without a save: it is refused, its row or cart is not there, its
\* save throws, or the process stops.
Fail(c) ==
  /\ pc[c] # "idle"
  /\ Goto(c, "idle")
  /\ UNCHANGED <<dbVars, op, mine, seen, seenTotal>>

Next ==
  \E c \in Call :
    \/ \E o \in Op : Load(c, o)
    \/ Create(c)
    \/ Add(c) \/ Remove(c) \/ Clear(c)
    \/ Fail(c)

Spec == Init /\ [][Next]_vars

-------------------------------------------------------------------------------
(* A property that holds for any number of overlapping requests.             *)

\* The rows of the cart behave like the shelf of ItemLedger: a row comes once and is
\* never brought back, whatever other saves come between a load and its save
\* (ShoppingCartRepository.cs:43-62).
Ids   == {i.id : i \in rows}
Shelf == INSTANCE ItemLedger WITH
           Row <- ItemId, Sale <- {}, shelf <- Ids, gone <- used \ Ids, sold <- {}
ImplementsShelf == Shelf!Spec

-------------------------------------------------------------------------------
(* Properties that hold until requests overlap (see MCCart).                 *)

\* "Ova tura je vec u korpi" (this tour is already in the cart,
\* ShoppingCartService.cs:26): no two rows of a cart are for one tour.
NoTourTwice ==
  \A i, j \in rows : i.cart = j.cart /\ i.tour = j.tour => i = j

\* "Ukupno" (total, shopping-cart.component.html:75): the stored total is the sum
\* of the rows.
TotalIsSum == \A k \in carts : total[k] = Sum(RowsOf(k))

\* "U korpi" (in the cart, tour-list.component.html:123): what was added is in
\* every cart that a GET may return.
RowsShown == \A i \in rows : \A k \in carts : i.cart = k
===============================================================================
