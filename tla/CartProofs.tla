------------------------------ MODULE CartProofs -------------------------------
(*****************************************************************************)
(* The cart endpoints for any number of carts, rows and overlapping calls.   *)
(*                                                                           *)
(* A save deletes rows by the ids it loaded, whatever happened since.  What  *)
(* makes this right is that an id is drawn once (Drawn): the row it finds is *)
(* the row that was loaded, and a row that went never comes back.            *)
(*****************************************************************************)
EXTENDS MCCart, TLAPS

\* Ids of rows are drawn once and tell rows apart.
Drawn ==
  /\ \A i \in rows : i.id \in used
  /\ \A i, j \in rows : i.id = j.id => i = j

\* A call that is about to save has a cart.
HasCart == \A c \in Call : pc[c] = "save" => mine[c] \in CartId

CartInv == TypeOK /\ HasCart /\ Drawn

LEMMA LoadStep ==
  ASSUME CartInv, NEW c \in Call, NEW o \in Op, Load(c, o)
  PROVE  CartInv'
<1> USE DEF CartInv
<1>1. UNCHANGED dbVars
  BY DEF Load
<1>2. CASE carts = {}
  BY <1>1, <1>2 DEF Load, TypeOK, HasCart, Drawn, Goto, dbVars
<1>3. CASE carts # {}
  <2>1. PICK k \in carts : Loaded(c, o, k, RowsOf(k), total[k])
    BY <1>3 DEF Load
  <2>2. k \in CartId /\ RowsOf(k) \subseteq Row
    BY DEF TypeOK, RowsOf
  <2> HIDE DEF CartInv
  <2>3. TypeOK'
    BY <1>1, <2>1, <2>2 DEF CartInv, Load, Loaded, TypeOK, Goto, dbVars
  <2>4. HasCart' /\ Drawn'
    BY <1>1, <2>1, <2>2 DEF CartInv, Loaded, TypeOK, HasCart, Drawn, Goto, dbVars
  <2> QED  BY <2>3, <2>4 DEF CartInv
<1> QED  BY <1>2, <1>3

LEMMA CreateStep ==
  ASSUME CartInv, NEW c \in Call, Create(c)
  PROVE  CartInv'
<1>1. PICK k \in CartId \ carts : carts' = carts \union {k} /\ Loaded(c, op[c], k, {}, 0)
  BY DEF Create
<1>2. TypeOK'
  BY <1>1 DEF CartInv, Create, Loaded, TypeOK, Goto
<1>3. HasCart' /\ Drawn'
  BY <1>1 DEF CartInv, Create, Loaded, TypeOK, HasCart, Drawn, Goto
<1> QED  BY <1>2, <1>3 DEF CartInv

\* The total stays one of every cart, whatever its value.
LEMMA TotalKept ==
  ASSUME TypeOK, NEW c \in Call, NEW S, SetTotal(c, S)
  PROVE  DOMAIN total' = CartId
BY DEF TypeOK, SetTotal

LEMMA AddStep ==
  ASSUME CartInv, NEW c \in Call, Add(c)
  PROVE  CartInv'
<1>1. PICK n \in ItemId \ used, t \in Tour, p \in 0..MaxPrice :
        LET row == [id |-> n, cart |-> mine[c], tour |-> t, price |-> p] IN
          /\ rows' = rows \union {row}
          /\ used' = used \union {n}
          /\ SetTotal(c, seen[c] \union {row})
  BY DEF Add
<1> DEFINE row == [id |-> n, cart |-> mine[c], tour |-> t, price |-> p]
<1>2. row \in Row
  BY DEF CartInv, HasCart, Add, Row
<1>3. DOMAIN total' = CartId
  BY <1>1, TotalKept DEF CartInv
<1>4. TypeOK'
  BY <1>1, <1>2, <1>3 DEF CartInv, Add, TypeOK, Goto
<1>5. HasCart' /\ Drawn'
  BY <1>1, <1>2 DEF CartInv, Add, TypeOK, HasCart, Drawn, Goto
<1> QED  BY <1>4, <1>5 DEF CartInv

LEMMA OtherSteps ==
  ASSUME CartInv, NEW c \in Call, Remove(c) \/ Clear(c) \/ Fail(c)
  PROVE  CartInv'
<1>1. DOMAIN total' = CartId
  BY TotalKept DEF CartInv, Remove, Clear, Fail, TypeOK, dbVars
<1>2. /\ rows' \subseteq rows
      /\ pc' = [pc EXCEPT ![c] = "idle"]
      /\ UNCHANGED <<carts, used, op, mine, seen, seenTotal>>
  BY DEF Remove, Clear, Fail, Goto, dbVars
<1> QED  BY <1>1, <1>2 DEF CartInv, TypeOK, HasCart, Drawn

\* However calls overlap, ids of rows are drawn once and a save has a cart.
THEOREM CartKept == Spec => []CartInv
<1>1. Init => CartInv
  BY DEF Init, CartInv, TypeOK, HasCart, Drawn, Op
<1>2. ASSUME CartInv, [Next]_vars  PROVE CartInv'
  <2>1. CASE UNCHANGED vars
    BY <1>2, <2>1 DEF CartInv, TypeOK, HasCart, Drawn, vars, dbVars, callVars
  <2>2. CASE Next
    BY <1>2, <2>2, LoadStep, CreateStep, AddStep, OtherSteps DEF Next
  <2> QED  BY <1>2, <2>1, <2>2
<1> QED  BY <1>1, <1>2, PTL DEF Spec

\* Type correctness of carts, rows and calls.
THEOREM CartTyping == Spec => []TypeOK
<1>1. CartInv => TypeOK
  BY DEF CartInv
<1> QED  BY <1>1, CartKept, PTL

-------------------------------------------------------------------------------

LEMMA TakeStep == ASSUME NEW S \in SUBSET ItemId, Shelf!Take(S) PROVE Shelf!Next
BY DEF Shelf!Next

\* Rows that go are taken from the shelf.
LEMMA Taken ==
  ASSUME CartInv, NEW gone \in SUBSET rows, rows' = rows \ gone, used' = used
  PROVE  Shelf!Next
<1> DEFINE S == {i.id : i \in gone}
<1>1. S \in SUBSET ItemId /\ S \subseteq Ids
  BY DEF CartInv, TypeOK, Row, Ids
<1>2. Ids' = Ids \ S
  BY DEF CartInv, Drawn, Ids
<1>3. Ids \subseteq used
  BY DEF CartInv, Drawn, Ids
<1> HIDE DEF S
<1>4. Shelf!Take(S)
  BY <1>1, <1>2, <1>3 DEF Shelf!Take
<1> QED  BY <1>1, <1>4, TakeStep

\* The rows of the cart implement ItemLedger: each is put in once, and none that has
\* gone comes back (ShoppingCartRepository.cs:43-62).
THEOREM CartRefinement == Spec => ImplementsShelf
<1>1. Init => Shelf!Init
  BY DEF Init, Shelf!Init, Ids
<1>2. ASSUME CartInv, [Next]_vars  PROVE [Shelf!Next]_(Shelf!vars)
  <2>1. CASE UNCHANGED <<rows, used>>
    <3>1. Ids' = Ids
      BY <2>1 DEF Ids
    <3> QED  BY <2>1, <3>1 DEF Shelf!vars
  <2>2. ASSUME NEW c \in Call, Add(c)  PROVE Shelf!Next
    <3>1. PICK n \in ItemId \ used :
            \E row : row.id = n /\ rows' = rows \union {row} /\ used' = used \union {n}
      BY <2>2 DEF Add
    <3>2. Ids' = Ids \union {n}
      BY <3>1 DEF Ids
    <3>3. Ids \subseteq used
      BY <1>2 DEF CartInv, Drawn, Ids
    <3>4. Shelf!Put(n)
      BY <3>1, <3>2, <3>3 DEF Shelf!Put
    <3> QED  BY <3>4 DEF Shelf!Next
  <2>3. ASSUME NEW c \in Call, Remove(c)  PROVE Shelf!Next
    <3>1. PICK i \in rows : rows' = rows \ {i}
      BY <2>3 DEF Remove
    <3> QED  BY <1>2, <2>3, <3>1, Taken DEF Remove
  <2>4. ASSUME NEW c \in Call, Clear(c)  PROVE Shelf!Next
    BY <1>2, <2>4, Taken DEF Clear
  <2>5. ASSUME NEW c \in Call, (\E o \in Op : Load(c, o)) \/ Create(c) \/ Fail(c)
        PROVE  UNCHANGED <<rows, used>>
    BY <2>5 DEF Load, Create, Fail, dbVars
  <2>6. CASE UNCHANGED vars
    BY <2>1, <2>6 DEF vars, dbVars
  <2> QED  BY <1>2, <2>1, <2>2, <2>3, <2>4, <2>5, <2>6 DEF Next
<1> QED  BY <1>1, <1>2, CartKept, PTL DEF Spec, ImplementsShelf, Shelf!Spec

-------------------------------------------------------------------------------
(* One request at a time, with the history of MCCart.  What is added up does *)
(* not matter here: the request that saves holds the rows and the total as   *)
(* they are stored, so whatever it sets is computed from the rows it leaves. *)

mcVars == <<vars, overlapped>>

\* Behaviours with the history are behaviours of the endpoints.
LEMMA HistoryOnly == MCSpec => Spec
<1>1. MCInit => Init
  BY DEF MCInit
<1>2. [MCNext]_mcVars => [Next]_vars
  BY DEF MCNext, mcVars
<1> QED  BY <1>1, <1>2, PTL DEF MCSpec, Spec, mcVars

\* A cart without rows costs nothing.
LEMMA SumOfNone == Sum({}) = 0
BY DEF Sum, MapThenSumSet, MapThenFoldSet

OneCart ==
  /\ \A k, l \in carts : k = l
  /\ \A i \in rows : i.cart \in carts
  /\ \A k \in CartId \ carts : total[k] = 0

\* A request in progress is alone and holds the cart as it is stored.
AloneWithIt ==
  /\ \A c, d \in Call : pc[c] # "idle" /\ pc[d] # "idle" => c = d
  /\ \A c \in Call : pc[c] = "create" => carts = {}
  /\ \A c \in Call : pc[c] = "save" =>
       /\ mine[c] \in carts
       /\ seen[c] = RowsOf(mine[c])
       /\ seenTotal[c] = total[mine[c]]

SerialRight == OneCart /\ AloneWithIt /\ NoTourTwice /\ TotalIsSum

SerialInv ==
  /\ overlapped \in BOOLEAN
  /\ ~overlapped => SerialRight

\* A save of the only cart, which was loaded as it is stored.
LEMMA SaveRight ==
  ASSUME CartInv, OneCart, AloneWithIt, NEW c \in Call, pc[c] = "save",
         NEW S, SetTotal(c, S), UNCHANGED carts,
         S = {i \in rows' : i.cart = mine[c]}, \A i \in rows' : i.cart \in carts
  PROVE  OneCart' /\ TotalIsSum'
<1>1. /\ mine[c] \in carts /\ seenTotal[c] = total[mine[c]]
      /\ carts \subseteq CartId /\ DOMAIN total = CartId
  BY DEF AloneWithIt, CartInv, TypeOK
<1>2. total'[mine[c]] = Sum(S)
  BY <1>1 DEF SetTotal
<1>3. \A k \in CartId \ carts : total'[k] = total[k]
  BY <1>1 DEF SetTotal
<1>4. OneCart'
  BY <1>3 DEF OneCart
<1>5. \A k \in carts : k = mine[c]
  BY <1>1 DEF OneCart
<1>6. ASSUME NEW k \in carts  PROVE total'[k] = Sum(RowsOf(k))'
  <2>1. k = mine[c]
    BY <1>5
  <2>2. {i \in rows' : i.cart = k} = S
    BY <2>1
  <2>3. Sum({i \in rows' : i.cart = k}) = Sum(S)
    BY <2>2
  <2> QED  BY <1>2, <2>1, <2>3 DEF RowsOf
<1>7. TotalIsSum'
  BY <1>6 DEF TotalIsSum
<1> QED  BY <1>4, <1>7

\* A request that ends leaves no other in progress.
LEMMA EndAlone ==
  ASSUME CartInv, AloneWithIt, NEW c \in Call, pc[c] # "idle", Goto(c, "idle")
  PROVE  AloneWithIt'
BY DEF CartInv, TypeOK, AloneWithIt, Goto

\* Each step of one request at a time.
LEMMA SerialSaves ==
  ASSUME CartInv, SerialRight, NEW c \in Call, Add(c) \/ Remove(c) \/ Clear(c)
  PROVE  SerialRight'
<1>1. /\ pc[c] = "save" /\ UNCHANGED carts /\ Goto(c, "idle")
      /\ mine[c] \in carts /\ seen[c] = RowsOf(mine[c]) /\ mine[c] \in CartId
  BY DEF Add, Remove, Clear, SerialRight, AloneWithIt, CartInv, TypeOK
<1>2. rows = seen[c]
  BY <1>1 DEF SerialRight, OneCart, RowsOf
<1>3. AloneWithIt'
  BY <1>1, EndAlone DEF SerialRight
<1>4. CASE Add(c)
  <2>1. PICK n \in ItemId \ used, t \in Tour, p \in 0..MaxPrice :
          LET row == [id |-> n, cart |-> mine[c], tour |-> t, price |-> p] IN
            /\ \A i \in seen[c] : i.tour # t
            /\ rows' = rows \union {row}
            /\ SetTotal(c, seen[c] \union {row})
    BY <1>4 DEF Add
  <2>2. PICK row : row = [id |-> n, cart |-> mine[c], tour |-> t, price |-> p]
    OBVIOUS
  <2>3. /\ row.cart = mine[c] /\ row.tour = t
        /\ rows' = rows \union {row} /\ SetTotal(c, rows \union {row})
    BY <1>2, <2>1, <2>2
  <2>4. NoTourTwice'
    BY <1>2, <2>1, <2>3 DEF SerialRight, NoTourTwice
  <2>5. /\ \A i \in rows' : i.cart \in carts
        /\ rows' = {i \in rows' : i.cart = mine[c]}
    BY <1>1, <1>2, <2>3 DEF RowsOf
  <2> QED  BY <1>1, <1>3, <2>3, <2>4, <2>5, SaveRight DEF SerialRight
<1>5. CASE Remove(c) \/ Clear(c)
  <2>1. PICK S : rows' = S /\ S \subseteq rows /\ SetTotal(c, S)
    BY <1>2, <1>5 DEF Remove, Clear
  <2>2. NoTourTwice'
    BY <2>1 DEF SerialRight, NoTourTwice
  <2>3. /\ \A i \in rows' : i.cart \in carts
        /\ S = {i \in rows' : i.cart = mine[c]}
    BY <1>1, <1>2, <2>1 DEF RowsOf
  <2> QED  BY <1>1, <1>3, <2>1, <2>2, <2>3, SaveRight DEF SerialRight
<1> QED  BY <1>4, <1>5

\* A request comes to hold the cart as it is stored.
LEMMA Holds ==
  ASSUME CartInv, SerialRight, NEW c \in Call, NEW p, Goto(c, p),
         p # "idle" => \A d \in Call : d # c => pc[d] = "idle",
         \/ p = "idle" /\ UNCHANGED <<mine, seen, seenTotal>>
         \/ p = "create" /\ carts = {}
         \/ \E k \in carts : /\ mine' = [mine EXCEPT ![c] = k]
                             /\ seen' = [seen EXCEPT ![c] = RowsOf(k)]
                             /\ seenTotal' = [seenTotal EXCEPT ![c] = total[k]]
                             /\ p \in {"idle", "save"},
         UNCHANGED dbVars
  PROVE  SerialRight'
<1>1. OneCart' /\ NoTourTwice' /\ TotalIsSum'
  BY DEF SerialRight, OneCart, NoTourTwice, TotalIsSum, RowsOf, dbVars
<1>2. pc'[c] = p /\ \A d \in Call : d # c => pc'[d] = pc[d]
  BY DEF CartInv, TypeOK, Goto
<1>3. \A d \in Call : d # c /\ pc[d] # "idle" =>
        mine'[d] = mine[d] /\ seen'[d] = seen[d] /\ seenTotal'[d] = seenTotal[d]
  BY DEF CartInv, TypeOK
<1>4. p = "save" => mine'[c] \in carts /\ seen'[c] = RowsOf(mine'[c]) /\ seenTotal'[c] = total[mine'[c]]
  BY DEF CartInv, TypeOK
<1>6. ASSUME NEW d \in Call, pc'[d] = "save"
      PROVE  mine'[d] \in carts' /\ seen'[d] = RowsOf(mine[d])' /\ seenTotal'[d] = total'[mine'[d]]
  BY <1>2, <1>3, <1>4, <1>6 DEF SerialRight, AloneWithIt, RowsOf, dbVars
<1>7. \A d \in Call : pc'[d] = "create" => carts' = {}
  BY <1>2 DEF SerialRight, AloneWithIt, dbVars
<1>8. \A d, e \in Call : pc'[d] # "idle" /\ pc'[e] # "idle" => d = e
  BY <1>2 DEF SerialRight, AloneWithIt
<1>9. AloneWithIt'
  BY <1>6, <1>7, <1>8 DEF AloneWithIt
<1> QED  BY <1>1, <1>9 DEF SerialRight

LEMMA SerialCreate ==
  ASSUME CartInv, SerialRight, NEW c \in Call, Create(c)
  PROVE  SerialRight'
<1>1. pc[c] = "create" /\ carts = {} /\ UNCHANGED <<total, rows>>
  BY DEF Create, SerialRight, AloneWithIt
<1>2. PICK k \in CartId : carts' = {k} /\ Loaded(c, op[c], k, {}, 0)
  BY <1>1 DEF Create
<1>3. rows = {} /\ total[k] = 0
  BY <1>1 DEF SerialRight, OneCart
<1>4. OneCart' /\ NoTourTwice'
  BY <1>1, <1>2, <1>3 DEF OneCart, NoTourTwice, SerialRight
<1>5. TotalIsSum'
  <2>1. RowsOf(k)' = {}
    BY <1>1, <1>3 DEF RowsOf
  <2>2. Sum(RowsOf(k))' = Sum({})
    BY <2>1
  <2> QED  BY <1>1, <1>2, <1>3, <2>2, SumOfNone DEF TotalIsSum
<1>6. \A d \in Call : d # c => pc'[d] = "idle"
  BY <1>1, <1>2 DEF CartInv, TypeOK, Loaded, Goto, SerialRight, AloneWithIt
<1>7. pc'[c] # "create"
  BY <1>2 DEF CartInv, TypeOK, Loaded, Goto
<1>8. mine'[c] = k /\ seen'[c] = {} /\ seenTotal'[c] = 0
  BY <1>2 DEF CartInv, TypeOK, Loaded
<1>9. AloneWithIt'
  BY <1>1, <1>2, <1>3, <1>6, <1>7, <1>8 DEF AloneWithIt, RowsOf
<1> QED  BY <1>4, <1>5, <1>9 DEF SerialRight

LEMMA SerialLoad ==
  ASSUME CartInv, SerialRight, MCNext, ~overlapped', NEW c \in Call, NEW o \in Op, Load(c, o)
  PROVE  SerialRight'
<1>1. PICK p : /\ Goto(c, p)
               /\ \/ p = "idle" /\ UNCHANGED <<mine, seen, seenTotal>>
                  \/ p = "create" /\ carts = {}
                  \/ \E k \in carts : /\ mine' = [mine EXCEPT ![c] = k]
                                      /\ seen' = [seen EXCEPT ![c] = RowsOf(k)]
                                      /\ seenTotal' = [seenTotal EXCEPT ![c] = total[k]]
                                      /\ p \in {"idle", "save"}
  <2>1. CASE carts = {}
    BY <2>1 DEF Load
  <2>2. CASE carts # {}
    BY <2>2 DEF Load, Loaded
  <2> QED  BY <2>1, <2>2
<1>2. ASSUME p # "idle", NEW d \in Call, d # c  PROVE pc[d] = "idle"
  <2>1. pc'[c] # "idle" /\ pc'[d] = pc[d]
    BY <1>1, <1>2 DEF CartInv, TypeOK, Goto
  <2> QED  BY <1>2, <2>1 DEF MCNext
<1> QED  BY <1>1, <1>2, Holds DEF Load

\* What one request at a time keeps.
LEMMA SerialKept == MCSpec => []SerialInv
<1>1. MCInit => SerialInv
  <2> SUFFICES ASSUME MCInit  PROVE SerialInv
    OBVIOUS
  <2>1. carts = {} /\ rows = {} /\ total = [k \in CartId |-> 0] /\ \A c \in Call : pc[c] = "idle"
    BY DEF MCInit, Init
  <2>2. OneCart /\ AloneWithIt /\ NoTourTwice /\ TotalIsSum
    BY <2>1 DEF OneCart, AloneWithIt, NoTourTwice, TotalIsSum
  <2> QED  BY <2>2 DEF MCInit, SerialInv, SerialRight
<1>2. SerialInv /\ UNCHANGED mcVars => SerialInv'
  <2> SUFFICES ASSUME SerialInv, UNCHANGED mcVars  PROVE SerialInv'
    OBVIOUS
  <2>1. \A k : RowsOf(k)' = RowsOf(k)
    BY DEF RowsOf, mcVars, vars, dbVars
  <2>2. TotalIsSum => TotalIsSum'
    BY DEF TotalIsSum, RowsOf, mcVars, vars, dbVars
  <2> QED  BY <2>1, <2>2 DEF SerialInv, SerialRight, OneCart, AloneWithIt, NoTourTwice, RowsOf,
                             mcVars, vars, dbVars, callVars
<1>3. CartInv /\ SerialInv /\ MCNext => SerialInv'
  <2> SUFFICES ASSUME CartInv, SerialInv, MCNext  PROVE SerialInv'
    OBVIOUS
  <2>1. overlapped' \in BOOLEAN /\ (~overlapped' => ~overlapped)
    BY DEF MCNext, SerialInv
  <2> SUFFICES ASSUME ~overlapped'  PROVE SerialRight'
    BY <2>1 DEF SerialInv
  <2>2. SerialRight
    BY <2>1 DEF SerialInv
  <2>3. ASSUME NEW c \in Call, Fail(c)  PROVE SerialRight'
    <3>1. AloneWithIt'
      BY <2>2, <2>3, EndAlone DEF Fail, SerialRight
    <3> QED  BY <2>2, <2>3, <3>1
             DEF Fail, SerialRight, OneCart, NoTourTwice, TotalIsSum, RowsOf, dbVars
  <2> QED  BY <2>2, <2>3, SerialLoad, SerialCreate, SerialSaves DEF MCNext, Next
<1> QED  BY <1>1, <1>2, <1>3, HistoryOnly, CartKept, PTL DEF MCSpec, mcVars

\* Until two requests overlap, failures included, the cart a GET shows is the whole
\* truth (ShoppingCartService.cs:25-40, ShoppingCartRepository.cs:25).
THEOREM SerialCart == MCSpec => []SerialCartRight
<1>1. SerialInv => SerialCartRight
  BY DEF SerialInv, SerialRight, SerialCartRight, OneCart, RowsShown
<1> QED  BY <1>1, SerialKept, PTL
===============================================================================
