---------------------------- MODULE BlogPageProofs -----------------------------
(*****************************************************************************)
(* The blog page for any number of blogs and requests in flight.             *)
(*                                                                           *)
(* A flag of loading, liking or creating and the request it stands for come  *)
(* and go together (One).  So a list or a blog is only awaited while no blog *)
(* is open, and whatever is told of a blog, while it is open, is told of     *)
(* that blog (Waiting).  Cards are of blogs that are stored; a blog created  *)
(* while no list is on its way is on no card and in every later list         *)
(* (Cards).                                                                  *)
(*****************************************************************************)
EXTENDS MCBlogPage, FiniteSetTheorems, TLAPS

\* The flag is set as long as one request of these kinds is in flight.
One(flag, kinds) == IF flag THEN \E m : Flight(kinds) = {m} ELSE Flight(kinds) = {}

FlagsInv ==
  /\ One(isLoading, {"list", "get"})
  /\ One(isLiking, {"like"})
  /\ One(isCreating, {"create"})

\* What a request asks for and what an answer tells.
Sound(m) ==
  /\ m.kind \in {"get", "like", "comment", "edit"} => m.blog \in BlogId
  /\ m.kind = "get" => m.card \in DOMAIN cards
  /\ m.kind = "create" /\ m.at = "ok" => m.blog \in own
  /\ m.kind = "list" => IsFiniteSet(m.list) /\ m.list \subseteq stored

CardIds == {cards[i].id : i \in DOMAIN cards}

StoredInv ==
  /\ TypeOK
  /\ IsFiniteSet(stored) /\ IsFiniteSet(net)
  /\ CardIds \subseteq stored
  /\ \A m \in net : Sound(m)

\* A blog is opened from the cards that are loaded, with nothing on its way.
LoadingInv ==
  /\ isLoading \/ error => selected = NoBlog
  /\ error => Flight({"get"}) = {}

\* An object of the page with likes and comments of its own.
Proper(o) == o.likes = o.id /\ o.comments \in {None, "empty", o.id}

About == \A m \in Flight({"like", "comment", "edit"}) : selected # NoBlog /\ m.blog = Opened.id

Labels == /\ \A i \in DOMAIN cards : Proper(cards[i])
          /\ selected # NoBlog /\ selected.card = 0 => Proper(selected.own)

Waiting == ~closed => About /\ Labels

\* What m tells fits the cards.
Fits(m) ==
  /\ m.kind = "create" /\ m.at = "ok" => m.blog \notin CardIds
  /\ m.kind = "list" /\ m.at = "ok" => created \subseteq m.list

Once ==
  /\ Flight({"list"}) = {} \/ Flight({"create"}) = {}
  /\ OneCard
  /\ created \subseteq CardIds \intersect own
  /\ \A m \in net : Fits(m)

Cards == ~raced => Once

\* What holds whatever the user does, and what holds of a user who waits.
AnyInv     == FlagsInv /\ StoredInv /\ LoadingInv
WaitingInv == Waiting /\ Cards

-------------------------------------------------------------------------------
(* Requests in flight.                                                       *)

Sent(m) == net' = net \union {m}

LEMMA SendIs ==
  ASSUME NEW k, NEW b, NEW i, Send(k, b, i)
  PROVE  \E n \in Nat : Sent(Request(k, b, i, n))
BY DEF Send, Sent

LEMMA FlightSend ==
  ASSUME NEW m, Sent(m), NEW kinds
  PROVE  Flight(kinds)' = IF m.kind \in kinds THEN Flight(kinds) \union {m} ELSE Flight(kinds)
BY DEF Sent, Flight

LEMMA FlightAnswer ==
  ASSUME NEW m \in net, NEW n, n.kind = m.kind, Answer(m, n), NEW kinds
  PROVE  Flight(kinds)' = IF m.kind \in kinds THEN (Flight(kinds) \ {m}) \union {n}
                          ELSE Flight(kinds)
BY DEF Answer, Flight

LEMMA FlightTake ==
  ASSUME NEW m, net' = net \ {m}, NEW kinds
  PROVE  Flight(kinds)' = IF m.kind \in kinds THEN Flight(kinds) \ {m} ELSE Flight(kinds)
BY DEF Flight

Booleans == /\ error \in BOOLEAN /\ isLoading \in BOOLEAN /\ isLiking \in BOOLEAN
            /\ isSubmittingComment \in BOOLEAN /\ isCreating \in BOOLEAN

\* The answer to a request is of its kind.
Served(m, n) == m \in net /\ n.kind = m.kind /\ Answer(m, n)

LEMMA ServiceAnswers ==
  ASSUME TypeOK, Service
  PROVE  /\ UNCHANGED <<cards, selected, flags>>
         /\ WrittenElsewhere \/ \E m, n : Served(m, n)
<1>1. ASSUME NEW m \in net, ServeList(m) \/ ServeOne(m) \/ ServeCreate(m) \/ ServeNot(m)
      PROVE  UNCHANGED <<cards, selected, flags>> /\ \E n : Served(m, n)
  <2>1. /\ m = [kind |-> m.kind, at |-> m.at, blog |-> m.blog, card |-> m.card, list |-> m.list,
                no |-> m.no]
        /\ m \in Message
    BY <1>1 DEF TypeOK, Message
  <2>2. \A at, l : [m EXCEPT !.at = at, !.list = l].kind = m.kind
    BY <2>1
  <2>3. \A at, b : [m EXCEPT !.at = at, !.blog = b].kind = m.kind
    BY <2>1
  <2>4. \A at : [m EXCEPT !.at = at].kind = m.kind
    BY <2>1
  <2> QED
    BY <1>1, <2>2, <2>3, <2>4 DEF ServeList, ServeOne, ServeCreate, ServeNot, Served
<1> QED  BY <1>1 DEF Service, WrittenElsewhere

\* A flag of requests of some kinds after one more of them, or one less.
LEMMA OneSend ==
  ASSUME NEW m, Sent(m), NEW kinds, NEW flag \in BOOLEAN, One(flag, kinds)
  PROVE  /\ m.kind \in kinds /\ ~flag => \E n : Flight(kinds)' = {n}
         /\ m.kind \notin kinds => IF flag THEN \E n : Flight(kinds)' = {n} ELSE Flight(kinds)' = {}
BY FlightSend DEF One

LEMMA OneTake ==
  ASSUME NEW m \in net, net' = net \ {m}, NEW kinds, NEW flag \in BOOLEAN, One(flag, kinds)
  PROVE  /\ m.kind \in kinds => Flight(kinds)' = {}
         /\ m.kind \notin kinds => IF flag THEN \E n : Flight(kinds)' = {n} ELSE Flight(kinds)' = {}
<1>1. m.kind \in kinds => m \in Flight(kinds)
  BY DEF Flight
<1> QED  BY <1>1, FlightTake DEF One

\* What sending a request of kind k does to the flags.
FlagSteps(k) ==
  /\ isLoading' = (isLoading \/ k \in {"list", "get"})
  /\ isLiking' = (isLiking \/ k = "like")
  /\ isCreating' = (isCreating \/ k = "create")

LEMMA SendKeepsFlags ==
  ASSUME Booleans, FlagsInv, NEW m, Sent(m), FlagSteps(m.kind),
         m.kind \in {"list", "get"} => ~isLoading,
         m.kind = "like" => ~isLiking,
         m.kind = "create" => ~isCreating
  PROVE  FlagsInv'
<1>1. One(isLoading, {"list", "get"})'
  BY OneSend DEF FlagsInv, FlagSteps, Booleans, One
<1>2. One(isLiking, {"like"})'
  <2> DEFINE kinds == {"like"}
  <2>1. m.kind \in kinds <=> m.kind = "like"
    OBVIOUS
  <2>2. One(isLiking, kinds)
    BY DEF FlagsInv
  <2> HIDE DEF kinds
  <2>3. One(isLiking, kinds)'
    BY <2>1, <2>2, OneSend DEF FlagSteps, Booleans, One
  <2> QED  BY <2>3 DEF kinds
<1>3. One(isCreating, {"create"})'
  <2> DEFINE kinds == {"create"}
  <2>1. m.kind \in kinds <=> m.kind = "create"
    OBVIOUS
  <2>2. One(isCreating, kinds)
    BY DEF FlagsInv
  <2> HIDE DEF kinds
  <2>3. One(isCreating, kinds)'
    BY <2>1, <2>2, OneSend DEF FlagSteps, Booleans, One
  <2> QED  BY <2>3 DEF kinds
<1> QED  BY <1>1, <1>2, <1>3 DEF FlagsInv

LEMMA TakeKeepsFlags ==
  ASSUME Booleans, FlagsInv, NEW m \in net, net' = net \ {m},
         isLoading' = (isLoading /\ m.kind \notin {"list", "get"}),
         isLiking' = (isLiking /\ m.kind # "like"),
         isCreating' = (isCreating /\ m.kind # "create")
  PROVE  FlagsInv'
<1>1. One(isLoading, {"list", "get"})'
  BY OneTake DEF FlagsInv, Booleans, One
<1>2. One(isLiking, {"like"})'
  BY OneTake DEF FlagsInv, Booleans, One
<1>3. One(isCreating, {"create"})'
  BY OneTake DEF FlagsInv, Booleans, One
<1> QED  BY <1>1, <1>2, <1>3 DEF FlagsInv

LEMMA ServiceKeepsFlags ==
  ASSUME TypeOK, FlagsInv, Service
  PROVE  FlagsInv'
<1>0. UNCHANGED <<isLoading, isLiking, isCreating>>
  BY ServiceAnswers DEF flags
<1>1. CASE WrittenElsewhere
  BY <1>0, <1>1 DEF WrittenElsewhere, FlagsInv, One, Flight
<1>2. ASSUME NEW m, NEW n, Served(m, n)
      PROVE  FlagsInv'
  <2>1. ASSUME NEW kinds
        PROVE  /\ Flight(kinds) = {} => Flight(kinds)' = {}
               /\ \A x : Flight(kinds) = {x} => \E y : Flight(kinds)' = {y}
    <3>1. m.kind \in kinds => m \in Flight(kinds)
      BY <1>2 DEF Served, Flight
    <3>2. Flight(kinds)' = IF m.kind \in kinds THEN (Flight(kinds) \ {m}) \union {n}
                           ELSE Flight(kinds)
      BY <1>2, FlightAnswer DEF Served
    <3> QED  BY <3>1, <3>2
  <2> QED  BY <1>0, <2>1 DEF FlagsInv, One
<1> QED  BY <1>1, <1>2, ServiceAnswers

\* Flags and requests come and go together.
LEMMA FlagsKept ==
  ASSUME TypeOK, FlagsInv, [Next]_vars
  PROVE  FlagsInv'
<1>0. Booleans /\ \A k, b, i, n : Request(k, b, i, n).kind = k
  BY DEF TypeOK, Booleans, Request
<1>1. CASE UNCHANGED <<net, flags>>
  BY <1>1 DEF FlagsInv, One, Flight, flags
<1>2. CASE Leave
  <2> DEFINE m == Request("list", None, 0, 1)
  <2>1. net' = {m} /\ m.kind = "list"
    BY <1>0, <1>2 DEF Leave
  <2> HIDE DEF m
  <2>2. /\ Flight({"list", "get"})' = {m} /\ Flight({"like"})' = {}
        /\ Flight({"create"})' = {}
    BY <2>1 DEF Flight
  <2> QED  BY <1>2, <2>2 DEF Leave, FlagsInv, One
<1>s. ASSUME NEW k, NEW b, NEW i, Send(k, b, i), FlagSteps(k),
             k \in {"list", "get"} => ~isLoading,
             k = "like" => ~isLiking, k = "create" => ~isCreating
      PROVE  FlagsInv'
  <2>1. PICK m : Sent(m) /\ m.kind = k
    BY <1>0, <1>s, SendIs
  <2> QED  BY <1>0, <1>s, <2>1, SendKeepsFlags
<1>3. CASE OpenBlog
  <2>1. PICK i \in DOMAIN cards : Send("get", cards[i].id, i)
    BY <1>3 DEF OpenBlog
  <2>2. ~isLoading
    BY <1>3 DEF OpenBlog, GridShown
  <2>3. FlagSteps("get")
    BY <1>0, <1>3 DEF OpenBlog, FlagSteps, Booleans
  <2> QED  BY <1>s, <2>1, <2>2, <2>3
<1>4. CASE Retry
  <2>1. FlagSteps("list")
    BY <1>0, <1>4 DEF Retry, FlagSteps, Booleans
  <2> QED  BY <1>s, <1>4, <2>1 DEF Retry
<1>5. CASE ToggleLike
  <2>1. FlagSteps("like")
    BY <1>0, <1>5 DEF ToggleLike, FlagSteps, Booleans
  <2> QED  BY <1>s, <1>5, <2>1 DEF ToggleLike
<1>6. CASE SubmitComment
  <2>1. FlagSteps("comment")
    BY <1>0, <1>6 DEF SubmitComment, FlagSteps, Booleans
  <2> QED  BY <1>s, <1>6, <2>1 DEF SubmitComment
<1>7. CASE SaveEdit
  <2>1. FlagSteps("edit")
    BY <1>0, <1>7 DEF SaveEdit, FlagSteps, Booleans, flags
  <2> QED  BY <1>s, <1>7, <2>1 DEF SaveEdit
<1>8. CASE CreateBlog
  <2>1. FlagSteps("create")
    BY <1>0, <1>8 DEF CreateBlog, FlagSteps, Booleans
  <2> QED  BY <1>s, <1>8, <2>1 DEF CreateBlog
<1>9. CASE Service
  BY <1>9, ServiceKeepsFlags
<1>10. ASSUME NEW m \in net, TakeList(m) \/ TakeGet(m)
       PROVE  FlagsInv'
  BY <1>0, <1>10, TakeKeepsFlags DEF TakeList, TakeGet, Take, Booleans
<1>11. ASSUME NEW m \in net, TakeLike(m) \/ TakeCreate(m)
       PROVE  FlagsInv'
  BY <1>0, <1>11, TakeKeepsFlags DEF TakeLike, TakeCreate, Take, Booleans
<1>12. ASSUME NEW m \in net, TakeComment(m) \/ TakeEdit(m)
       PROVE  FlagsInv'
  BY <1>0, <1>12, TakeKeepsFlags DEF TakeComment, TakeEdit, Take, Booleans
<1> QED
  BY <1>1, <1>2, <1>3, <1>4, <1>5, <1>6, <1>7, <1>8, <1>9, <1>10, <1>11, <1>12
  DEF Next, User, Page, CloseBlog, vars, flags

-------------------------------------------------------------------------------
(* What is stored, asked for and shown.                                      *)

LEMMA BooleansKept ==
  ASSUME TypeOK, FlagsInv, [Next]_vars
  PROVE  Booleans'
<1>0. Booleans
  BY DEF TypeOK, Booleans
<1>1. ASSUME Service  PROVE Booleans'
  BY <1>0, <1>1, ServiceAnswers DEF flags, Booleans
<1> QED
  BY <1>0, <1>1 DEF Booleans, Next, User, Page, Retry, OpenBlog, CloseBlog, Leave, ToggleLike,
     SubmitComment, SaveEdit, CreateBlog, TakeList, TakeGet, TakeLike, TakeComment, TakeEdit,
     TakeCreate, vars, flags

LEMMA Requested ==
  ASSUME NEW k \in Kind, NEW b \in BlogId \union {None}, NEW i \in Nat, NEW n \in Nat
  PROVE  /\ Request(k, b, i, n) \in Message
         /\ Request(k, b, i, n).kind = k /\ Request(k, b, i, n).blog = b
         /\ Request(k, b, i, n).card = i
         /\ Request(k, b, i, n).at = "sent" /\ Request(k, b, i, n).list = {}
BY DEF Request, Message

\* The object that is open.
LEMMA OpenedIs ==
  ASSUME TypeOK, selected # NoBlog
  PROVE  /\ Opened \in Object /\ selected.card \in Nat
         /\ selected.card # 0 => selected.card \in DOMAIN cards /\ Opened = cards[selected.card]
         /\ selected.card = 0 => selected.own \in Object /\ Opened = selected.own
<1>1. /\ selected.card \in Nat /\ selected.own \in Object \union {None}
      /\ selected = [card |-> selected.card, own |-> selected.own]
      /\ selected.card <= Len(cards) /\ Len(cards) \in Nat /\ cards \in Seq(Object)
  BY DEF TypeOK, Selection
<1>2. CASE selected.card = 0
  <2>1. selected.own # None
    BY <1>1, <1>2 DEF NoBlog
  <2> QED  BY <1>1, <1>2, <2>1 DEF Opened
<1>3. CASE selected.card # 0
  <2>1. selected.card \in 1..Len(cards)
    BY <1>1, <1>3
  <2> QED  BY <1>1, <1>3, <2>1 DEF Opened
<1> QED  BY <1>2, <1>3

\* The same cards with other likes or comments, and the same blog open.
Relabelled ==
  /\ cards' \in Seq(Object) /\ Len(cards') = Len(cards)
  /\ \A i \in DOMAIN cards : cards'[i].id = cards[i].id
  /\ selected' \in Selection /\ selected'.card = selected.card
  /\ selected' # NoBlog /\ Opened'.id = Opened.id

LEMMA UpdateRelabels ==
  ASSUME TypeOK, selected # NoBlog, NEW o \in Object, o.id = Opened.id, Update(o)
  PROVE  /\ Relabelled
         /\ \A i \in DOMAIN cards : cards'[i] \in {cards[i], o}
         /\ selected.card = 0 => selected'.own = o
<1>1. /\ selected.card \in Nat /\ Len(cards) \in Nat /\ cards \in Seq(Object)
      /\ DOMAIN cards = 1..Len(cards)
      /\ selected \in Selection /\ selected = [card |-> selected.card, own |-> selected.own]
  BY DEF TypeOK, Selection
<1>2. CASE selected.card = 0
  <2>1. cards' = cards /\ selected' = [selected EXCEPT !.own = o]
    BY <1>2 DEF Update
  <2>2. selected' = [card |-> 0, own |-> o]
    BY <1>1, <1>2, <2>1
  <2>3. o # None
    BY ObjectAssumption
  <2>4. selected' # NoBlog /\ selected' \in Selection /\ selected'.card = 0 /\ Opened' = o
    BY <2>2, <2>3 DEF NoBlog, Selection, Opened
  <2> QED  BY <1>1, <1>2, <2>1, <2>2, <2>4 DEF Relabelled
<1>3. CASE selected.card # 0
  <2>1. cards' = [cards EXCEPT ![selected.card] = o] /\ selected' = selected
    BY <1>3 DEF Update
  <2>2. selected.card \in DOMAIN cards
    BY <1>3, OpenedIs
  <2>3. cards' \in Seq(Object) /\ Len(cards') = Len(cards) /\ cards'[selected.card] = o
        /\ \A i \in DOMAIN cards : cards'[i] = IF i = selected.card THEN o ELSE cards[i]
    BY <1>1, <2>1, <2>2
  <2> QED  BY <1>1, <1>3, <2>1, <2>2, <2>3, OpenedIs DEF Relabelled, Opened
<1> QED  BY <1>2, <1>3

LEMMA LikedRelabels ==
  ASSUME TypeOK, selected # NoBlog, NEW b \in BlogId, Liked(b)
  PROVE  /\ Relabelled
         /\ \A i \in DOMAIN cards :
              cards'[i] = IF i \in {selected.card, CardOf(Opened.id)} THEN [cards[i] EXCEPT !.likes = b]
                          ELSE cards[i]
         /\ selected.card = 0 => selected'.own = [selected.own EXCEPT !.likes = b]
<1>1. /\ selected.card \in Nat /\ Len(cards) \in Nat /\ cards \in Seq(Object)
      /\ DOMAIN cards = 1..Len(cards)
      /\ selected \in Selection /\ selected = [card |-> selected.card, own |-> selected.own]
  BY DEF TypeOK, Selection
<1>2. \A o \in Object : [o EXCEPT !.likes = b] \in Object /\ [o EXCEPT !.likes = b].id = o.id
  BY DEF Object
<1> DEFINE K == {selected.card, CardOf(Opened.id)}
<1>3. cards' = [i \in 1..Len(cards) |-> IF i \in K THEN [cards[i] EXCEPT !.likes = b] ELSE cards[i]]
  BY <1>1 DEF Liked
<1> HIDE DEF K
<1>4. \A i \in 1..Len(cards) : cards[i] \in Object
  BY <1>1
<1>5. cards' \in Seq(Object) /\ Len(cards') = Len(cards)
      /\ \A i \in DOMAIN cards : cards'[i] = IF i \in K THEN [cards[i] EXCEPT !.likes = b] ELSE cards[i]
  BY <1>1, <1>2, <1>3, <1>4
<1>6. \A i \in DOMAIN cards : cards'[i].id = cards[i].id
  BY <1>1, <1>2, <1>4, <1>5
<1>7. CASE selected.card = 0
  <2>1. selected' = [selected EXCEPT !.own.likes = b] /\ selected.own \in Object
    BY <1>7, OpenedIs DEF Liked
  <2>2. selected' = [card |-> 0, own |-> [selected.own EXCEPT !.likes = b]]
    BY <1>1, <1>7, <2>1
  <2>3. selected'.own \in Object /\ selected'.own.id = selected.own.id
    BY <1>2, <2>1, <2>2
  <2> DEFINE o == [selected.own EXCEPT !.likes = b]
  <2>4. selected' = [card |-> 0, own |-> o] /\ o \in Object /\ o.id = selected.own.id
    BY <2>2, <2>3
  <2> HIDE DEF o
  <2>5. selected' # NoBlog /\ selected' \in Selection /\ selected'.card = 0 /\ Opened' = o
    BY <2>4, ObjectAssumption DEF NoBlog, Selection, Opened
  <2>6. Opened = selected.own
    BY <1>7, OpenedIs
  <2>7. Relabelled
    BY <1>5, <1>6, <1>7, <2>4, <2>5, <2>6 DEF Relabelled
  <2> QED  BY <1>5, <2>2, <2>7 DEF K
<1>8. CASE selected.card # 0
  <2>1. selected' = selected /\ selected.card \in DOMAIN cards
    BY <1>8, OpenedIs DEF Liked
  <2> QED  BY <1>1, <1>5, <1>6, <1>8, <2>1, OpenedIs DEF K, Relabelled, Opened
<1> QED  BY <1>7, <1>8
LEMMA SoundKept ==
  ASSUME NEW m, Sound(m), stored \subseteq stored', own \subseteq own',
         m.kind = "get" => DOMAIN cards \subseteq DOMAIN cards'
  PROVE  Sound(m)'
BY DEF Sound

LEMMA SendKeepsStored ==
  ASSUME StoredInv, Booleans', UNCHANGED <<dbVars, cards, selected>>,
         NEW m \in Message, Sent(m), Sound(m)
  PROVE  StoredInv'
<1>1. net' = net \union {m} /\ UNCHANGED <<stored, own, cards, selected>>
  BY DEF Sent, dbVars
<1>2. IsFiniteSet(net')
  BY <1>1, FS_AddElement DEF StoredInv
<1>3. \A n \in net' : Sound(n)'
  BY <1>1, SoundKept DEF StoredInv
<1>4. TypeOK'
  BY <1>1 DEF StoredInv, TypeOK, Booleans
<1> QED  BY <1>1, <1>2, <1>3, <1>4 DEF StoredInv, CardIds

LEMMA TakeKeepsStored ==
  ASSUME StoredInv, Booleans', UNCHANGED dbVars, NEW m \in net, net' = net \ {m},
         cards' \in Seq(Object), selected' \in Selection, selected'.card <= Len(cards'),
         CardIds' \subseteq stored,
         DOMAIN cards \subseteq DOMAIN cards' \/ Flight({"list", "get"})' = {}
  PROVE  StoredInv'
<1>1. UNCHANGED <<stored, own>>
  BY DEF dbVars
<1>2. IsFiniteSet(net')
  BY FS_RemoveElement DEF StoredInv
<1>3. ASSUME NEW n \in net'
      PROVE  Sound(n)'
  <2>1. n.kind = "get" => n \in Flight({"list", "get"})'
    BY DEF Flight
  <2> QED  BY <1>1, <2>1, SoundKept DEF StoredInv
<1>4. TypeOK'
  BY <1>1 DEF StoredInv, TypeOK, Booleans
<1> QED  BY <1>1, <1>2, <1>3, <1>4 DEF StoredInv

LEMMA AnswersAre ==
  ASSUME NEW m \in Message, NEW at \in {"ok", "error"}
  PROVE  /\ \A l \in SUBSET BlogId :
              /\ [m EXCEPT !.at = at, !.list = l] \in Message
              /\ [m EXCEPT !.at = at, !.list = l].kind = m.kind
              /\ [m EXCEPT !.at = at, !.list = l].list = l
         /\ \A b \in BlogId :
              /\ [m EXCEPT !.at = at, !.blog = b] \in Message
              /\ [m EXCEPT !.at = at, !.blog = b].kind = m.kind
              /\ [m EXCEPT !.at = at, !.blog = b].blog = b
BY DEF Message

LEMMA ServiceKeepsStored ==
  ASSUME StoredInv, Booleans', Service
  PROVE  StoredInv'
<1>0. /\ UNCHANGED <<cards, selected>> /\ stored \subseteq BlogId /\ own \subseteq stored
      /\ net \subseteq Message /\ IsFiniteSet(stored) /\ IsFiniteSet(net)
  BY ServiceAnswers DEF StoredInv, TypeOK
<1>1. ASSUME IsFiniteSet(stored'), stored \subseteq stored', stored' \subseteq BlogId,
             own \subseteq own', own' \subseteq stored',
             net' \subseteq Message, IsFiniteSet(net'), \A n \in net' \ net : Sound(n)'
      PROVE  StoredInv'
  <2>1. TypeOK'
    BY <1>0, <1>1 DEF StoredInv, TypeOK, Booleans
  <2>2. \A n \in net' : Sound(n)'
    BY <1>0, <1>1, SoundKept DEF StoredInv
  <2> QED  BY <1>0, <1>1, <2>1, <2>2 DEF StoredInv, CardIds
<1>2. CASE WrittenElsewhere
  <2>1. PICK b \in BlogId \ stored : stored' = stored \union {b}
    BY <1>2 DEF WrittenElsewhere
  <2>2. IsFiniteSet(stored')
    BY <1>0, <2>1, FS_AddElement
  <2> QED  BY <1>0, <1>1, <1>2, <2>1, <2>2 DEF WrittenElsewhere
<1>3. ASSUME NEW m \in net, NEW n \in Message, Answer(m, n),
             IsFiniteSet(stored'), stored \subseteq stored', stored' \subseteq BlogId,
             own \subseteq own', own' \subseteq stored', Sound(n)'
      PROVE  StoredInv'
  <2>1. net' = (net \ {m}) \union {n}
    BY <1>3 DEF Answer
  <2>2. IsFiniteSet(net')
    BY <1>0, <2>1, FS_AddElement, FS_RemoveElement
  <2> QED  BY <1>0, <1>1, <1>3, <2>1, <2>2
<1>4. ASSUME NEW m \in net
      PROVE  /\ m \in Message /\ Sound(m)
  BY <1>0 DEF StoredInv
<1>5. ASSUME NEW m \in net, ServeList(m)
      PROVE  StoredInv'
  <2>1. PICK l : /\ \E S \in SUBSET (stored \ own) : l = own \union S
                 /\ Answer(m, [m EXCEPT !.at = "ok", !.list = l])
    BY <1>5 DEF ServeList
  <2>2. l \subseteq stored /\ l \in SUBSET BlogId /\ IsFiniteSet(l)
    BY <1>0, <2>1, FS_Subset
  <2> DEFINE n == [m EXCEPT !.at = "ok", !.list = l]
  <2>3. n \in Message /\ n.kind = "list" /\ n.list = l
    BY <1>4, <1>5, <2>2, AnswersAre DEF ServeList
  <2>4. UNCHANGED <<stored, own>>
    BY <1>5 DEF ServeList, dbVars
  <2>5. Answer(m, n)
    BY <2>1
  <2> HIDE DEF n
  <2>6. Sound(n)'
    BY <2>2, <2>3, <2>4 DEF Sound
  <2> QED  BY <1>0, <1>3, <2>3, <2>4, <2>5, <2>6
<1>6. ASSUME NEW m \in net, NEW at \in {"ok", "error"}, Answer(m, [m EXCEPT !.at = at]),
             at = "ok" => m.kind # "create", UNCHANGED dbVars
      PROVE  StoredInv'
  <2> DEFINE n == [m EXCEPT !.at = at]
  <2>2. /\ n \in Message /\ n.kind = m.kind /\ n.blog = m.blog /\ n.card = m.card
        /\ n.list = m.list /\ n.at = at
    <3>1. m \in Message
      BY <1>4
    <3> QED  BY <1>6, <3>1 DEF Message
  <2>3. UNCHANGED <<stored, own, cards>>
    BY <1>0, <1>6 DEF dbVars
  <2>4. Answer(m, n)
    BY <1>6
  <2> HIDE DEF n
  <2>5. Sound(n)'
    BY <1>4, <1>6, <2>2, <2>3 DEF Sound
  <2> QED  BY <1>0, <1>3, <2>2, <2>3, <2>4, <2>5
<1>7. ASSUME NEW m \in net, ServeCreate(m)
      PROVE  StoredInv'
  <2>1. PICK b \in BlogId \ stored, at \in {"ok", "error"} :
          /\ stored' = stored \union {b} /\ own' = own \union {b}
          /\ Answer(m, [m EXCEPT !.at = at, !.blog = b])
    BY <1>7 DEF ServeCreate
  <2> DEFINE n == [m EXCEPT !.at = at, !.blog = b]
  <2>2. n \in Message /\ n.kind = "create" /\ n.blog = b
    <3>1. m \in Message /\ m.kind = "create" /\ b \in BlogId
      BY <1>4, <1>7 DEF ServeCreate
    <3>2. \A c \in BlogId : /\ [m EXCEPT !.at = at, !.blog = c] \in Message
                            /\ [m EXCEPT !.at = at, !.blog = c].kind = m.kind
                            /\ [m EXCEPT !.at = at, !.blog = c].blog = c
      BY <3>1, AnswersAre
    <3> QED  BY <3>1, <3>2
  <2>3. Answer(m, n)
    BY <2>1
  <2> HIDE DEF n
  <2>4. IsFiniteSet(stored')
    BY <1>0, <2>1, FS_AddElement
  <2>5. Sound(n)'
    BY <2>1, <2>2 DEF Sound
  <2> QED  BY <1>0, <1>3, <2>1, <2>2, <2>3, <2>4, <2>5
<1>8. ASSUME NEW m \in net, ServeOne(m) \/ ServeNot(m)
      PROVE  StoredInv'
  <2>1. CASE ServeOne(m)
    BY <1>6, <2>1 DEF ServeOne
  <2>2. CASE ServeNot(m)
    BY <1>6, <2>2 DEF ServeNot
  <2> QED  BY <1>8, <2>1, <2>2
<1> QED  BY <1>2, <1>5, <1>7, <1>8 DEF Service
\* A list or a blog is awaited alone, and with no blog open.
LEMMA Awaited ==
  ASSUME TypeOK, FlagsInv, LoadingInv, NEW m \in Flight({"list", "get"})
  PROVE  isLoading /\ Flight({"list", "get"}) = {m} /\ selected = NoBlog
BY DEF FlagsInv, One, LoadingInv, TypeOK

LEMMA ListTaken ==
  ASSUME StoredInv, NEW m \in net, m.kind = "list", NEW s \in Orders(m.list), Listed(s)
  PROVE  /\ Cardinality(m.list) \in Nat
         /\ s \in [1..Cardinality(m.list) -> m.list] /\ \A b \in m.list : \E i \in DOMAIN s : s[i] = b
         /\ cards' \in Seq(Object) /\ Len(cards') = Cardinality(m.list)
         /\ \A i \in DOMAIN cards' : cards'[i] = [id |-> s[i], likes |-> s[i], comments |-> None]
         /\ CardIds' = m.list
<1>1. IsFiniteSet(m.list) /\ m.list \subseteq stored /\ stored \subseteq BlogId
  BY DEF StoredInv, Sound, TypeOK
<1>2. PICK k \in Nat : k = Cardinality(m.list)
  BY <1>1, FS_CardinalityType
<1>3. s \in [1..k -> m.list] /\ \A b \in m.list : \E i \in 1..k : s[i] = b
  BY <1>2 DEF Orders
<1>4. \A b \in BlogId : [id |-> b, likes |-> b, comments |-> None] \in Object
  BY DEF Object
<1>5. cards' = [i \in 1..k |-> [id |-> s[i], likes |-> s[i], comments |-> None]]
  BY <1>3 DEF Listed
<1>6. \A i \in 1..k : s[i] \in BlogId
  BY <1>1, <1>3
<1>7. cards' \in Seq(Object) /\ Len(cards') = k /\ DOMAIN cards' = 1..k
  <2>1. cards' \in [1..k -> Object]
    BY <1>4, <1>5, <1>6
  <2> QED  BY <1>2, <2>1
<1>8. CardIds' = m.list
  <2>1. CardIds' = {cards'[i].id : i \in 1..k}
    BY <1>7 DEF CardIds
  <2>2. \A i \in 1..k : cards'[i].id = s[i]
    BY <1>5
  <2>3. {s[i] : i \in 1..k} = m.list
    BY <1>3
  <2> HIDE DEF CardIds
  <2> QED  BY <2>1, <2>2, <2>3
<1>9. \A i \in DOMAIN cards' : cards'[i] = [id |-> s[i], likes |-> s[i], comments |-> None]
  BY <1>5, <1>7
<1>10. \A b \in m.list : \E i \in DOMAIN s : s[i] = b
  BY <1>3
<1> HIDE DEF CardIds
<1> QED  BY <1>2, <1>3, <1>7, <1>8, <1>9, <1>10

LEMMA StoredKept ==
  ASSUME FlagsInv, StoredInv, LoadingInv, [Next]_vars
  PROVE  StoredInv'
<1>0. /\ TypeOK /\ Booleans' /\ None \in BlogId \union {None} /\ 0 \in Nat
      /\ cards \in Seq(Object) /\ selected \in Selection /\ selected.card <= Len(cards)
      /\ NoBlog \in Selection /\ NoBlog.card = 0 /\ Len(cards) \in Nat
      /\ own \subseteq stored /\ stored \subseteq BlogId
      /\ \A i \in DOMAIN cards : cards[i] \in Object
  BY BooleansKept DEF StoredInv, TypeOK, NoBlog, Selection
<1>o. \A o \in Object : o.id \in BlogId
  BY DEF Object
<1>1. CASE UNCHANGED vars
  BY <1>1 DEF StoredInv, TypeOK, CardIds, Sound, vars, flags, dbVars
<1>s. ASSUME NEW k \in Kind, NEW b \in BlogId \union {None}, NEW i \in Nat, Send(k, b, i),
             UNCHANGED <<dbVars, cards, selected>>,
             k \in {"get", "like", "comment", "edit"} => b \in BlogId,
             k = "get" => i \in DOMAIN cards
      PROVE  StoredInv'
  <2>1. PICK m : /\ Sent(m) /\ m \in Message
                 /\ m.kind = k /\ m.blog = b /\ m.card = i /\ m.at = "sent" /\ m.list = {}
    BY <1>s, SendIs, Requested
  <2>2. Sound(m)
    BY <1>s, <2>1, FS_EmptySet DEF Sound
  <2> QED  BY <1>0, <1>s, <2>1, <2>2, SendKeepsStored
<1>2. CASE Retry \/ CreateBlog
  BY <1>0, <1>2, <1>s DEF Retry, CreateBlog, Kind
<1>3. CASE OpenBlog
  <2>1. PICK i \in DOMAIN cards : Send("get", cards[i].id, i)
    BY <1>3 DEF OpenBlog
  <2>2. cards[i].id \in BlogId /\ i \in Nat
    BY <1>0, <1>o, <2>1
  <2> QED  BY <1>3, <1>s, <2>1, <2>2 DEF OpenBlog, Kind
<1>4. CASE ToggleLike \/ SubmitComment \/ SaveEdit
  <2>1. selected # NoBlog
    BY <1>4 DEF ToggleLike, SubmitComment, SaveEdit, FormShown, DetailShown
  <2>2. Opened.id \in BlogId
    BY <1>0, <1>o, <2>1, OpenedIs
  <2> QED  BY <1>0, <1>4, <1>s, <2>2 DEF ToggleLike, SubmitComment, SaveEdit, Kind
<1>5. CASE CloseBlog
  <2>1. UNCHANGED <<stored, own, net, cards>> /\ selected' = NoBlog
    BY <1>5 DEF CloseBlog, dbVars
  <2>2. TypeOK'
    BY <1>0, <2>1 DEF TypeOK, Booleans
  <2>3. \A m \in net' : Sound(m)'
    BY <2>1 DEF StoredInv, Sound
  <2> QED  BY <2>1, <2>2, <2>3 DEF StoredInv, CardIds
<1>6. CASE Leave
  <2> DEFINE m == Request("list", None, 0, 1)
  <2>1. UNCHANGED <<stored, own>> /\ selected' = NoBlog /\ cards' = <<>> /\ net' = {m}
    BY <1>6 DEF Leave, dbVars
  <2>2. m \in Message /\ m.kind = "list" /\ m.list = {}
    <3>1. "list" \in Kind /\ None \in BlogId \union {None} /\ 0 \in Nat /\ 1 \in Nat
      BY DEF Kind
    <3> QED  BY <3>1, Requested
  <2> HIDE DEF m
  <2>3. TypeOK' /\ CardIds' = {}
    BY <1>0, <2>1, <2>2 DEF TypeOK, Booleans, CardIds
  <2>4. IsFiniteSet(net') /\ IsFiniteSet({})
    BY <2>1, FS_Singleton, FS_EmptySet
  <2>5. Sound(m)'
    BY <2>2, <2>4 DEF Sound
  <2> QED  BY <2>1, <2>3, <2>4, <2>5 DEF StoredInv
<1>7. CASE Service
  BY <1>0, <1>7, ServiceKeepsStored
<1>t. ASSUME NEW m \in net, net' = net \ {m}, UNCHANGED <<dbVars, cards>>,
             selected' \in Selection, selected'.card <= Len(cards)
      PROVE  StoredInv'
  BY <1>0, <1>t, TakeKeepsStored DEF StoredInv, CardIds
<1>8. ASSUME NEW m \in net, TakeList(m)
      PROVE  StoredInv'
  <2>1. m \in Flight({"list", "get"}) /\ m.kind = "list" /\ net' = net \ {m} /\ UNCHANGED <<dbVars, selected>>
    BY <1>8 DEF TakeList, Take, Flight
  <2>2. Flight({"list", "get"})' = {} /\ selected = NoBlog
    BY <1>0, <2>1, Awaited, FlightTake
  <2>3. CASE UNCHANGED cards
    BY <1>0, <1>t, <2>1, <2>3
  <2>4. ASSUME NEW s \in Orders(m.list), Listed(s)
        PROVE  StoredInv'
    <3>1. m.list \subseteq stored
      BY <2>1 DEF StoredInv, Sound
    <3>2. cards' \in Seq(Object) /\ Len(cards') \in Nat /\ CardIds' = m.list
      BY <2>1, <2>4, ListTaken
    <3> QED  BY <1>0, <2>1, <2>2, <3>1, <3>2, TakeKeepsStored
  <2> QED  BY <1>8, <2>3, <2>4 DEF TakeList
<1>9. ASSUME NEW m \in net, TakeGet(m)
      PROVE  StoredInv'
  <2>1. m.kind = "get" /\ net' = net \ {m} /\ UNCHANGED <<dbVars, cards>>
    BY <1>9 DEF TakeGet, Take
  <2>2. m.blog \in BlogId /\ m.card \in DOMAIN cards
    BY <2>1 DEF StoredInv, Sound
  <2>3. [id |-> m.blog, likes |-> m.blog, comments |-> None] \in Object
    BY <2>2 DEF Object
  <2>4. selected' \in Selection /\ selected'.card <= Len(cards)
    BY <1>0, <1>9, <2>2, <2>3 DEF TakeGet, Selection
  <2> QED  BY <1>t, <2>1, <2>4
<1>r. ASSUME NEW m \in net, net' = net \ {m}, UNCHANGED dbVars, Relabelled
      PROVE  StoredInv'
  <2>1. CardIds' = CardIds
    BY <1>0, <1>r DEF Relabelled, CardIds
  <2>2. /\ cards' \in Seq(Object) /\ selected' \in Selection /\ selected'.card <= Len(cards')
        /\ DOMAIN cards' = DOMAIN cards
    BY <1>0, <1>r DEF Relabelled
  <2> QED  BY <1>0, <1>r, <2>1, <2>2, TakeKeepsStored DEF StoredInv
<1>10. ASSUME NEW m \in net, TakeLike(m)
       PROVE  StoredInv'
  <2>1. m.kind = "like" /\ net' = net \ {m} /\ UNCHANGED dbVars
    BY <1>10 DEF TakeLike, Take
  <2>2. m.blog \in BlogId
    BY <2>1 DEF StoredInv, Sound
  <2>3. CASE UNCHANGED <<cards, selected>>
    BY <1>0, <1>t, <2>1, <2>3
  <2>4. CASE selected # NoBlog /\ Liked(m.blog)
    BY <1>0, <1>r, <2>1, <2>2, <2>4, LikedRelabels
  <2> QED  BY <1>10, <2>3, <2>4 DEF TakeLike
<1>11. ASSUME NEW m \in net, TakeComment(m) \/ TakeEdit(m)
       PROVE  StoredInv'
  <2>1. m.kind \in {"comment", "edit"} /\ net' = net \ {m} /\ UNCHANGED dbVars
    BY <1>11 DEF TakeComment, TakeEdit, Take
  <2>2. m.blog \in BlogId
    BY <2>1 DEF StoredInv, Sound
  <2>3. CASE UNCHANGED <<cards, selected>>
    BY <1>0, <1>t, <2>1, <2>3
  <2>4. CASE selected # NoBlog /\ Update([Opened EXCEPT !.comments = m.blog])
    <3>1. [Opened EXCEPT !.comments = m.blog] \in Object
          /\ [Opened EXCEPT !.comments = m.blog].id = Opened.id
      BY <1>0, <2>2, <2>4, OpenedIs DEF Object
    <3> QED  BY <1>0, <1>r, <2>1, <2>4, <3>1, UpdateRelabels
  <2> QED  BY <1>11, <2>3, <2>4 DEF TakeComment, TakeEdit
<1>12. ASSUME NEW m \in net, TakeCreate(m)
       PROVE  StoredInv'
  <2>1. m.kind = "create" /\ net' = net \ {m} /\ UNCHANGED <<dbVars, selected>>
    BY <1>12 DEF TakeCreate, Take
  <2>2. CASE UNCHANGED cards
    BY <1>0, <1>t, <2>1, <2>2
  <2> DEFINE o == [id |-> m.blog, likes |-> m.blog, comments |-> "empty"]
  <2>3. CASE m.at = "ok" /\ cards' = Append(cards, o)
    <3>1. m.blog \in own
      BY <2>1, <2>3 DEF StoredInv, Sound
    <3>2. o \in Object /\ o.id \in stored
      BY <1>0, <3>1 DEF Object
    <3>3. /\ cards' \in Seq(Object) /\ Len(cards') = Len(cards) + 1
          /\ \A i \in DOMAIN cards' : cards'[i] = o \/ (i \in DOMAIN cards /\ cards'[i] = cards[i])
      <4> HIDE DEF o
      <4> QED  BY <1>0, <2>3, <3>2
    <3>4. CardIds' \subseteq stored
      BY <3>2, <3>3 DEF StoredInv, CardIds
    <3>5. DOMAIN cards \subseteq DOMAIN cards' /\ selected'.card <= Len(cards') /\ selected' \in Selection
      BY <1>0, <2>1, <3>3 DEF Selection
    <3> QED  BY <2>1, <3>3, <3>4, <3>5, <1>0, TakeKeepsStored
  <2> QED  BY <1>12, <2>2, <2>3 DEF TakeCreate, Take
<1> QED
  BY <1>1, <1>2, <1>3, <1>4, <1>5, <1>6, <1>7, <1>8, <1>9, <1>10, <1>11, <1>12
  DEF Next, User, Page
\* A finite set of numbers has a largest one.
LEMMA Largest ==
  ASSUME NEW T, T \subseteq Nat, IsFiniteSet(T), T # {}
  PROVE  \E i \in T : \A j \in T : j <= i
<1> DEFINE Above(i) == {j \in T : j > i}
           All == {Above(i) : i \in T}
<1>1. All \subseteq FiniteSubsetsOf(T) /\ All # {}
  <2>1. \A i \in T : Above(i) \in SUBSET T
    OBVIOUS
  <2> HIDE DEF Above
  <2>2. \A i \in T : IsFiniteSet(Above(i))
    BY <2>1, FS_Subset
  <2> QED  BY <2>1, <2>2 DEF FiniteSubsetsOf
<1>2. \E U \in All : \A V \in All : ~ (<<V, U>> \in StrictSubsetOrdering(T))
  <2> HIDE DEF All
  <2> QED  BY <1>1, FS_StrictSubsetOrderingWellFounded, WFMin
<1>3. PICK i \in T : \A k \in T : ~ (<<Above(k), Above(i)>> \in StrictSubsetOrdering(T))
  <2> HIDE DEF Above
  <2> QED BY <1>2
<1>4. ASSUME NEW j \in T, j > i
      PROVE  FALSE
  <2>1. Above(j) \subseteq Above(i)
    <3>1. \A k \in T : k > j => k > i
      BY <1>4
    <3> QED BY <3>1
  <2>3. j \in Above(i) /\ j \notin Above(j)
    BY <1>4
  <2>2. Above(j) \in SUBSET T /\ Above(i) \in SUBSET T
    OBVIOUS
  <2>4. <<Above(j), Above(i)>> \in StrictSubsetOrdering(T)
    <3> HIDE DEF Above
    <3> QED  BY <2>1, <2>2, <2>3 DEF StrictSubsetOrdering
  <2> QED  BY <1>3, <2>4
<1> QED  BY <1>4

LEMMA CardOfIs ==
  ASSUME TypeOK, NEW b
  PROVE  /\ CardOf(b) # 0 => CardOf(b) \in DOMAIN cards /\ cards[CardOf(b)].id = b
         /\ b \in CardIds => CardOf(b) # 0
<1> DEFINE of == {i \in DOMAIN cards : cards[i].id = b}
<1>1. cards \in Seq(Object) /\ Len(cards) \in Nat /\ DOMAIN cards = 1..Len(cards)
  BY DEF TypeOK
<1>2. IsFiniteSet(of) /\ of \subseteq Nat
  <2>1. IsFiniteSet(1..Len(cards)) /\ of \subseteq 1..Len(cards)
    BY <1>1, FS_Interval
  <2>2. \A i \in 1..Len(cards) : i \in Nat
    BY <1>1
  <2> HIDE DEF of
  <2> QED  BY <2>1, <2>2, FS_Subset
<1>3. CASE of # {}
  <2>1. \E i \in of : \A j \in of : j <= i
    <3> HIDE DEF of
    <3> QED  BY <1>2, <1>3, Largest
  <2>2. CardOf(b) \in of
    BY <1>3, <2>1 DEF CardOf
  <2> QED  BY <1>1, <2>2
<1>4. CASE of = {}
  BY <1>4 DEF CardOf, CardIds
<1> QED  BY <1>3, <1>4

-------------------------------------------------------------------------------
(* Lists and blogs are loaded with no blog open.                             *)

LEMMA LoadingKept ==
  ASSUME FlagsInv, StoredInv, LoadingInv, [Next]_vars
  PROVE  LoadingInv'
<1> DEFINE kinds == {"get"}
<1>k. /\ \A k, b, i, n : Request(k, b, i, n).kind = k
      /\ \A k : k \in kinds <=> k = "get"
  BY DEF Request
<1> HIDE DEF kinds
<1>0. TypeOK /\ Booleans /\ Booleans'
  BY BooleansKept DEF StoredInv, TypeOK, Booleans
<1>l. LoadingInv <=> ((isLoading \/ error => selected = NoBlog) /\ (error => Flight(kinds) = {}))
  BY DEF LoadingInv, kinds
<1>m. LoadingInv' <=> ((isLoading' \/ error' => selected' = NoBlog) /\ (error' => Flight(kinds)' = {}))
  BY DEF LoadingInv, kinds
<1>1. CASE UNCHANGED vars
  BY <1>1 DEF LoadingInv, Flight, vars, flags
<1>2. CASE Retry
  BY <1>2, <1>l, <1>m DEF Retry
<1>3. CASE OpenBlog
  BY <1>3, <1>m DEF OpenBlog, GridShown
<1>4. CASE CloseBlog
  BY <1>4, <1>l DEF CloseBlog, LoadingInv, Flight
<1>5. CASE Leave
  BY <1>5, <1>m DEF Leave
<1>6. CASE ToggleLike \/ SubmitComment \/ SaveEdit
  <2>1. UNCHANGED <<selected, error, isLoading>> /\ selected # NoBlog
    BY <1>6 DEF ToggleLike, SubmitComment, SaveEdit, FormShown, DetailShown, flags
  <2> QED  BY <1>l, <1>m, <2>1
<1>7. CASE CreateBlog
  <2>1. PICK m : Sent(m) /\ m.kind = "create"
    BY <1>k, <1>7, SendIs DEF CreateBlog
  <2>2. Flight(kinds)' = Flight(kinds)
    BY <1>k, <2>1, FlightSend
  <2> QED  BY <1>7, <1>l, <1>m, <2>2 DEF CreateBlog
<1>8. CASE Service
  <2>1. UNCHANGED <<selected, error, isLoading>>
    BY <1>0, <1>8, ServiceAnswers DEF flags
  <2>2. Flight(kinds) = {} => Flight(kinds)' = {}
    <3>1. CASE WrittenElsewhere
      BY <3>1 DEF WrittenElsewhere, Flight
    <3>2. ASSUME NEW m, NEW n, Served(m, n), Flight(kinds) = {}
          PROVE  Flight(kinds)' = {}
      <4>1. m.kind \notin kinds
        BY <3>2 DEF Served, Flight
      <4> QED  BY <3>2, <4>1, FlightAnswer DEF Served
    <3> QED  BY <1>0, <1>8, <3>1, <3>2, ServiceAnswers
  <2> QED  BY <1>l, <1>m, <2>1, <2>2
<1>t. ASSUME NEW m \in net, net' = net \ {m}, Flight(kinds) = {}
      PROVE  Flight(kinds)' = {}
  BY <1>t, FlightTake
<1>9. ASSUME NEW m \in net, TakeList(m)
      PROVE  LoadingInv'
  <2>1. m \in Flight({"list", "get"}) /\ net' = net \ {m} /\ selected' = selected
    BY <1>9 DEF TakeList, Take, Flight
  <2>2. Flight({"list", "get"})' = {} /\ selected = NoBlog
    <3>1. Flight({"list", "get"}) = {m} /\ selected = NoBlog /\ m.kind \in {"list", "get"}
      BY <1>0, <2>1, Awaited DEF Flight
    <3>2. Flight({"list", "get"})' = Flight({"list", "get"}) \ {m}
      BY <2>1, <3>1, FlightTake
    <3> QED  BY <3>1, <3>2
  <2>3. Flight(kinds)' = {}
    BY <2>2 DEF Flight, kinds
  <2> QED  BY <1>m, <2>1, <2>2, <2>3
<1>10. ASSUME NEW m \in net, TakeGet(m)
       PROVE  LoadingInv'
  <2>1. m \in Flight(kinds) /\ UNCHANGED error /\ isLoading' = FALSE
    BY <1>k, <1>10 DEF TakeGet, Take, Flight
  <2> QED  BY <1>l, <1>m, <2>1
<1>11. ASSUME NEW m \in net, TakeLike(m) \/ TakeComment(m) \/ TakeEdit(m) \/ TakeCreate(m)
       PROVE  LoadingInv'
  <2>1. /\ net' = net \ {m} /\ UNCHANGED <<error, isLoading>>
        /\ selected = NoBlog => selected' = NoBlog
    BY <1>11 DEF TakeLike, TakeComment, TakeEdit, TakeCreate, Take
  <2> QED  BY <1>l, <1>m, <1>t, <2>1
<1> QED
  BY <1>1, <1>2, <1>3, <1>4, <1>5, <1>6, <1>7, <1>8, <1>9, <1>10, <1>11 DEF Next, User, Page
-------------------------------------------------------------------------------
(* What is told of a blog while it is open is told of that blog.             *)

LEMMA AboutKept ==
  ASSUME StoredInv, LoadingInv, FlagsInv, About, Next, ~Leave,
         CloseBlog => Flight({"like", "comment", "edit"}) = {}
  PROVE  About'
<1> DEFINE kinds == {"like", "comment", "edit"}
<1>k. /\ \A k, b, i, n : Request(k, b, i, n).kind = k /\ Request(k, b, i, n).blog = b
      /\ \A k : k \in kinds <=> k \in {"like", "comment", "edit"}
  BY DEF Request
<1>l. \A m \in Flight(kinds) : selected # NoBlog /\ m.blog = Opened.id
  BY DEF About
<1>g. ASSUME selected # NoBlog => selected' # NoBlog /\ Opened'.id = Opened.id,
             \A m \in Flight(kinds)' : m \in Flight(kinds) \/ (selected # NoBlog /\ m.blog = Opened.id)
      PROVE  About'
  BY <1>g, <1>l DEF About, kinds
<1>e. ASSUME Flight(kinds)' = {}
      PROVE  About'
  BY <1>e DEF About, kinds
<1>c. CloseBlog => Flight(kinds) = {}
  OBVIOUS
<1> HIDE DEF kinds
<1>0. TypeOK
  BY DEF StoredInv
<1>u. ASSUME UNCHANGED <<cards, selected>>,
             \A m \in Flight(kinds)' : m \in Flight(kinds) \/ (selected # NoBlog /\ m.blog = Opened.id)
      PROVE  About'
  BY <1>g, <1>u DEF Opened
<1>2. CASE Retry \/ OpenBlog \/ CreateBlog
  <2>1. UNCHANGED <<cards, selected>>
    BY <1>2 DEF Retry, OpenBlog, CreateBlog
  <2>2. PICK m : Sent(m) /\ m.kind \notin kinds
    <3>1. PICK k, b, i : Send(k, b, i) /\ k \in {"list", "get", "create"}
      BY <1>2 DEF Retry, OpenBlog, CreateBlog
    <3>2. k \notin kinds
      BY <1>k, <3>1
    <3> QED  BY <1>k, <3>1, <3>2, SendIs
  <2>3. Flight(kinds)' = Flight(kinds)
    BY <2>2, FlightSend
  <2> QED  BY <1>u, <2>1, <2>3
<1>3. CASE CloseBlog
  <2>1. Flight(kinds)' = Flight(kinds)
    BY <1>3 DEF CloseBlog, Flight
  <2> QED  BY <1>c, <1>e, <1>3, <2>1
<1>4. CASE ToggleLike \/ SubmitComment \/ SaveEdit
  <2>1. UNCHANGED <<cards, selected>> /\ selected # NoBlog
    BY <1>4 DEF ToggleLike, SubmitComment, SaveEdit, FormShown, DetailShown
  <2>2. PICK k : Send(k, Opened.id, 0)
    BY <1>4 DEF ToggleLike, SubmitComment, SaveEdit
  <2>3. PICK m : m.blog = Opened.id /\ Sent(m)
    BY <1>k, <2>2, SendIs
  <2>4. Flight(kinds)' \subseteq Flight(kinds) \union {m}
    BY <2>3, FlightSend
  <2> QED  BY <1>u, <2>1, <2>3, <2>4
<1>5. CASE Service
  <2>1. UNCHANGED <<cards, selected>>
    BY <1>0, <1>5, ServiceAnswers
  <2>2. CASE WrittenElsewhere
    <3>1. Flight(kinds)' = Flight(kinds)
      BY <2>2 DEF WrittenElsewhere, Flight
    <3> QED  BY <1>u, <2>1, <3>1
  <2>s. ASSUME NEW m \in net, NEW n, n.kind = m.kind, m.kind \in kinds => n.blog = m.blog, Answer(m, n)
        PROVE  About'
    <3>1. Flight(kinds)' = IF m.kind \in kinds THEN (Flight(kinds) \ {m}) \union {n}
                           ELSE Flight(kinds)
      BY <2>s, FlightAnswer
    <3>2. m.kind \in kinds => m \in Flight(kinds)
      BY DEF Flight
    <3> QED  BY <1>l, <1>u, <2>1, <2>s, <3>1, <3>2
  <2>m. ASSUME NEW m \in net  PROVE m \in Message
    BY <1>0 DEF TypeOK
  <2>3. ASSUME NEW m \in net, ServeList(m)
        PROVE  About'
    <3>1. PICK S \in SUBSET (stored \ own) : Answer(m, [m EXCEPT !.at = "ok", !.list = own \union S])
      BY <2>3 DEF ServeList
    <3>2. own \union S \in SUBSET BlogId
      BY <1>0 DEF TypeOK
    <3>3. [m EXCEPT !.at = "ok", !.list = own \union S].kind = m.kind
      BY <2>m, <3>2, AnswersAre
    <3>4. m.kind \notin kinds
      BY <1>k, <2>3 DEF ServeList
    <3> QED  BY <2>s, <3>1, <3>3, <3>4
  <2>4. ASSUME NEW m \in net, ServeOne(m) \/ ServeNot(m)
        PROVE  About'
    <3>1. ASSUME NEW at
          PROVE  [m EXCEPT !.at = at].kind = m.kind /\ [m EXCEPT !.at = at].blog = m.blog
      <4>1. m \in Message
        BY <2>m
      <4> QED  BY <4>1 DEF Message
    <3> QED  BY <2>s, <2>4, <3>1 DEF ServeOne, ServeNot
  <2>5. ASSUME NEW m \in net, ServeCreate(m)
        PROVE  About'
    <3>1. PICK b \in BlogId, at \in {"ok", "error"} : Answer(m, [m EXCEPT !.at = at, !.blog = b])
      BY <2>5 DEF ServeCreate
    <3>2. \A c \in BlogId : /\ [m EXCEPT !.at = at, !.blog = c] \in Message
                            /\ [m EXCEPT !.at = at, !.blog = c].kind = m.kind
                            /\ [m EXCEPT !.at = at, !.blog = c].blog = c
      <4>1. m \in Message
        BY <2>m
      <4> QED  BY <4>1, AnswersAre
    <3>3. m.kind \notin kinds
      BY <1>k, <2>5 DEF ServeCreate
    <3> QED  BY <2>s, <3>1, <3>2, <3>3
  <2> QED  BY <1>5, <2>2, <2>3, <2>4, <2>5 DEF Service
<1>t. ASSUME NEW m \in net, net' = net \ {m}
      PROVE  /\ Flight(kinds)' \subseteq Flight(kinds)
             /\ m.kind \in kinds => selected # NoBlog /\ m.blog = Opened.id
  <2>1. m.kind \in kinds => m \in Flight(kinds)
    BY DEF Flight
  <2> QED  BY <1>l, <1>t, <2>1, FlightTake
<1>6. ASSUME NEW m \in net, TakeList(m) \/ TakeGet(m)
      PROVE  About'
  <2>1. m \in Flight({"list", "get"}) /\ net' = net \ {m}
    BY <1>6 DEF TakeList, TakeGet, Take, Flight
  <2>2. selected = NoBlog
    BY <1>0, <2>1, Awaited
  <2>3. Flight(kinds)' = {}
    BY <1>l, <1>t, <2>1, <2>2
  <2> QED  BY <1>e, <2>3
<1>7. ASSUME NEW m \in net, TakeLike(m)
      PROVE  About'
  <2>1. net' = net \ {m}
    BY <1>7 DEF TakeLike, Take
  <2>2. CASE UNCHANGED <<cards, selected>>
    BY <1>t, <1>u, <2>1, <2>2
  <2>3. CASE selected # NoBlog /\ Liked(m.blog) /\ m.kind = "like"
    <3>1. m.blog \in BlogId
      BY <2>3 DEF StoredInv, Sound
    <3>2. Relabelled
      BY <1>0, <2>3, <3>1, LikedRelabels
    <3> QED  BY <1>g, <1>t, <2>1, <3>2 DEF Relabelled
  <2> QED  BY <1>7, <2>2, <2>3 DEF TakeLike, Take
<1>8. ASSUME NEW m \in net, TakeComment(m) \/ TakeEdit(m)
      PROVE  About'
  <2>1. net' = net \ {m} /\ m.kind \in {"comment", "edit"}
    BY <1>8 DEF TakeComment, TakeEdit, Take
  <2>2. CASE UNCHANGED <<cards, selected>>
    BY <1>t, <1>u, <2>1, <2>2
  <2>3. CASE selected # NoBlog /\ Update([Opened EXCEPT !.comments = m.blog])
    <3>1. m.blog \in BlogId
      BY <2>1 DEF StoredInv, Sound
    <3>2. [Opened EXCEPT !.comments = m.blog] \in Object
          /\ [Opened EXCEPT !.comments = m.blog].id = Opened.id
      BY <1>0, <2>3, <3>1, OpenedIs DEF Object
    <3>3. Relabelled
      BY <1>0, <2>3, <3>2, UpdateRelabels
    <3> QED  BY <1>g, <1>t, <2>1, <3>3 DEF Relabelled
  <2> QED  BY <1>8, <2>2, <2>3 DEF TakeComment, TakeEdit
<1>9. ASSUME NEW m \in net, TakeCreate(m)
      PROVE  About'
  <2>1. net' = net \ {m} /\ selected' = selected
    BY <1>9 DEF TakeCreate, Take
  <2>2. selected # NoBlog => Opened' = Opened
    <3>1. cards \in Seq(Object)
      BY <1>0 DEF TypeOK
    <3>2. \A i \in DOMAIN cards : cards'[i] = cards[i]
      BY <1>9, <3>1 DEF TakeCreate
    <3> QED  BY <1>0, <2>1, <3>2, OpenedIs DEF Opened
  <2> QED  BY <1>g, <1>t, <2>1, <2>2
<1> QED
  BY <1>2, <1>3, <1>4, <1>5, <1>6, <1>7, <1>8, <1>9 DEF Next, User, Page

LEMMA LabelsKept ==
  ASSUME StoredInv, LoadingInv, FlagsInv, About, Labels, Next, ~Leave
  PROVE  Labels'
<1>0. TypeOK /\ cards \in Seq(Object) /\ (\A i \in DOMAIN cards : cards[i] \in Object)
  BY DEF StoredInv, TypeOK
<1>u. ASSUME UNCHANGED <<cards, selected>>
      PROVE  Labels'
  BY <1>u DEF Labels
<1>p. ASSUME selected # NoBlog  PROVE Proper(Opened)
  BY <1>0, <1>p, OpenedIs DEF Labels
<1>2. CASE Retry \/ OpenBlog \/ CreateBlog \/ ToggleLike \/ SubmitComment \/ SaveEdit
  BY <1>2, <1>u DEF Retry, OpenBlog, CreateBlog, ToggleLike, SubmitComment, SaveEdit
<1>3. CASE CloseBlog
  BY <1>3 DEF CloseBlog, Labels
<1>4. CASE Service
  BY <1>0, <1>4, <1>u, ServiceAnswers
<1>5. ASSUME NEW m \in net, TakeList(m)
      PROVE  Labels'
  <2>1. selected' = selected /\ m.kind = "list"
    BY <1>5 DEF TakeList, Take
  <2>2. ASSUME NEW s \in Orders(m.list), Listed(s)
        PROVE  Labels'
    <3>1. \A i \in DOMAIN cards' : cards'[i] = [id |-> s[i], likes |-> s[i], comments |-> None]
      BY <2>1, <2>2, ListTaken
    <3> QED  BY <2>1, <3>1 DEF Labels, Proper
  <2> QED  BY <1>5, <1>u, <2>1, <2>2 DEF TakeList
<1>6. ASSUME NEW m \in net, TakeGet(m)
      PROVE  Labels'
  <2>1. cards' = cards /\ m.kind = "get"
    BY <1>6 DEF TakeGet, Take
  <2>2. m.card \in 1..Len(cards)
    BY <1>0, <2>1 DEF StoredInv, Sound
  <2>3. \/ selected'.own = [id |-> m.blog, likes |-> m.blog, comments |-> None]
        \/ selected'.card # 0
    BY <1>6, <2>2 DEF TakeGet
  <2> QED  BY <2>1, <2>3 DEF Labels, Proper
<1>7. ASSUME NEW m \in net, TakeLike(m)
      PROVE  Labels'
  <2>1. CASE selected # NoBlog /\ Liked(m.blog) /\ m.kind = "like"
    <3>1. m.blog \in BlogId /\ m.blog = Opened.id
      BY <2>1 DEF StoredInv, Sound, About, Flight
    <3>2. /\ Relabelled
          /\ \A i \in DOMAIN cards :
               cards'[i] = IF i \in {selected.card, CardOf(Opened.id)} THEN [cards[i] EXCEPT !.likes = m.blog]
                           ELSE cards[i]
          /\ selected.card = 0 => selected'.own = [selected.own EXCEPT !.likes = m.blog]
      BY <1>0, <2>1, <3>1, LikedRelabels
    <3>3. \A o \in Object : Proper(o) => Proper([o EXCEPT !.likes = o.id])
      BY DEF Object, Proper
    <3>4. ASSUME NEW i \in DOMAIN cards
          PROVE  Proper(cards'[i])
      <4>1. Proper(cards[i])
        BY DEF Labels
      <4>2. CASE i \in {selected.card, CardOf(Opened.id)}
        <5>1. i = selected.card => cards[i].id = Opened.id
          BY <1>0, <2>1, OpenedIs
        <5>2. i = CardOf(Opened.id) => cards[i].id = Opened.id
          BY <1>0, CardOfIs
        <5>3. cards'[i] = [cards[i] EXCEPT !.likes = cards[i].id]
          BY <3>1, <3>2, <4>2, <5>1, <5>2
        <5> QED  BY <1>0, <3>3, <4>1, <5>3
      <4> QED  BY <3>2, <4>1, <4>2
    <3>5. DOMAIN cards' = DOMAIN cards
      BY <1>0, <3>2 DEF Relabelled
    <3>6. selected.card = 0 => Proper(selected'.own)
      <4>1. selected.card = 0 => selected.own \in Object /\ Opened = selected.own
        BY <1>0, <2>1, OpenedIs
      <4> QED  BY <1>p, <2>1, <3>1, <3>2, <3>3, <4>1
    <3> QED  BY <3>2, <3>4, <3>5, <3>6 DEF Labels, Relabelled
  <2> QED  BY <1>7, <1>u, <2>1 DEF TakeLike, Take
<1>8. ASSUME NEW m \in net, TakeComment(m) \/ TakeEdit(m)
      PROVE  Labels'
  <2>1. CASE /\ selected # NoBlog /\ Update([Opened EXCEPT !.comments = m.blog])
             /\ m.kind \in {"comment", "edit"}
    <3>1. m.blog \in BlogId /\ m.blog = Opened.id /\ Opened \in Object /\ Proper(Opened)
      BY <1>0, <1>p, <2>1, OpenedIs DEF StoredInv, Sound, About, Flight
    <3> DEFINE o == [Opened EXCEPT !.comments = m.blog]
    <3>2. o \in Object /\ o.id = Opened.id /\ Proper(o) /\ Update(o)
      BY <2>1, <3>1 DEF Object, Proper
    <3> HIDE DEF o
    <3>3. /\ Relabelled /\ \A i \in DOMAIN cards : cards'[i] \in {cards[i], o}
          /\ selected.card = 0 => selected'.own = o
      BY <1>0, <2>1, <3>2, UpdateRelabels
    <3>4. DOMAIN cards' = DOMAIN cards
      BY <1>0, <3>3 DEF Relabelled
    <3>5. selected'.card = selected.card
      BY <3>3 DEF Relabelled
    <3>6. \A i \in DOMAIN cards' : Proper(cards'[i])
      BY <3>2, <3>3, <3>4 DEF Labels
    <3> QED  BY <3>2, <3>3, <3>5, <3>6 DEF Labels
  <2> QED  BY <1>8, <1>u, <2>1 DEF TakeComment, TakeEdit, Take
<1>9. ASSUME NEW m \in net, TakeCreate(m)
      PROVE  Labels'
  <2> DEFINE o == [id |-> m.blog, likes |-> m.blog, comments |-> "empty"]
  <2>1. selected' = selected /\ (cards' = cards \/ cards' = Append(cards, o))
    BY <1>9 DEF TakeCreate
  <2>2. Proper(o)
    BY DEF Proper
  <2> HIDE DEF o
  <2>3. \A i \in DOMAIN cards' : cards'[i] = o \/ (i \in DOMAIN cards /\ cards'[i] = cards[i])
    BY <1>0, <2>1
  <2> QED  BY <2>1, <2>2, <2>3 DEF Labels
<1> QED
  BY <1>2, <1>3, <1>4, <1>5, <1>6, <1>7, <1>8, <1>9 DEF Next, User, Page
-------------------------------------------------------------------------------
(* One card for each blog.                                                   *)

Told == {m \in net \ net' : m.kind = "create" /\ m.at = "ok"}

LEMMA OnceKept ==
  ASSUME StoredInv, LoadingInv, FlagsInv, Once, Next, ~Leave,
         Flight({"list"})' = {} \/ Flight({"create"})' = {},
         created' = created \union {m.blog : m \in Told}
  PROVE  Once'
<1>0. TypeOK /\ cards \in Seq(Object) /\ CardIds \subseteq stored /\ own \subseteq stored
  BY DEF StoredInv, TypeOK
<1>k. \A k, b, i, n : Request(k, b, i, n).at = "sent"
  BY DEF Request
\* Nothing is told, and the cards stay of the blogs they are of.
<1>q. ASSUME own \subseteq own', CardIds' = CardIds, OneCard', Told = {},
             \A n \in net' : n \in net \/ Fits(n)
      PROVE  Once'
  <2>1. created' = created
    BY <1>q
  <2> QED  BY <1>q, <2>1 DEF Once, Fits
<1>u. ASSUME own \subseteq own', cards' = cards, Told = {},
             \A n \in net' : n \in net \/ Fits(n)
      PROVE  Once'
  BY <1>q, <1>u DEF Once, CardIds, OneCard
<1>2. CASE Retry \/ OpenBlog \/ CreateBlog \/ ToggleLike \/ SubmitComment \/ SaveEdit
  <2>1. PICK k, b, i : Send(k, b, i)
    BY <1>2 DEF Retry, OpenBlog, CreateBlog, ToggleLike, SubmitComment, SaveEdit
  <2>2. UNCHANGED <<own, cards>>
    BY <1>2 DEF Retry, OpenBlog, CreateBlog, ToggleLike, SubmitComment, SaveEdit, dbVars
  <2>3. PICK m : m.at = "sent" /\ net' = net \union {m}
    BY <1>k, <2>1, SendIs DEF Sent
  <2> QED  BY <1>u, <2>2, <2>3 DEF Told, Fits
<1>3. CASE CloseBlog
  BY <1>3, <1>u DEF CloseBlog, dbVars, Told
<1>4. CASE Service
  <2>0. cards' = cards
    BY <1>0, <1>4, ServiceAnswers
  <2>1. CASE WrittenElsewhere
    BY <2>1, <1>u DEF WrittenElsewhere, Told
  <2>s. ASSUME NEW m \in net, m.at = "sent", NEW n, Answer(m, n), own \subseteq own', Fits(n)
        PROVE  Once'
    BY <1>u, <2>0, <2>s DEF Answer, Told
  <2>m. ASSUME NEW m \in net  PROVE m \in Message
    BY <1>0 DEF TypeOK
  <2>2. ASSUME NEW m \in net, ServeList(m)
        PROVE  Once'
    <3>1. PICK S \in SUBSET (stored \ own) : Answer(m, [m EXCEPT !.at = "ok", !.list = own \union S])
      BY <2>2 DEF ServeList
    <3>2. own \union S \in SUBSET BlogId
      BY <1>0 DEF TypeOK
    <3> DEFINE n == [m EXCEPT !.at = "ok", !.list = own \union S]
    <3>3. n.kind = m.kind /\ n.list = own \union S
      BY <2>m, <3>2, AnswersAre
    <3>4. m.kind = "list" /\ m.at = "sent" /\ Answer(m, n) /\ own' = own
      BY <2>2, <3>1 DEF ServeList, dbVars
    <3> HIDE DEF n
    <3>5. Fits(n)
      BY <3>3, <3>4 DEF Fits, Once
    <3> QED  BY <2>s, <3>4, <3>5
  <2>3. ASSUME NEW m \in net, ServeOne(m) \/ ServeNot(m)
        PROVE  Once'
    <3>1. ASSUME NEW at \in {"ok", "error"}, Answer(m, [m EXCEPT !.at = at]), m.at = "sent",
                 at = "ok" => m.kind \notin {"create", "list"}, own' = own
          PROVE  Once'
      <4> DEFINE n == [m EXCEPT !.at = at]
      <4>1. n.kind = m.kind /\ n.at = at
        <5>1. m \in Message
          BY <2>m
        <5> QED  BY <5>1 DEF Message
      <4>2. Answer(m, n)
        BY <3>1
      <4> HIDE DEF n
      <4>3. Fits(n)
        BY <3>1, <4>1 DEF Fits
      <4> QED  BY <2>s, <3>1, <4>2, <4>3
    <3>2. CASE ServeOne(m)
      BY <3>1, <3>2 DEF ServeOne, dbVars
    <3>3. CASE ServeNot(m)
      BY <3>1, <3>3 DEF ServeNot, dbVars
    <3> QED  BY <2>3, <3>2, <3>3
  <2>4. ASSUME NEW m \in net, ServeCreate(m)
        PROVE  Once'
    <3>1. PICK b \in BlogId \ stored, at \in {"ok", "error"} :
            own' = own \union {b} /\ Answer(m, [m EXCEPT !.at = at, !.blog = b])
      BY <2>4 DEF ServeCreate
    <3> DEFINE n == [m EXCEPT !.at = at, !.blog = b]
    <3>2. n.kind = m.kind /\ n.blog = b
      <4>1. m \in Message
        BY <2>m
      <4>2. \A c \in BlogId : /\ [m EXCEPT !.at = at, !.blog = c] \in Message
                              /\ [m EXCEPT !.at = at, !.blog = c].kind = m.kind
                              /\ [m EXCEPT !.at = at, !.blog = c].blog = c
        BY <4>1, AnswersAre
      <4> QED  BY <3>1, <4>2
    <3>3. m.kind = "create" /\ m.at = "sent" /\ Answer(m, n)
      BY <2>4, <3>1 DEF ServeCreate
    <3> HIDE DEF n
    <3>4. Fits(n)
      BY <1>0, <3>1, <3>2, <3>3 DEF Fits
    <3> QED  BY <2>s, <3>1, <3>3, <3>4
  <2> QED  BY <1>4, <2>1, <2>2, <2>3, <2>4 DEF Service
\* An answer other than that of a blog created.
<1>t. ASSUME NEW m \in net, net' = net \ {m}, ~(m.kind = "create" /\ m.at = "ok"), own' = own,
             CardIds' = CardIds, OneCard'
      PROVE  Once'
  BY <1>q, <1>t DEF Told
<1>tu. ASSUME NEW m \in net, net' = net \ {m}, ~(m.kind = "create" /\ m.at = "ok"), own' = own,
              cards' = cards
       PROVE  Once'
  BY <1>u, <1>tu DEF Told
<1>5. ASSUME NEW m \in net, TakeList(m)
      PROVE  Once'
  <2>1. m.kind = "list" /\ net' = net \ {m} /\ own' = own
    BY <1>5 DEF TakeList, Take, dbVars
  <2>2. CASE cards' = cards
    BY <1>tu, <2>1, <2>2
  <2>3. ASSUME NEW s \in Orders(m.list), Listed(s), m.at = "ok"
        PROVE  Once'
    <3> DEFINE k == Cardinality(m.list)
    <3>1. /\ k \in Nat /\ s \in [1..k -> m.list] /\ \A b \in m.list : \E i \in DOMAIN s : s[i] = b
          /\ cards' \in Seq(Object) /\ Len(cards') = k
          /\ \A i \in DOMAIN cards' : cards'[i] = [id |-> s[i], likes |-> s[i], comments |-> None]
          /\ CardIds' = m.list
      BY <2>1, <2>3, ListTaken
    <3>2. \A i, j \in 1..k : s[i] = s[j] => i = j
      <4>1. IsFiniteSet(1..k) /\ Cardinality(1..k) = k
        BY <3>1, FS_Interval
      <4>2. s \in Surjection(1..k, m.list)
        BY <3>1 DEF Surjection
      <4>3. s \in Injection(1..k, m.list)
        BY <4>1, <4>2, FS_SurjSameCardinalityImpliesInj
      <4> QED  BY <3>1, <4>3 DEF Injection, IsInjective
    <3>3. OneCard'
      <4>1. DOMAIN cards' = 1..k
        BY <3>1
      <4> HIDE DEF k
      <4>2. \A i \in 1..k : cards'[i].id = s[i]
        BY <3>1, <4>1
      <4> QED  BY <3>2, <4>1, <4>2 DEF OneCard
    <3>4. created' = created
      BY <2>1 DEF Told
    <3>5. m \in Flight({"list"})
      BY <2>1 DEF Flight
    <3>6. Flight({"create"}) = {}
      BY <3>5 DEF Once
    <3>7. \A n \in net' : Fits(n)'
      BY <2>1, <3>4, <3>6 DEF Once, Fits, Flight
    <3>8. created' \subseteq CardIds' \intersect own'
      BY <2>1, <2>3, <3>1, <3>4 DEF Once, Fits
    <3> QED  BY <3>3, <3>7, <3>8 DEF Once
  <2> QED  BY <1>5, <2>2, <2>3 DEF TakeList, Take
<1>6. ASSUME NEW m \in net, TakeGet(m)
      PROVE  Once'
  BY <1>6, <1>tu DEF TakeGet, Take, dbVars
<1>r. ASSUME NEW m \in net, net' = net \ {m}, ~(m.kind = "create" /\ m.at = "ok"), own' = own,
             Relabelled
      PROVE  Once'
  <2>1. DOMAIN cards' = DOMAIN cards /\ \A i \in DOMAIN cards : cards'[i].id = cards[i].id
    BY <1>0, <1>r DEF Relabelled
  <2>2. CardIds' = CardIds
    BY <2>1 DEF CardIds
  <2>3. OneCard'
    BY <2>1 DEF Once, OneCard
  <2> QED  BY <1>r, <1>t, <2>2, <2>3
<1>7. ASSUME NEW m \in net, TakeLike(m)
      PROVE  Once'
  <2>1. net' = net \ {m} /\ own' = own /\ m.kind = "like"
    BY <1>7 DEF TakeLike, Take, dbVars
  <2>2. CASE cards' = cards
    BY <1>tu, <2>1, <2>2
  <2>3. CASE selected # NoBlog /\ Liked(m.blog)
    <3>1. m.blog \in BlogId
      BY <2>1 DEF StoredInv, Sound
    <3>2. Relabelled
      BY <1>0, <2>3, <3>1, LikedRelabels
    <3> QED  BY <1>r, <2>1, <3>2
  <2> QED  BY <1>7, <2>2, <2>3 DEF TakeLike
<1>8. ASSUME NEW m \in net, TakeComment(m) \/ TakeEdit(m)
      PROVE  Once'
  <2>1. net' = net \ {m} /\ own' = own /\ m.kind \in {"comment", "edit"}
    BY <1>8 DEF TakeComment, TakeEdit, Take, dbVars
  <2>2. CASE cards' = cards
    BY <1>tu, <2>1, <2>2
  <2>3. CASE selected # NoBlog /\ Update([Opened EXCEPT !.comments = m.blog])
    <3>1. m.blog \in BlogId
      BY <2>1 DEF StoredInv, Sound
    <3>2. [Opened EXCEPT !.comments = m.blog] \in Object
          /\ [Opened EXCEPT !.comments = m.blog].id = Opened.id
      BY <1>0, <2>3, <3>1, OpenedIs DEF Object
    <3>3. Relabelled
      BY <1>0, <2>3, <3>2, UpdateRelabels
    <3> QED  BY <1>r, <2>1, <3>3
  <2> QED  BY <1>8, <2>2, <2>3 DEF TakeComment, TakeEdit
<1>9. ASSUME NEW m \in net, TakeCreate(m)
      PROVE  Once'
  <2>1. net' = net \ {m} /\ own' = own /\ m.kind = "create"
    BY <1>9 DEF TakeCreate, Take, dbVars
  <2>2. CASE cards' = cards /\ m.at = "error"
    BY <1>tu, <2>1, <2>2
  <2> DEFINE o == [id |-> m.blog, likes |-> m.blog, comments |-> "empty"]
  <2>3. CASE cards' = Append(cards, o) /\ m.at = "ok"
    <3>1. m.blog \in own /\ m.blog \notin CardIds
      BY <2>1, <2>3 DEF StoredInv, Sound, Once, Fits
    <3>2. created' = created \union {m.blog}
      <4>1. Told = {m}
        BY <2>1, <2>3 DEF Told
      <4> QED  BY <4>1
    <3>3. o.id = m.blog
      OBVIOUS
    <3> HIDE DEF o
    <3>4. /\ Len(cards) \in Nat /\ DOMAIN cards = 1..Len(cards)
          /\ DOMAIN cards' = 1..(Len(cards) + 1) /\ cards'[Len(cards) + 1] = o
          /\ \A i \in 1..Len(cards) : cards'[i] = cards[i]
      <4>1. cards' \in Seq(Object \union {o}) /\ Len(cards') = Len(cards) + 1
        BY <1>0, <2>3
      <4> QED  BY <1>0, <2>3, <4>1
    <3>5. CardIds' = CardIds \union {m.blog}
      <4>1. CardIds \union {m.blog} \subseteq CardIds'
        BY <3>3, <3>4 DEF CardIds
      <4>2. CardIds' \subseteq CardIds \union {m.blog}
        <5>1. \A i \in 1..(Len(cards) + 1) : i = Len(cards) + 1 \/ i \in 1..Len(cards)
          BY <3>4
        <5> QED  BY <3>3, <3>4, <5>1 DEF CardIds
      <4> QED  BY <4>1, <4>2
    <3>6. OneCard'
      <4>1. \A i \in 1..Len(cards) : cards'[i].id # m.blog
        BY <3>1, <3>4 DEF CardIds
      <4>2. \A i, j \in 1..Len(cards) : cards'[i].id = cards'[j].id => i = j
        BY <3>4 DEF Once, OneCard
      <4>3. \A i \in 1..(Len(cards) + 1) : i = Len(cards) + 1 \/ i \in 1..Len(cards)
        BY <3>4
      <4> QED  BY <3>3, <3>4, <4>1, <4>2, <4>3 DEF OneCard
    <3>7. created' \subseteq CardIds' \intersect own'
      BY <2>1, <3>1, <3>2, <3>5 DEF Once
    <3>8. Flight({"list"}) = {} /\ Flight({"create"}) = {m}
      <4>1. m \in Flight({"create"})
        BY <2>1 DEF Flight
      <4> QED  BY <1>0, <4>1 DEF Once, FlagsInv, One, TypeOK
    <3>9. \A n \in net' : n.kind \notin {"list", "create"}
      BY <2>1, <3>8 DEF Flight
    <3>10. \A n \in net' : Fits(n)'
      BY <3>9 DEF Fits
    <3> QED  BY <3>6, <3>7, <3>10 DEF Once
  <2> QED  BY <1>9, <2>2, <2>3 DEF TakeCreate, Take
<1> QED
  BY <1>2, <1>3, <1>4, <1>5, <1>6, <1>7, <1>8, <1>9 DEF Next, User, Page
-------------------------------------------------------------------------------
(* The theorems.                                                             *)

LEMMA Starts ==
  ASSUME Init
  PROVE  AnyInv /\ (closed = FALSE /\ raced = FALSE /\ created = {} => WaitingInv)
<1> DEFINE m == Request("list", None, 0, 1)
<1>1. /\ net = {m} /\ stored = {} /\ own = {} /\ cards = <<>> /\ selected = NoBlog
      /\ m.kind = "list" /\ m.list = {} /\ m \in Message /\ m.at = "sent"
  BY Requested DEF Init, Kind
<1> HIDE DEF m
<1>2. /\ Flight({"list", "get"}) = {m} /\ Flight({"like"}) = {} /\ Flight({"create"}) = {}
      /\ Flight({"like", "comment", "edit"}) = {} /\ CardIds = {}
  BY <1>1 DEF Flight, CardIds
<1>3. IsFiniteSet({}) /\ IsFiniteSet({m})
  BY FS_EmptySet, FS_Singleton
<1>4. FlagsInv
  BY <1>2 DEF FlagsInv, One, Init
<1>5. TypeOK
  <2>1. NoBlog \in Selection /\ NoBlog.card = 0
    BY DEF NoBlog, Selection
  <2>2. {error, isLoading, isLiking, isSubmittingComment, isCreating} \subseteq BOOLEAN
    BY DEF Init
  <2>3. cards \in Seq(Object) /\ selected.card <= Len(cards)
    BY <1>1, <2>1
  <2> QED  BY <1>1, <2>1, <2>2, <2>3 DEF TypeOK
<1>6. StoredInv
  BY <1>1, <1>2, <1>3, <1>5 DEF StoredInv, Sound
<1>7. LoadingInv
  BY <1>1 DEF LoadingInv, Init
<1>8. Waiting
  BY <1>1, <1>2 DEF Waiting, About, Labels
<1>9. created = {} => Cards
  BY <1>1, <1>2 DEF Cards, Once, OneCard, Fits
<1> QED  BY <1>4, <1>6, <1>7, <1>8, <1>9 DEF AnyInv, WaitingInv

\* What holds whatever the user does.
LEMMA AnyHolds == Spec => []AnyInv
<1>1. Init => AnyInv
  BY Starts
<1>2. AnyInv /\ [Next]_vars => AnyInv'
  BY FlagsKept, StoredKept, LoadingKept DEF AnyInv, StoredInv
<1> QED  BY <1>1, <1>2, PTL DEF Spec

LEMMA LeftKeepsBoth ==
  ASSUME Leave, closed' = FALSE, raced' = FALSE, created' = {}
  PROVE  Waiting' /\ Cards'
<1> DEFINE m == Request("list", None, 0, 1)
<1>1. net' = {m} /\ m.kind = "list" /\ m.at = "sent" /\ cards' = <<>> /\ selected' = NoBlog
  BY DEF Leave, Request
<1> HIDE DEF m
<1>2. Flight({"like", "comment", "edit"})' = {} /\ Flight({"create"})' = {}
  BY <1>1 DEF Flight
<1>3. Waiting'
  BY <1>1, <1>2 DEF Waiting, About, Labels
<1>4. Cards'
  BY <1>1, <1>2 DEF Cards, Once, OneCard, Fits
<1> QED  BY <1>3, <1>4

LEMMA WaitingKept ==
  ASSUME AnyInv, WaitingInv, [MCNext]_<<vars, closed, raced, created>>
  PROVE  WaitingInv'
<1>0. FlagsInv /\ StoredInv /\ LoadingInv /\ Waiting /\ Cards
  BY DEF AnyInv, WaitingInv
<1>1. CASE UNCHANGED <<vars, closed, raced, created>>
  <2>1. UNCHANGED <<net, own, cards, selected, closed, raced, created>>
    BY <1>1 DEF vars, dbVars
  <2>2. Waiting'
    BY <1>0, <2>1 DEF Waiting, About, Labels, Flight, Opened
  <2>3. Cards'
    BY <1>0, <2>1 DEF Cards, Once, OneCard, CardIds, Fits, Flight
  <2> QED  BY <2>2, <2>3 DEF WaitingInv
<1>2. CASE MCNext /\ Leave
  BY <1>2, LeftKeepsBoth DEF MCNext, WaitingInv
<1>3. CASE MCNext /\ ~Leave
  <2>1. /\ Next
        /\ closed' = (closed \/ (CloseBlog /\ Flight({"like", "comment", "edit"}) # {}))
        /\ raced' = (raced \/ (Flight({"list"})' # {} /\ Flight({"create"})' # {}))
        /\ created' = IF raced' THEN {} ELSE created \union {m.blog : m \in Told}
    BY <1>3 DEF MCNext, Told
  <2>2. ASSUME ~closed'
        PROVE  About' /\ Labels'
    <3>1. About /\ Labels /\ (CloseBlog => Flight({"like", "comment", "edit"}) = {})
      BY <1>0, <2>1, <2>2 DEF Waiting
    <3> QED  BY <1>0, <1>3, <2>1, <3>1, AboutKept, LabelsKept
  <2>3. ASSUME ~raced'
        PROVE  Once'
    <3>1. Once /\ (Flight({"list"})' = {} \/ Flight({"create"})' = {})
      BY <1>0, <2>1, <2>3 DEF Cards
    <3> QED  BY <1>0, <1>3, <2>1, <2>3, <3>1, OnceKept
  <2> QED  BY <2>2, <2>3 DEF WaitingInv, Waiting, Cards
<1> QED  BY <1>1, <1>2, <1>3

\* Behaviours with the history are behaviours of the page.
LEMMA HistoryOnly == MCSpec => Spec
<1>1. MCInit => Init
  BY DEF MCInit
<1>2. [MCNext]_<<vars, closed, raced, created>> => [Next]_vars
  BY DEF MCNext
<1> QED  BY <1>1, <1>2, PTL DEF MCSpec, Spec

LEMMA WaitingHolds == MCSpec => [](AnyInv /\ WaitingInv)
<1>1. MCInit => WaitingInv
  BY Starts DEF MCInit
<1> QED  BY <1>1, WaitingKept, HistoryOnly, AnyHolds, PTL DEF MCSpec

\* The blog page only takes values of its types.
THEOREM PageTypes == Spec => []TypeOK
<1>1. AnyInv => TypeOK
  BY DEF AnyInv, StoredInv
<1> QED  BY <1>1, AnyHolds, PTL

\* The flags of loading, liking and creating are set exactly while the answer they
\* wait for is to come: loadBlogs, openBlog, toggleLike and createBlog never leave a
\* button disabled and never have a second request in flight.
THEOREM FlagsAreTrue == Spec => []FlagsTell
<1>1. ASSUME AnyInv
      PROVE  FlagsTell
  <2>1. \A m : Cardinality({m}) = 1
    BY FS_Singleton
  <2>2. ASSUME NEW kinds, NEW flag, One(flag, kinds)
        PROVE  IF flag THEN Cardinality(Flight(kinds)) = 1 ELSE Flight(kinds) = {}
    BY <2>1, <2>2 DEF One
  <2>3. One(isLoading, {"list", "get"}) /\ One(isLiking, {"like"}) /\ One(isCreating, {"create"})
    BY <1>1 DEF AnyInv, FlagsInv
  <2>4. IF isLoading THEN Cardinality(Flight({"list", "get"})) = 1 ELSE Flight({"list", "get"}) = {}
    BY <2>2, <2>3
  <2>5. IF isLiking THEN Cardinality(Flight({"like"})) = 1 ELSE Flight({"like"}) = {}
    BY <2>2, <2>3
  <2>6. IF isCreating THEN Cardinality(Flight({"create"})) = 1 ELSE Flight({"create"}) = {}
    BY <2>2, <2>3
  <2> QED  BY <2>4, <2>5, <2>6 DEF FlagsTell
<1> QED  BY <1>1, AnyHolds, PTL

\* While no blog is closed before its answers are there, the likes and comments
\* shown with a blog are its own, in the list too (toggleLike, submitComment,
\* saveEdit).
THEOREM ShownOfTheBlog == MCSpec => []WaitingOfTheBlog
<1>1. ASSUME AnyInv, WaitingInv
      PROVE  WaitingOfTheBlog
  <2>1. CASE closed
    BY <2>1 DEF WaitingOfTheBlog
  <2>2. CASE ~closed
    <3>1. TypeOK /\ Labels
      BY <1>1, <2>2 DEF AnyInv, WaitingInv, StoredInv, Waiting
    <3>2. selected # NoBlog => Proper(Opened)
      BY <3>1, OpenedIs DEF Labels
    <3>3. \A o \in Shown : Proper(o)
      BY <3>1, <3>2 DEF Shown, Labels
    <3> QED  BY <3>3 DEF WaitingOfTheBlog, OfTheBlog, Proper
  <2> QED  BY <2>1, <2>2
<1> QED  BY <1>1, WaitingHolds, PTL

\* While no blog is created with the list on its way, each blog of the list has one
\* card and each blog the page created has one (loadBlogs, createBlog).
THEOREM CardsOfTheBlogs == MCSpec => []WaitingCards
<1>1. ASSUME AnyInv, WaitingInv
      PROVE  WaitingCards
  <2>1. CASE raced
    BY <2>1 DEF WaitingCards
  <2>2. CASE ~raced
    <3>1. TypeOK /\ OneCard /\ created \subseteq CardIds
      BY <1>1, <2>2 DEF AnyInv, WaitingInv, StoredInv, Cards, Once
    <3> QED  BY <3>1, CardOfIs DEF WaitingCards
  <2> QED  BY <2>1, <2>2
<1> QED  BY <1>1, WaitingHolds, PTL
===============================================================================
