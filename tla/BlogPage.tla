------------------------------- MODULE BlogPage -------------------------------
(*****************************************************************************)
(* The blog page of one user (blog.component.ts) with its requests, which go *)
(* through the gateway to the blog service and are answered in any order.    *)
(*                                                                           *)
(* What the service does for a request is one step here (Blog takes it       *)
(* apart).  Reads go over gRPC, whose messages carry no comments: the page   *)
(* gets comments only in the answer to a POST or PUT, and the part of a blog *)
(* below its text, the comment form included, is not rendered without them.  *)
(* Of the likes and comments that a blog object of the page holds, the model *)
(* keeps which blog they are of.  The same error interrupts the rendering of *)
(* cards and of the modal (blog.component.html:95); the model lets the user  *)
(* go on with them all the same.                                             *)
(*****************************************************************************)
EXTENDS Naturals, Sequences, FiniteSets

CONSTANTS
  BlogId,       \* ids of blogs, each inserted once (a bound)
  MaxRequests,  \* requests in flight at once (a bound)
  None

ASSUME NoneAssumption == None \notin BlogId

VARIABLES
  stored,    \* the blogs in the database
  own,       \* those of them that this page created
  net,       \* the requests of the page that it has no answer to yet
  cards,     \* this.blogs, the last card first, so that the others keep their
             \* places when a new blog is put in front
  selected,  \* selectedBlog: nothing, a card, or an object of its own
  error,     \* this.error is set
  isLoading, isLiking, isSubmittingComment, isCreating

dbVars == <<stored, own>>
flags  == <<error, isLoading, isLiking, isSubmittingComment, isCreating>>
vars   == <<dbVars, net, cards, selected, flags>>

\* comments: None if undefined, else of which blog; a new blog's are empty.
Object == [id : BlogId, likes : BlogId, comments : BlogId \union {None, "empty"}]

ASSUME ObjectAssumption == None \notin Object

Selection == [card : Nat, own : Object \union {None}]
NoBlog    == [card |-> 0, own |-> None]

\* blog: the blog it is about, or that it created; card: the card that was opened;
\* list: the blogs in the answer; no: tells requests of one kind apart.
Kind    == {"list", "get", "like", "comment", "edit", "create"}
Message == [kind : Kind, at : {"sent", "ok", "error"},
            blog : BlogId \union {None}, card : Nat, list : SUBSET BlogId, no : Nat]

TypeOK ==
  /\ stored \subseteq BlogId /\ own \subseteq stored
  /\ net \subseteq Message
  /\ cards \in Seq(Object)
  /\ selected \in Selection /\ selected.card <= Len(cards)
  /\ {error, isLoading, isLiking, isSubmittingComment, isCreating} \subseteq BOOLEAN

Request(kind, b, i, n) ==
  [kind |-> kind, at |-> "sent", blog |-> b, card |-> i, list |-> {}, no |-> n]

\* ngOnInit: an empty page that loads the blogs.
Init ==
  /\ stored = {} /\ own = {}
  /\ net = {Request("list", None, 0, 1)}
  /\ cards = <<>>
  /\ selected = NoBlog
  /\ error = FALSE
  /\ isLoading = TRUE
  /\ isLiking = FALSE /\ isSubmittingComment = FALSE /\ isCreating = FALSE

\* One more request, with the first number that no other of its kind has.
Send(kind, b, i) ==
  /\ Cardinality(net) < MaxRequests
  /\ \E n \in 1..MaxRequests :
       /\ \A m \in net : m.kind = kind => m.no # n
       /\ \A k \in 1..(n - 1) : \E m \in net : m.kind = kind /\ m.no = k
       /\ net' = net \union {Request(kind, b, i, n)}

-------------------------------------------------------------------------------
(* What is on the screen.                                                    *)

Opened == IF selected.card = 0 THEN selected.own ELSE cards[selected.card]

GridShown   == ~isLoading /\ ~error /\ selected = NoBlog
DetailShown == ~isLoading /\ selected # NoBlog
\* "comments.length" throws without comments, before the form is reached.
FormShown   == DetailShown /\ Opened.comments # None

-------------------------------------------------------------------------------
(* The gateway and the services.                                             *)

Answer(m, n) == net' = (net \ {m}) \union {n}

\* GetAllBlogs: the user's own blogs and those of whom the user follows.  Any other
\* blog may be one of them or not.
ServeList(m) ==
  /\ m \in net /\ m.kind = "list" /\ m.at = "sent"
  /\ \E S \in SUBSET (stored \ own) : Answer(m, [m EXCEPT !.at = "ok", !.list = own \union S])
  /\ UNCHANGED <<dbVars, cards, selected, flags>>

\* GetBlog, like, addComment, editComment.
ServeOne(m) ==
  /\ m \in net /\ m.kind \in {"get", "like", "comment", "edit"} /\ m.at = "sent"
  /\ Answer(m, [m EXCEPT !.at = "ok"])
  /\ UNCHANGED <<dbVars, cards, selected, flags>>

\* createBlog; its answer may get lost.
ServeCreate(m) ==
  /\ m \in net /\ m.kind = "create" /\ m.at = "sent"
  /\ \E b \in BlogId \ stored :
       /\ stored' = stored \union {b}
       /\ own' = own \union {b}
       /\ \E at \in {"ok", "error"} : Answer(m, [m EXCEPT !.at = at, !.blog = b])
  /\ UNCHANGED <<cards, selected, flags>>

\* Refused (403), or a service or the gateway's 5 s timeout fails it.
ServeNot(m) ==
  /\ m \in net /\ m.at = "sent"
  /\ Answer(m, [m EXCEPT !.at = "error"])
  /\ UNCHANGED <<dbVars, cards, selected, flags>>

\* A blog is written elsewhere, by whomever.
WrittenElsewhere ==
  /\ \E b \in BlogId \ stored : stored' = stored \union {b}
  /\ UNCHANGED <<own, net, cards, selected, flags>>

-------------------------------------------------------------------------------
(* What the user does.                                                       *)

\* loadBlogs, from the button of the error message.
Retry ==
  /\ error /\ ~isLoading
  /\ isLoading' = TRUE /\ error' = FALSE
  /\ Send("list", None, 0)
  /\ UNCHANGED <<dbVars, cards, selected, isLiking, isSubmittingComment, isCreating>>

\* Mutant of OpenBlog: the card is counted from the wrong end.
OpenBlogNext ==
  /\ GridShown
  /\ \E i \in DOMAIN cards : Send("get", cards[i].id, i + 1)
  /\ isLoading' = TRUE
  /\ UNCHANGED <<dbVars, cards, selected, error, isLiking, isSubmittingComment, isCreating>>

OpenBlog ==
  /\ GridShown
  /\ \E i \in DOMAIN cards : Send("get", cards[i].id, i)
  /\ isLoading' = TRUE
  /\ UNCHANGED <<dbVars, cards, selected, error, isLiking, isSubmittingComment, isCreating>>

CloseBlog ==
  /\ DetailShown
  /\ selected' = NoBlog
  /\ UNCHANGED <<dbVars, net, cards, error, isLoading, isLiking, isSubmittingComment, isCreating>>

\* goBack and coming again: a new page.  The requests of the old one go on, but
\* their answers reach nothing (what they store is WrittenElsewhere).
Leave ==
  /\ net' = {Request("list", None, 0, 1)}
  /\ cards' = <<>> /\ selected' = NoBlog
  /\ error' = FALSE /\ isLoading' = TRUE
  /\ isLiking' = FALSE /\ isSubmittingComment' = FALSE /\ isCreating' = FALSE
  /\ UNCHANGED dbVars

ToggleLike ==
  /\ DetailShown /\ ~isLiking
  /\ isLiking' = TRUE
  /\ Send("like", Opened.id, 0)
  /\ UNCHANGED <<dbVars, cards, selected, error, isLoading, isSubmittingComment, isCreating>>

\* The button is disabled while isSubmittingComment, but Ctrl+Enter is not.
SubmitComment ==
  /\ FormShown
  /\ isSubmittingComment' = TRUE
  /\ Send("comment", Opened.id, 0)
  /\ UNCHANGED <<dbVars, cards, selected, error, isLoading, isLiking, isCreating>>

\* saveEdit of an own comment that is shown; nothing keeps the user from sending it
\* again.
SaveEdit ==
  /\ FormShown /\ Opened.comments # "empty"
  /\ Send("edit", Opened.id, 0)
  /\ UNCHANGED <<dbVars, cards, selected, flags>>

\* createBlog, from the modal, which may be closed and opened again meanwhile.
CreateBlog ==
  /\ ~isCreating
  /\ isCreating' = TRUE
  /\ Send("create", None, 0)
  /\ UNCHANGED <<dbVars, cards, selected, error, isLoading, isLiking,
                 isSubmittingComment>>

-------------------------------------------------------------------------------
(* The answers, as the page takes them.                                      *)

\* The page takes the answer m.
Take(m, kind, at) == m \in net /\ m.kind = kind /\ m.at = at /\ net' = net \ {m}

\* The sequences of the blogs of S.
Orders(S) == {s \in [1..Cardinality(S) -> S] : \A b \in S : \E i \in DOMAIN s : s[i] = b}

\* Mutant of Listed: added to the cards there are.
ListedMore(s) ==
  cards' = cards \o [i \in DOMAIN s |-> [id |-> s[i], likes |-> s[i], comments |-> None]]

\* The blogs of an answer replace the cards.
Listed(s) ==
  cards' = [i \in DOMAIN s |-> [id |-> s[i], likes |-> s[i], comments |-> None]]

TakeList(m) ==
  /\ \/ /\ Take(m, "list", "ok")
        /\ \E s \in Orders(m.list) : Listed(s)
        /\ UNCHANGED error
     \/ /\ Take(m, "list", "error")
        /\ error' = TRUE
        /\ UNCHANGED cards
  /\ isLoading' = FALSE
  /\ UNCHANGED <<dbVars, selected, isLiking, isSubmittingComment, isCreating>>

\* An error opens the card itself.
TakeGet(m) ==
  /\ \/ /\ Take(m, "get", "ok")
        /\ selected' = [card |-> 0,
                        own |-> [id |-> m.blog, likes |-> m.blog, comments |-> None]]
     \/ /\ Take(m, "get", "error")
        /\ selected' = [card |-> m.card, own |-> None]
  /\ isLoading' = FALSE
  /\ UNCHANGED <<dbVars, cards, error, isLiking, isSubmittingComment, isCreating>>

\* selectedBlog becomes o, and so does the card if it is one.
Update(o) ==
  IF selected.card = 0
    THEN selected' = [selected EXCEPT !.own = o] /\ UNCHANGED cards
    ELSE cards' = [cards EXCEPT ![selected.card] = o] /\ UNCHANGED selected

\* findIndex: the first card in front that is of a blog; 0 if there is none.
CardOf(b) ==
  LET of == {i \in DOMAIN cards : cards[i].id = b}
  IN  IF of = {} THEN 0 ELSE CHOOSE i \in of : \A j \in of : j <= i

\* Mutant of Liked: the first card in front is updated.
LikedFront(b) ==
  /\ cards' = [i \in DOMAIN cards |->
       IF i \in {selected.card, Len(cards)} THEN [cards[i] EXCEPT !.likes = b] ELSE cards[i]]
  /\ selected' = IF selected.card = 0 THEN [selected EXCEPT !.own.likes = b] ELSE selected

\* The likes told of b are shown with the blog that is open now and with its card.
Liked(b) ==
  /\ cards' = [i \in DOMAIN cards |->
       IF i \in {selected.card, CardOf(Opened.id)} THEN [cards[i] EXCEPT !.likes = b]
       ELSE cards[i]]
  /\ selected' = IF selected.card = 0 THEN [selected EXCEPT !.own.likes = b] ELSE selected

\* Mutant of TakeLike: the flag is reset with the blog.
TakeLikeOpen(m) ==
  /\ \/ /\ Take(m, "like", "ok")
        /\ IF selected = NoBlog THEN UNCHANGED <<cards, selected, isLiking>>
           ELSE Liked(m.blog) /\ isLiking' = FALSE
     \/ /\ Take(m, "like", "error")
        /\ isLiking' = FALSE
        /\ UNCHANGED <<cards, selected>>
  /\ UNCHANGED <<dbVars, error, isLoading, isSubmittingComment, isCreating>>

TakeLike(m) ==
  /\ \/ /\ Take(m, "like", "ok")
        /\ IF selected = NoBlog THEN UNCHANGED <<cards, selected>> ELSE Liked(m.blog)
     \/ /\ Take(m, "like", "error")
        /\ UNCHANGED <<cards, selected>>
  /\ isLiking' = FALSE
  /\ UNCHANGED <<dbVars, error, isLoading, isSubmittingComment, isCreating>>

\* The first answer resets the flag, whatever else is in flight.  selectedBlog! is
\* null if the blog was closed: the callback throws, and the flag stays set.
TakeComment(m) ==
  /\ \/ /\ Take(m, "comment", "ok")
        /\ IF selected = NoBlog THEN UNCHANGED <<cards, selected, isSubmittingComment>>
           ELSE /\ Update([Opened EXCEPT !.comments = m.blog])
                /\ isSubmittingComment' = FALSE
     \/ /\ Take(m, "comment", "error")
        /\ isSubmittingComment' = FALSE
        /\ UNCHANGED <<cards, selected>>
  /\ UNCHANGED <<dbVars, error, isLoading, isLiking, isCreating>>

TakeEdit(m) ==
  /\ \/ /\ Take(m, "edit", "ok")
        /\ IF selected = NoBlog THEN UNCHANGED <<cards, selected>>
           ELSE Update([Opened EXCEPT !.comments = m.blog])
     \/ /\ Take(m, "edit", "error")
        /\ UNCHANGED <<cards, selected>>
  /\ UNCHANGED <<dbVars, error, isLoading, isLiking, isSubmittingComment, isCreating>>

\* Puts the new blog in front.
TakeCreate(m) ==
  /\ \/ /\ Take(m, "create", "ok")
        /\ cards' = Append(cards, [id |-> m.blog, likes |-> m.blog, comments |-> "empty"])
     \/ /\ Take(m, "create", "error")
        /\ UNCHANGED cards
  /\ isCreating' = FALSE
  /\ UNCHANGED <<dbVars, selected, error, isLoading, isLiking, isSubmittingComment>>

-------------------------------------------------------------------------------

User ==
  \/ Retry \/ OpenBlog \/ CloseBlog \/ Leave
  \/ ToggleLike \/ SubmitComment \/ SaveEdit \/ CreateBlog

Service == WrittenElsewhere \/ \E m \in net : ServeList(m) \/ ServeOne(m) \/ ServeCreate(m) \/ ServeNot(m)

Page ==
  \E m \in net : \/ TakeList(m) \/ TakeGet(m) \/ TakeLike(m)
                 \/ TakeComment(m) \/ TakeEdit(m) \/ TakeCreate(m)

Next == User \/ Service \/ Page

Spec == Init /\ [][Next]_vars

-------------------------------------------------------------------------------
(* Properties that hold in whatever order answers arrive.                    *)

Flight(kinds) == {m \in net : m.kind \in kinds}

\* The flags of loading, liking and creating tell what is in flight: their buttons
\* neither send a second request nor stay disabled for good
\* (blog.component.ts:61, 81, 112, 198).  isSubmittingComment tells nothing of the
\* kind: the first of two comments resets it, and a blog closed early leaves it set.
FlagsTell ==
  /\ IF isLoading THEN Cardinality(Flight({"list", "get"})) = 1 ELSE Flight({"list", "get"}) = {}
  /\ IF isLiking THEN Cardinality(Flight({"like"})) = 1 ELSE Flight({"like"}) = {}
  /\ IF isCreating THEN Cardinality(Flight({"create"})) = 1 ELSE Flight({"create"}) = {}

-------------------------------------------------------------------------------
(* Properties that hold while requests are waited for (see MCBlogPage).      *)

Shown == {cards[i] : i \in DOMAIN cards} \union (IF selected = NoBlog THEN {} ELSE {Opened})

\* "sinhronizuj i listu" (synchronise the list too, blog.component.ts:118): the
\* likes and comments shown with a blog are of that blog.
OfTheBlog == \A o \in Shown : o.likes = o.id /\ o.comments \in {None, "empty", o.id}

\* No blog has two cards.
OneCard == \A i, j \in DOMAIN cards : cards[i].id = cards[j].id => i = j

===============================================================================
