------------------------------ MODULE BlogProofs -------------------------------
(*****************************************************************************)
(* The blog service for any number of users, blogs and overlapping requests. *)
(*                                                                           *)
(* A save puts a copy in the place of the document.  It is a document of one *)
(* form because every copy is, stored or loaded: a comment that is added has *)
(* an id that none of them holds (Sound: their ids were drawn before).       *)
(*****************************************************************************)
EXTENDS MCBlog, FiniteSetTheorems, TLAPS

\* A document whose comments were drawn and have one form each.
Sound(d) ==
  /\ d \in Document
  /\ \A k \in d.comments : k.id \in drawn
  /\ \A k, l \in d.comments : k.id = l.id => k = l

WithCopy == {"askGet", "askComment"} \union Saving

\* The copy that a request has loaded, of a blog that is stored.
Loaded(r) ==
  /\ r.at \in WithCopy /\ r.user \in User /\ r.blog \in Blogs
  /\ r = [at |-> r.at, user |-> r.user, blog |-> r.blog, doc |-> r.doc]
  /\ Sound(r.doc)

Listing(r) ==
  /\ r.at = "list"
  /\ r \in [at : {"list"}, user : User, authors : SUBSET User]

Stored ==
  /\ follows \subseteq User \X Author
  /\ Blogs \subseteq BlogId /\ blogs \in [Blogs -> Document]
  /\ drawn \subseteq CommentId
  /\ answer \subseteq Blogs
  /\ \A b \in Blogs : Sound(blogs[b])

Requests ==
  /\ call = [c \in Call |-> call[c]]
  /\ \A c \in Call : call[c] = Idle \/ Listing(call[c]) \/ Loaded(call[c])

BlogInv == Stored /\ Requests

LEMMA Typed == BlogInv => TypeOK
<1> SUFFICES ASSUME BlogInv PROVE TypeOK
  OBVIOUS
<1>1. ASSUME NEW c \in Call  PROVE call[c] \in CallState
  <2>1. CASE call[c] = Idle
    BY <2>1 DEF CallState
  <2>2. CASE Listing(call[c])
    BY <2>2 DEF CallState, Listing
  <2>3. CASE Loaded(call[c])
    <3> DEFINE r == call[c]
    <3>1. /\ r.at \in WithCopy /\ r.user \in User /\ r.blog \in BlogId /\ r.doc \in Document
          /\ r = [at |-> r.at, user |-> r.user, blog |-> r.blog, doc |-> r.doc]
      BY <2>3 DEF BlogInv, Stored, Loaded, Sound
    <3> HIDE DEF r
    <3>2. r \in [at : WithCopy, user : User, blog : BlogId, doc : Document]
      BY <3>1
    <3> QED  BY <3>2 DEF r, CallState, WithCopy
  <2> QED  BY <1>1, <2>1, <2>2, <2>3 DEF BlogInv, Requests
<1>2. call \in [Call -> CallState]
  BY <1>1 DEF BlogInv, Requests
<1> QED  BY <1>2 DEF TypeOK, BlogInv, Stored

\* What is sound stays sound when more ids are drawn.
LEMMA SoundStays ==
  ASSUME NEW d, Sound(d), drawn \subseteq drawn'
  PROVE  Sound(d)'
BY DEF Sound

LEMMA LoadedStays ==
  ASSUME NEW r, Loaded(r), drawn \subseteq drawn', Blogs \subseteq Blogs'
  PROVE  Loaded(r)'
<1>1. Sound(r.doc)'
  BY SoundStays DEF Loaded, Sound
<1> QED  BY <1>1 DEF Loaded

\* The other requests are not touched when one goes on.
LEMMA RequestsGoOn ==
  ASSUME Requests, NEW c \in Call, NEW r, call' = [call EXCEPT ![c] = r],
         drawn \subseteq drawn', Blogs \subseteq Blogs',
         r = Idle \/ Listing(r) \/ Loaded(r)'
  PROVE  Requests'
<1>1. ASSUME NEW d \in Call
      PROVE  (call[d] = Idle \/ Listing(call[d]) \/ Loaded(call[d]))'
  <2>1. CASE d = c
    <3>1. call'[d] = r
      BY <2>1 DEF Requests
    <3> QED  BY <3>1 DEF Loaded, Sound
  <2>2. CASE d # c
    <3>1. PICK x : x = call[d]
      OBVIOUS
    <3>2. call'[d] = x
      BY <2>2, <3>1 DEF Requests
    <3>3. x = Idle \/ Listing(x) \/ Loaded(x)'
      BY <3>1, LoadedStays DEF Requests
    <3> QED  BY <3>2, <3>3 DEF Loaded, Sound
  <2> QED  BY <2>1, <2>2
<1>2. call' = [d \in Call |-> call'[d]]
  BY DEF Requests
<1> QED  BY <1>1, <1>2 DEF Requests

\* A request that ends.
LEMMA EndKeeps ==
  ASSUME Requests, NEW c \in Call, End(c), drawn \subseteq drawn', Blogs \subseteq Blogs'
  PROVE  Requests'
BY RequestsGoOn DEF End

-------------------------------------------------------------------------------

\* Whoever follows whom, blogs and requests stay as they are.
LEMMA GraphSteps ==
  ASSUME BlogInv, NEW u \in User, NEW a \in Author, Follow(u, a) \/ Unfollow(u, a)
  PROVE  BlogInv'
<1>1. UNCHANGED <<blogs, drawn, call>> /\ answer' = {} /\ follows' \subseteq User \X Author
  BY DEF BlogInv, Stored, Follow, Unfollow, NoAnswer
<1>2. Stored'
  BY <1>1, SoundStays DEF BlogInv, Stored, Blogs
<1>3. Requests'
  BY <1>1, LoadedStays DEF BlogInv, Requests, Blogs
<1> QED  BY <1>2, <1>3 DEF BlogInv

\* A new blog is empty.
LEMMA CreateStep ==
  ASSUME BlogInv, NEW u \in Author, CreateBlog(u)
  PROVE  BlogInv'
<1> DEFINE empty == [author |-> u, comments |-> {}, likes |-> {}]
<1>1. PICK b \in BlogId \ Blogs :
        blogs' = [x \in Blogs \union {b} |-> IF x = b THEN empty ELSE blogs[x]]
  BY DEF CreateBlog
<1>2. UNCHANGED <<follows, drawn, call>> /\ answer' = {} /\ Blogs' = Blogs \union {b}
  BY <1>1 DEF CreateBlog, NoAnswer, Blogs
<1>3. Sound(empty)
  BY AuthorAssumption DEF Sound, Document
<1>4. \A x \in Blogs' : Sound(blogs'[x])
  <2> HIDE DEF empty
  <2> QED  BY <1>1, <1>2, <1>3 DEF BlogInv, Stored
<1>5. blogs' \in [Blogs' -> Document]
  <2> HIDE DEF empty
  <2> QED  BY <1>1, <1>2, <1>4 DEF Sound
<1>6. Stored'
  BY <1>2, <1>4, <1>5 DEF BlogInv, Stored, Sound
<1>7. Requests'
  BY <1>2, LoadedStays DEF BlogInv, Requests
<1> QED  BY <1>6, <1>7 DEF BlogInv

\* A request starts or goes on without a write.
LEMMA ReadSteps ==
  ASSUME BlogInv, NEW c \in Call, UNCHANGED <<follows, blogs, drawn>>, answer' \subseteq Blogs,
         NEW r, call' = [call EXCEPT ![c] = r], r = Idle \/ Listing(r) \/ Loaded(r)
  PROVE  BlogInv'
<1>1. Blogs' = Blogs
  BY DEF Blogs
<1>2. Stored'
  BY <1>1, SoundStays DEF BlogInv, Stored
<1>3. Loaded(r) => Loaded(r)'
  BY <1>1, LoadedStays
<1>4. Requests'
  BY <1>1, <1>3, RequestsGoOn DEF BlogInv
<1> QED  BY <1>2, <1>4 DEF BlogInv

\* A sound copy takes the place of the document.
LEMMA SaveKeeps ==
  ASSUME BlogInv, NEW c \in Call, Loaded(call[c]), NEW d, Save(c, d), Sound(d)',
         drawn \subseteq drawn', drawn' \subseteq CommentId
  PROVE  BlogInv'
<1> DEFINE b == call[c].blog
<1>1. b \in Blogs /\ blogs' = [blogs EXCEPT ![b] = d] /\ UNCHANGED follows /\ answer' = {}
  BY DEF Loaded, Save, NoAnswer
<1>2. Blogs' = Blogs
  BY <1>1 DEF Blogs
<1>3. ASSUME NEW x \in Blogs  PROVE Sound(blogs[x])'
  <2>1. CASE x = b
    <3>1. blogs'[x] = d
      BY <1>1, <2>1 DEF BlogInv, Stored
    <3> QED  BY <3>1 DEF Sound
  <2>2. CASE x # b
    <3>1. blogs'[x] = blogs[x]
      BY <1>1, <2>2 DEF BlogInv, Stored
    <3>2. Sound(blogs[x])
      BY DEF BlogInv, Stored
    <3> QED  BY <3>1, <3>2 DEF Sound
  <2> QED  BY <2>1, <2>2
<1>4. Stored'
  <2>1. blogs' \in [Blogs -> Document]
    BY <1>1, <1>3 DEF BlogInv, Stored, Sound
  <2> QED  BY <1>1, <1>2, <1>3, <2>1 DEF BlogInv, Stored
<1>5. Requests'
  BY <1>2, EndKeeps DEF BlogInv, Save
<1> QED  BY <1>4, <1>5 DEF BlogInv

-------------------------------------------------------------------------------

LEMMA ListSteps ==
  ASSUME BlogInv, NEW c \in Call, (\E u \in User : ListAsk(c, u)) \/ ListFind(c)
  PROVE  BlogInv'
<1>1. ASSUME NEW u \in User, ListAsk(c, u)  PROVE BlogInv'
  <2> DEFINE r == [at |-> "list", user |-> u, authors |-> {a \in User : IsFollowing(u, a)}]
  <2>1. Listing(r)
    BY DEF Listing
  <2>2. call' = [call EXCEPT ![c] = r] /\ answer' = {} /\ UNCHANGED <<follows, blogs, drawn>>
    BY <1>1 DEF ListAsk, NoAnswer
  <2> HIDE DEF r
  <2> QED  BY <2>1, <2>2, ReadSteps
<1>2. CASE ListFind(c)
  BY <1>2, ReadSteps DEF ListFind, End
<1> QED  BY <1>1, <1>2

LEMMA LoadStep ==
  ASSUME BlogInv, NEW c \in Call, NEW u \in User, NEW b \in Blogs,
         NEW step \in {"askGet", "askComment", "edit", "like"}, Load(c, step, u, b)
  PROVE  BlogInv'
<1> DEFINE r == [at |-> step, user |-> u, blog |-> b, doc |-> blogs[b]]
<1>1. Loaded(r)
  BY DEF Loaded, WithCopy, Saving, BlogInv, Stored
<1>2. call' = [call EXCEPT ![c] = r] /\ answer' = {} /\ UNCHANGED <<follows, blogs, drawn>>
  BY DEF Load, NoAnswer
<1>3. PICK x : x = r
  OBVIOUS
<1> HIDE DEF r
<1> QED  BY <1>1, <1>2, <1>3, ReadSteps

\* A request with a step of its own has loaded its blog.
LEMMA HasLoaded ==
  ASSUME BlogInv, NEW c \in Call, call[c].at \in WithCopy
  PROVE  Loaded(call[c])
BY DEF BlogInv, Requests, Listing, Idle, WithCopy, Saving

LEMMA AskSteps ==
  ASSUME BlogInv, NEW c \in Call, GetAsk(c) \/ CommentAsk(c) \/ Fail(c)
  PROVE  BlogInv'
<1>1. CASE GetAsk(c)
  <2>1. call[c].blog \in Blogs
    BY <1>1, HasLoaded DEF GetAsk, At, Loaded, WithCopy
  <2> QED  BY <1>1, <2>1, ReadSteps DEF GetAsk, End
<1>2. CASE CommentAsk(c)
  <2>1. Loaded(call[c])
    BY <1>2, HasLoaded DEF CommentAsk, At, WithCopy
  <2> DEFINE r == [call[c] EXCEPT !.at = "comment"]
  <2>2. Loaded(r)
    BY <2>1 DEF Loaded, WithCopy, Saving
  <2>3. PICK x : x = r
    OBVIOUS
  <2>4. call' = [call EXCEPT ![c] = x] \/ End(c)
    <3>1. CASE Permitted(c)
      <4>1. call' = [call EXCEPT ![c].at = "comment"]
        BY <1>2, <3>1 DEF CommentAsk
      <4> QED  BY <2>3, <4>1
    <3>2. CASE ~Permitted(c)
      BY <1>2, <3>2 DEF CommentAsk
    <3> QED  BY <3>1, <3>2
  <2>5. answer' = {} /\ UNCHANGED <<follows, blogs, drawn>>
    BY <1>2 DEF CommentAsk, NoAnswer
  <2> HIDE DEF r
  <2> QED  BY <2>2, <2>3, <2>4, <2>5, ReadSteps DEF End
<1>3. CASE Fail(c)
  BY <1>3, ReadSteps DEF Fail, End, NoAnswer
<1> QED  BY <1>1, <1>2, <1>3

\* The new comment's id was not drawn before.
LEMMA CommentStep ==
  ASSUME BlogInv, NEW c \in Call, CommentSave(c)
  PROVE  BlogInv'
<1>1. Loaded(call[c])
  BY HasLoaded DEF CommentSave, At, WithCopy, Saving
<1> DEFINE new(k) == [id |-> k, by |-> call[c].user, edited |-> FALSE]
<1>2. PICK k \in CommentId \ drawn :
        /\ drawn' = drawn \union {k}
        /\ Save(c, [call[c].doc EXCEPT !.comments = @ \union {new(k)}])
  BY DEF CommentSave
<1>3. PICK d : d = [call[c].doc EXCEPT !.comments = @ \union {new(k)}]
  OBVIOUS
<1>4. /\ d = [author |-> call[c].doc.author, likes |-> call[c].doc.likes,
                 comments |-> call[c].doc.comments \union {new(k)}]
      /\ new(k) \in Comment /\ new(k).id = k
  BY <1>1, <1>3 DEF Loaded, Sound, Document, Comment
<1>5. Sound(d)'
  <2> HIDE DEF new
  <2> QED  BY <1>1, <1>2, <1>4 DEF Loaded, Sound, Document
<1>6. drawn' \subseteq CommentId
  BY <1>2 DEF BlogInv, Stored
<1> QED  BY <1>1, <1>2, <1>3, <1>5, <1>6, SaveKeeps

\* An edited comment takes the place of the one with its id.
LEMMA EditStep ==
  ASSUME BlogInv, NEW c \in Call, EditSave(c)
  PROVE  BlogInv'
<1>1. Loaded(call[c])
  BY HasLoaded DEF EditSave, At, WithCopy, Saving
<1>2. PICK k \in Own(c) :
        Save(c, [call[c].doc EXCEPT !.comments = (@ \ {k}) \union {[k EXCEPT !.edited = TRUE]}])
  BY DEF EditSave
<1>3. PICK new : new = [k EXCEPT !.edited = TRUE]
  OBVIOUS
<1>4. PICK d : d = [call[c].doc EXCEPT !.comments = (@ \ {k}) \union {new}]
  OBVIOUS
<1>5. k \in call[c].doc.comments /\ new \in Comment /\ new.id = k.id
  BY <1>1, <1>3 DEF Own, Loaded, Sound, Document, Comment
<1>6. d = [author |-> call[c].doc.author, likes |-> call[c].doc.likes,
           comments |-> (call[c].doc.comments \ {k}) \union {new}]
  BY <1>1, <1>4 DEF Loaded, Sound, Document
<1>7. drawn' = drawn
  BY DEF EditSave
<1>8. Sound(d)'
  BY <1>1, <1>5, <1>6, <1>7 DEF Loaded, Sound, Document
<1>9. drawn' \subseteq CommentId
  BY <1>7 DEF BlogInv, Stored
<1> QED  BY <1>1, <1>2, <1>3, <1>4, <1>7, <1>8, <1>9, SaveKeeps

LEMMA LikeStep ==
  ASSUME BlogInv, NEW c \in Call, LikeSave(c)
  PROVE  BlogInv'
<1>1. Loaded(call[c])
  BY HasLoaded DEF LikeSave, At, WithCopy, Saving
<1>2. PICK likes \in SUBSET User : Save(c, [call[c].doc EXCEPT !.likes = likes])
  BY <1>1 DEF LikeSave, Loaded, Sound, Document
<1>3. PICK d : d = [call[c].doc EXCEPT !.likes = likes]
  OBVIOUS
<1>4. d = [author |-> call[c].doc.author, likes |-> likes, comments |-> call[c].doc.comments]
  BY <1>1, <1>3 DEF Loaded, Sound, Document
<1>5. drawn' = drawn
  BY DEF LikeSave
<1>6. Sound(d)'
  BY <1>1, <1>4, <1>5 DEF Loaded, Sound, Document
<1>7. drawn' \subseteq CommentId
  BY <1>5 DEF BlogInv, Stored
<1> QED  BY <1>1, <1>2, <1>3, <1>5, <1>6, <1>7, SaveKeeps

\* However requests overlap, stored documents and loaded copies are sound.
THEOREM BlogKept == Spec => []BlogInv
<1>1. Init => BlogInv
  BY DEF Init, BlogInv, Stored, Requests, Blogs
<1>2. BlogInv /\ UNCHANGED vars => BlogInv'
  BY DEF BlogInv, Stored, Requests, Loaded, Sound, Blogs, vars
<1>3. BlogInv /\ Next => BlogInv'
  BY GraphSteps, CreateStep, ListSteps, LoadStep, AskSteps, CommentStep, EditStep, LikeStep
  DEF Next, Read, Write
<1> QED  BY <1>1, <1>2, <1>3, PTL DEF Spec

\* Type correctness of blogs, follows and requests.
THEOREM BlogTyping == Spec => []TypeOK
  BY Typed, BlogKept, PTL

\* No blog ever holds a comment in two forms, whatever copies are saved over one
\* another (BlogService.java:78, 93).
THEOREM OneFormKept == Spec => []OneForm
<1>1. BlogInv => OneForm
  BY DEF BlogInv, Stored, Sound, OneForm
<1> QED  BY <1>1, BlogKept, PTL

-------------------------------------------------------------------------------
(* What a request could have been told, with the history of MCBlog.          *)

\* A save, by a request that has loaded the blog, of a document with its author.
LEMMA SaveSteps ==
  ASSUME BlogInv, NEW c \in Call, CommentSave(c) \/ EditSave(c) \/ LikeSave(c)
  PROVE  /\ call[c].at \in Saving /\ Loaded(call[c])
         /\ \E d : Save(c, d) /\ d.author = call[c].doc.author
<1>1. call[c].at \in Saving
  BY DEF CommentSave, EditSave, LikeSave, At, Saving
<1>2. Loaded(call[c])
  BY <1>1, HasLoaded DEF WithCopy
<1>3. call[c].doc \in Document
  BY <1>2 DEF Loaded, Sound
<1>4. ASSUME NEW S, NEW d, d = [call[c].doc EXCEPT !.comments = S]
      PROVE  d.author = call[c].doc.author
  BY <1>3, <1>4 DEF Document
<1>5. ASSUME NEW S, NEW d, d = [call[c].doc EXCEPT !.likes = S]
      PROVE  d.author = call[c].doc.author
  BY <1>3, <1>5 DEF Document
<1>6. \/ \E S : Save(c, [call[c].doc EXCEPT !.comments = S])
      \/ \E S : Save(c, [call[c].doc EXCEPT !.likes = S])
  BY DEF CommentSave, EditSave, LikeSave
<1>7. \E d : Save(c, d) /\ d.author = call[c].doc.author
  BY <1>4, <1>5, <1>6
<1> QED  BY <1>1, <1>2, <1>7

\* A request goes on by a step of its own only.
LEMMA CallChanges ==
  ASSUME BlogInv, Next, NEW c \in Call
  PROVE  \/ call'[c] = call[c]
         \/ call'[c] = Idle
         \/ \E u \in User : ListAsk(c, u)
         \/ \E u \in User, b \in Blogs, step \in {"askGet", "askComment", "edit", "like"} :
              Load(c, step, u, b)
         \/ /\ At(c, "askComment") /\ Permitted(c) /\ UNCHANGED <<follows, blogs>>
            /\ call'[c] = [call[c] EXCEPT !.at = "comment"]
<1> USE DEF BlogInv, Requests
<1>1. ASSUME NEW u \in User, NEW a \in Author, Follow(u, a) \/ Unfollow(u, a)
      PROVE  call'[c] = call[c]
  BY <1>1 DEF Follow, Unfollow
<1>2. ASSUME NEW u \in Author, CreateBlog(u)  PROVE call'[c] = call[c]
  BY <1>2 DEF CreateBlog
<1>3. ASSUME NEW x \in Call, x # c, NEW r, call' = [call EXCEPT ![x] = r]
      PROVE  call'[c] = call[c]
  BY <1>3
<1>4. ASSUME NEW x \in Call, NEW u \in User, ListAsk(x, u)
      PROVE  x = c \/ call'[c] = call[c]
  BY <1>4 DEF ListAsk
<1>5. ASSUME NEW x \in Call, NEW u \in User, NEW b \in Blogs, NEW step, Load(x, step, u, b)
      PROVE  x = c \/ call'[c] = call[c]
  BY <1>5 DEF Load
<1>6. ASSUME NEW x \in Call, End(x)  PROVE call'[c] = Idle \/ call'[c] = call[c]
  BY <1>6 DEF End
<1>7. ASSUME NEW x \in Call, CommentAsk(x), ~End(x)
      PROVE  \/ call'[c] = call[c]
             \/ /\ At(c, "askComment") /\ Permitted(c) /\ UNCHANGED <<follows, blogs>>
                /\ call'[c] = [call[c] EXCEPT !.at = "comment"]
  BY <1>7 DEF CommentAsk
<1>8. ASSUME NEW x \in Call, Read(x) \/ Write(x) \/ Fail(x)
      PROVE  End(x) \/ CommentAsk(x)
  BY <1>8 DEF Read, ListFind, GetAsk, Write, CommentSave, EditSave, LikeSave, Save, Fail
<1> QED  BY <1>1, <1>2, <1>4, <1>5, <1>6, <1>7, <1>8 DEF Next

\* A blog stays as it is until a request saves it, and keeps its author.
LEMMA BlogChanges ==
  ASSUME BlogInv, Next, NEW b \in Blogs
  PROVE  /\ b \in Blogs'
         /\ \/ blogs'[b] = blogs[b]
            \/ \E c \in Call : /\ CommentSave(c) \/ EditSave(c) \/ LikeSave(c)
                               /\ call[c].blog = b /\ call'[c] = Idle
                               /\ blogs'[b].author = call[c].doc.author
<1>1. CASE UNCHANGED blogs
  BY <1>1 DEF Blogs
<1>2. ASSUME NEW u \in Author, CreateBlog(u)  PROVE b \in Blogs' /\ blogs'[b] = blogs[b]
  BY <1>2 DEF CreateBlog, Blogs
<1>3. ASSUME NEW c \in Call, CommentSave(c) \/ EditSave(c) \/ LikeSave(c)
      PROVE  /\ b \in Blogs' /\ call'[c] = Idle
             /\ \/ blogs'[b] = blogs[b]
                \/ call[c].blog = b /\ blogs'[b].author = call[c].doc.author
  <2>1. PICK d : Save(c, d) /\ d.author = call[c].doc.author
    BY <1>3, SaveSteps
  <2> QED  BY <2>1 DEF Save, End, Blogs, BlogInv, Stored, Requests
<1>4. (\E u \in Author : CreateBlog(u)) \/ UNCHANGED blogs
      \/ \E c \in Call : CommentSave(c) \/ EditSave(c) \/ LikeSave(c)
  BY DEF Next, Follow, Unfollow, ListAsk, Load, Read, ListFind, GetAsk, Write, CommentAsk, Fail
<1> QED  BY <1>1, <1>2, <1>3, <1>4

\* What the history knows of a request: whoever it goes on for could see the authors
\* it was told of, and a copy has the author of its blog.
SightInv ==
  /\ sight = [c \in Call |-> sight[c]]
  /\ \A c \in Call :
       /\ ~At(c, "idle") => Visible(c) \subseteq sight[c]
       /\ At(c, "list") => call[c].authors \intersect Author \subseteq sight[c]
       /\ At(c, "comment") => call[c].doc.author \in sight[c]
       /\ call[c].at \in WithCopy => blogs[call[c].blog].author = call[c].doc.author

mcVars == <<vars, sight, overlapped>>

\* Behaviours with the history are behaviours of the service.
LEMMA HistoryOnly == MCSpec => Spec
<1>1. MCInit => Init
  BY DEF MCInit
<1>2. [MCNext]_mcVars => [Next]_vars
  BY DEF MCNext, mcVars
<1> QED  BY <1>1, <1>2, PTL DEF MCSpec, Spec, mcVars

\* The author of a blog is the author of the copies of it.
LEMMA AuthorStays ==
  ASSUME BlogInv, SightInv, Next, NEW b \in Blogs
  PROVE  b \in Blogs' /\ blogs'[b].author = blogs[b].author
<1>1. ASSUME NEW c \in Call, CommentSave(c) \/ EditSave(c) \/ LikeSave(c), call[c].blog = b
      PROVE  blogs[b].author = call[c].doc.author
  BY <1>1, SaveSteps DEF SightInv, WithCopy
<1> QED  BY <1>1, BlogChanges

LEMMA SightStep ==
  ASSUME BlogInv, BlogInv', SightInv, MCNext, NEW c \in Call
  PROVE  /\ ~At(c, "idle")' => Visible(c)' \subseteq sight'[c]
         /\ At(c, "list")' => call'[c].authors \intersect Author \subseteq sight'[c]
         /\ At(c, "comment")' => call'[c].doc.author \in sight'[c]
         /\ call'[c].at \in WithCopy => blogs'[call'[c].blog].author = call'[c].doc.author
<1>1. ~At(c, "idle")' => sight'[c] = sight[c] \union Visible(c)'
  <2>1. sight' = [x \in Call |-> IF At(x, "idle")' THEN {} ELSE sight[x] \union Visible(x)']
    BY DEF MCNext
  <2> QED  BY <2>1
<1>2. ~At(c, "idle")' => Visible(c)' \subseteq sight'[c]
  BY <1>1
<1>3. Next
  BY DEF MCNext
<1>4. CASE call'[c] = Idle
  BY <1>2, <1>4 DEF At, Idle, WithCopy, Saving
<1>5. CASE call'[c] = call[c]
  <2>1. At(c, "idle")' <=> At(c, "idle")
    BY <1>5 DEF At
  <2>2. ~At(c, "idle") => sight[c] \subseteq sight'[c]
    BY <1>1, <2>1
  <2>3. call[c].at \in WithCopy => Loaded(call[c])
    BY HasLoaded
  <2>4. call[c].at \in WithCopy => blogs'[call[c].blog].author = blogs[call[c].blog].author
    BY <1>3, <2>3, AuthorStays DEF Loaded
  <2> QED  BY <1>2, <1>5, <2>2, <2>4 DEF SightInv, At
<1>6. ASSUME NEW u \in User, ListAsk(c, u)
      PROVE  At(c, "list")' /\ call'[c].authors \intersect Author \subseteq sight'[c]
  <2>1. /\ At(c, "idle") /\ UNCHANGED follows
        /\ call'[c] = [at |-> "list", user |-> u, authors |-> {a \in User : IsFollowing(u, a)}]
    BY <1>6 DEF ListAsk, BlogInv, Requests
  <2>2. ~At(c, "idle")' /\ At(c, "list")'
    BY <2>1 DEF At
  <2>3. Visible(c)' = {a \in Author : IsFollowing(u, a)}
    BY <2>1 DEF Visible, IsFollowing
  <2> QED  BY <1>1, <2>1, <2>2, <2>3
<1>7. ASSUME NEW u \in User, NEW b \in Blogs, NEW step \in {"askGet", "askComment", "edit", "like"},
             Load(c, step, u, b)
      PROVE  /\ ~At(c, "list")' /\ ~At(c, "comment")'
             /\ blogs'[call'[c].blog].author = call'[c].doc.author
  BY <1>7 DEF Load, BlogInv, Requests, At
<1>8. ASSUME At(c, "askComment"), Permitted(c), UNCHANGED <<follows, blogs>>,
             call'[c] = [call[c] EXCEPT !.at = "comment"]
      PROVE  /\ ~At(c, "list")' /\ call'[c].doc.author \in sight'[c]
             /\ blogs'[call'[c].blog].author = call'[c].doc.author
  <2>1. Loaded(call[c]) /\ call[c].at = "askComment"
    BY <1>8, HasLoaded DEF At, WithCopy
  <2>2. call'[c].at = "comment" /\ call'[c].doc = call[c].doc /\ call'[c].blog = call[c].blog
    BY <1>8, <2>1 DEF Loaded
  <2>3. call[c].doc.author \in Visible(c)
    BY <1>8, <2>1 DEF Permitted, Visible, Loaded, Sound, Document
  <2>4. sight[c] \subseteq sight'[c] /\ Visible(c) \subseteq sight[c]
    BY <1>1, <2>1, <2>2 DEF At, SightInv
  <2> QED  BY <1>8, <2>1, <2>2, <2>3, <2>4 DEF SightInv, At, WithCopy
<1>9. CASE \E u \in User : ListAsk(c, u)
  BY <1>2, <1>6, <1>9 DEF At, WithCopy, Saving
<1>10. CASE \E u \in User, b \in Blogs, step \in {"askGet", "askComment", "edit", "like"} :
              Load(c, step, u, b)
  BY <1>2, <1>7, <1>10
<1> QED  BY <1>2, <1>3, <1>4, <1>5, <1>8, <1>9, <1>10, CallChanges

\* The history follows the requests.
LEMMA SightKept == MCSpec => []SightInv
<1>1. MCInit => SightInv
  BY DEF MCInit, Init, SightInv, At, Idle, WithCopy, Saving
<1>2. SightInv /\ UNCHANGED mcVars => SightInv'
  BY DEF SightInv, mcVars, vars, At, Visible, IsFollowing
<1>3. BlogInv /\ BlogInv' /\ SightInv /\ MCNext => SightInv'
  <2> SUFFICES ASSUME BlogInv, BlogInv', SightInv, MCNext  PROVE SightInv'
    OBVIOUS
  <2>1. sight' = [c \in Call |-> sight'[c]]
    <3>1. sight' = [x \in Call |-> IF At(x, "idle")' THEN {} ELSE sight[x] \union Visible(x)']
      BY DEF MCNext
    <3> QED  BY <3>1
  <2> QED  BY <2>1, SightStep DEF SightInv
<1> QED  BY <1>1, <1>2, <1>3, HistoryOnly, BlogKept, PTL DEF MCSpec, mcVars

\* An answer carries a blog only if its author was visible to the user at some
\* moment of the request (BlogService.java:41-43, 51).
THEOREM OnlyVisibleSeen == MCSpec => SeenWhenVisible
<1> DEFINE Told == \A c \in Call : Read(c) => \A b \in answer' : blogs[b].author \in sight[c]
<1>1. BlogInv /\ SightInv => Told
  <2> SUFFICES ASSUME BlogInv, SightInv, NEW c \in Call, Read(c), NEW b \in answer'
               PROVE  blogs[b].author \in sight[c]
    OBVIOUS
  <2>1. CASE ListFind(c)
    <3>1. At(c, "list") /\ b \in Blogs /\ blogs[b].author \in call[c].authors
      BY <2>1 DEF ListFind
    <3>2. blogs[b].author \in Author
      BY <3>1 DEF BlogInv, Stored, Sound, Document
    <3> QED  BY <3>1, <3>2 DEF SightInv
  <2>2. CASE GetAsk(c)
    <3>1. At(c, "askGet") /\ Permitted(c) /\ b = call[c].blog
      BY <2>2 DEF GetAsk
    <3>2. Loaded(call[c])
      BY <3>1, HasLoaded DEF At, WithCopy
    <3>3. call[c].doc.author \in Visible(c)
      BY <3>1, <3>2 DEF Permitted, Visible, Loaded, Sound, Document
    <3> QED  BY <3>1, <3>3 DEF SightInv, At, WithCopy
  <2> QED  BY <2>1, <2>2 DEF Read
<1>2. MCSpec => [][Told]_vars
  BY <1>1, SightKept, HistoryOnly, BlogKept, PTL
<1> QED  BY <1>2 DEF SeenWhenVisible

\* Whoever leaves a comment followed the author at some moment of the request
\* (BlogService.java:70).
THEOREM OnlyFollowersComment == MCSpec => CommentWhenFollowing
<1> DEFINE Followed == \A c \in Call : CommentSave(c) => call[c].doc.author \in sight[c]
<1>1. SightInv => Followed
  BY DEF SightInv, CommentSave
<1>2. MCSpec => [][Followed]_vars
  BY <1>1, SightKept, PTL
<1> QED  BY <1>2 DEF CommentWhenFollowing

-------------------------------------------------------------------------------
(* Writes of one blog that do not overlap.                                   *)

Writes(c) == call[c].at \in Writing

\* While writes of a blog have not overlapped, whoever writes it is alone with it and
\* holds it as it is stored.
AloneInv ==
  /\ overlapped \in BOOLEAN
  /\ ~overlapped =>
       /\ \A c, d \in Call : Writes(c) /\ Writes(d) /\ call[c].blog = call[d].blog => c = d
       /\ \A c \in Call : Writes(c) => call[c].doc = blogs[call[c].blog]

LEMMA AloneStep ==
  ASSUME BlogInv, AloneInv, MCNext
  PROVE  AloneInv'
<1>1. overlapped' \in BOOLEAN
  BY DEF MCNext
<1> SUFFICES ASSUME ~overlapped'
             PROVE  /\ \A c, d \in Call : Writes(c)' /\ Writes(d)' /\ call'[c].blog = call'[d].blog => c = d
                    /\ \A c \in Call : Writes(c)' => call'[c].doc = blogs'[call'[c].blog]
  BY <1>1 DEF AloneInv
<1>2. Next
  BY DEF MCNext
<1>3. /\ ~overlapped
      /\ \A c, d \in Call : Writes(c)' /\ Writes(d)' /\ call'[c].blog = call'[d].blog => c = d
  <2>1. overlapped' = (overlapped \/ \E c, d \in Call : 
           /\ c # d /\ {call'[c].at, call'[d].at} \subseteq Writing /\ call'[c].blog = call'[d].blog)
    BY DEF MCNext
  <2> QED  BY <2>1 DEF Writes, AloneInv, Writing, Saving
<1>4. ASSUME NEW c \in Call, Writes(c)'  PROVE call'[c].doc = blogs'[call'[c].blog]
  <2>1. call'[c] # Idle
    BY <1>4 DEF Writes, Writing, Saving, Idle
  <2>2. CASE call'[c] = call[c]
    <3>1. Writes(c) /\ Loaded(call[c])
      BY <1>4, <2>2, HasLoaded DEF Writes, Writing, WithCopy
    <3>2. ASSUME NEW d \in Call, CommentSave(d) \/ EditSave(d) \/ LikeSave(d),
                 call[d].blog = call[c].blog, call'[d] = Idle
          PROVE  FALSE
      BY <1>3, <2>1, <2>2, <3>1, <3>2, SaveSteps DEF AloneInv, Writes, Writing
    <3>3. blogs'[call[c].blog] = blogs[call[c].blog]
      BY <1>2, <3>1, <3>2, BlogChanges DEF Loaded
    <3> QED  BY <1>3, <2>2, <3>1, <3>3 DEF AloneInv
  <2>3. ASSUME NEW u \in User, ListAsk(c, u)  PROVE FALSE
    BY <1>4, <2>3 DEF ListAsk, BlogInv, Requests, Writes, Writing, Saving
  <2>4. ASSUME NEW u \in User, NEW b \in Blogs, NEW step, Load(c, step, u, b)
        PROVE  call'[c].doc = blogs'[call'[c].blog]
    BY <2>4 DEF Load, BlogInv, Requests
  <2>5. ASSUME At(c, "askComment"), UNCHANGED blogs, call'[c] = [call[c] EXCEPT !.at = "comment"]
        PROVE  call'[c].doc = blogs'[call'[c].blog]
    <3>1. Writes(c) /\ Loaded(call[c])
      BY <2>5, HasLoaded DEF Writes, Writing, WithCopy, At
    <3>2. call'[c].doc = call[c].doc /\ call'[c].blog = call[c].blog
      BY <2>5, <3>1 DEF Loaded
    <3> QED  BY <1>3, <2>5, <3>1, <3>2 DEF AloneInv
  <2> QED  BY <1>2, <2>1, <2>2, <2>3, <2>4, <2>5, CallChanges
<1> QED  BY <1>3, <1>4

LEMMA AloneKept == MCSpec => []AloneInv
<1>1. MCInit => AloneInv
  <2>1. ASSUME MCInit, NEW c \in Call  PROVE ~Writes(c)
    BY <2>1 DEF MCInit, Init, Writes, Writing, Saving, Idle
  <2> QED  BY <2>1 DEF MCInit, AloneInv
<1>2. AloneInv /\ UNCHANGED mcVars => AloneInv'
  BY DEF AloneInv, mcVars, vars, Writes
<1> QED  BY <1>1, <1>2, AloneStep, HistoryOnly, BlogKept, PTL DEF MCSpec, mcVars

\* A save of a document that keeps the comments and moves one like at most.
KeepsOf(old, new) ==
  /\ \A k \in old.comments : \E l \in new.comments : l.id = k.id /\ (k.edited => l.edited)
  /\ Cardinality((old.likes \ new.likes) \union (new.likes \ old.likes)) <= 1

\* Sets that differ in one member.
LEMMA OneDiffers ==
  ASSUME NEW S, NEW T, NEW u, (S \ T) \union (T \ S) \subseteq {u}
  PROVE  Cardinality((S \ T) \union (T \ S)) <= 1
<1>1. PICK D : D = (S \ T) \union (T \ S)
  OBVIOUS
<1>2. D = {} \/ D = {u}
  BY <1>1
<1>3. Cardinality(D) \in {0, 1}
  BY <1>2, FS_EmptySet, FS_Singleton
<1> QED  BY <1>1, <1>3

LEMMA SameKeeps ==
  ASSUME NEW d
  PROVE  KeepsOf(d, d)
BY OneDiffers DEF KeepsOf

\* What a request saves keeps what the copy it has loaded holds.
LEMMA SaveOfCopy ==
  ASSUME BlogInv, NEW c \in Call, CommentSave(c) \/ EditSave(c) \/ LikeSave(c)
  PROVE  \E d : Save(c, d) /\ KeepsOf(call[c].doc, d)
<1> DEFINE old == call[c].doc
<1>1. old \in Document
  BY SaveSteps DEF Loaded, Sound
<1>2. old = [author |-> old.author, comments |-> old.comments, likes |-> old.likes]
  BY <1>1 DEF Document
<1>3. CASE CommentSave(c)
  <2>1. PICK new : Save(c, [old EXCEPT !.comments = @ \union {new}])
    BY <1>3 DEF CommentSave
  <2>2. PICK d : d = [old EXCEPT !.comments = @ \union {new}]
    OBVIOUS
  <2>3. d.comments = old.comments \union {new} /\ d.likes = old.likes
    BY <1>1, <2>2 DEF Document
  <2>4. KeepsOf(old, d)
    BY <2>3, OneDiffers DEF KeepsOf
  <2> QED  BY <2>1, <2>2, <2>4
<1>4. CASE EditSave(c)
  <2>1. PICK k \in Own(c) :
          Save(c, [old EXCEPT !.comments = (@ \ {k}) \union {[k EXCEPT !.edited = TRUE]}])
    BY <1>4 DEF EditSave
  <2>2. PICK new : new = [k EXCEPT !.edited = TRUE]
    OBVIOUS
  <2>3. PICK d : d = [old EXCEPT !.comments = (@ \ {k}) \union {new}]
    OBVIOUS
  <2>4. d.comments = (old.comments \ {k}) \union {new} /\ d.likes = old.likes
    BY <1>1, <2>3 DEF Document
  <2>5. new.id = k.id /\ new.edited = TRUE
    BY <1>1, <2>2 DEF Document, Comment, Own
  <2>6. KeepsOf(old, d)
    BY <2>4, <2>5, OneDiffers DEF KeepsOf
  <2> QED  BY <2>1, <2>2, <2>3, <2>6
<1>5. CASE LikeSave(c)
  <2> DEFINE u == call[c].user
  <2>1. PICK likes : /\ likes = (IF u \in old.likes THEN old.likes \ {u} ELSE old.likes \union {u})
                     /\ Save(c, [old EXCEPT !.likes = likes])
    BY <1>5 DEF LikeSave
  <2>2. PICK d : d = [old EXCEPT !.likes = likes]
    OBVIOUS
  <2>3. d.comments = old.comments /\ d.likes = likes
    BY <1>1, <2>2 DEF Document
  <2>4. (old.likes \ likes) \union (likes \ old.likes) \subseteq {u}
    BY <2>1
  <2>5. KeepsOf(old, d)
    BY <2>3, <2>4, OneDiffers DEF KeepsOf
  <2> QED  BY <2>1, <2>2, <2>5
<1> QED  BY <1>3, <1>4, <1>5

\* The step keeps them in the stored blog: nobody else writes it.
LEMMA BlogKeeps ==
  ASSUME BlogInv, AloneInv, ~overlapped, Next, NEW b \in Blogs
  PROVE  KeepsOf(blogs[b], blogs'[b])
<1>1. CASE blogs'[b] = blogs[b]
  BY <1>1, SameKeeps
<1>2. ASSUME NEW c \in Call, CommentSave(c) \/ EditSave(c) \/ LikeSave(c), call[c].blog = b
      PROVE  KeepsOf(blogs[b], blogs'[b])
  <2>1. PICK d : Save(c, d) /\ KeepsOf(call[c].doc, d)
    BY <1>2, SaveOfCopy
  <2>2. blogs'[b] = d
    BY <1>2, <2>1 DEF Save, BlogInv, Stored
  <2>3. call[c].doc = blogs[b]
    BY <1>2, SaveSteps DEF AloneInv, Writes, Writing
  <2> QED  BY <2>1, <2>2, <2>3
<1> QED  BY <1>1, <1>2, BlogChanges

\* Until two writes of one blog overlap, comments, edits and the likes of others stay
\* (BlogService.java:77, 92, 99-103).
THEOREM WritesKept == MCSpec => SerialWritesKept
<1>1. BlogInv /\ AloneInv /\ Next => (~overlapped => CommentsKept /\ LikesKept)
  <2> SUFFICES ASSUME BlogInv, AloneInv, Next, ~overlapped  PROVE CommentsKept /\ LikesKept
    OBVIOUS
  <2>1. \A b \in Blogs : KeepsOf(blogs[b], blogs'[b])
    BY BlogKeeps
  <2> QED  BY <2>1 DEF KeepsOf, CommentsKept, LikesKept
<1> QED  BY <1>1, AloneKept, HistoryOnly, BlogKept, PTL DEF Spec, SerialWritesKept
===============================================================================
