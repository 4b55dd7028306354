--------------------------------- MODULE Blog ---------------------------------
(*****************************************************************************)
(* Blogs, their comments and likes (BlogService), and who may see them: the  *)
(* graph of the followers service (followerService.js), which the blog       *)
(* service asks over HTTP (FollowerClient).                                  *)
(*                                                                           *)
(* A request on a blog loads the whole document, may ask followers, changes  *)
(* the loaded copy and saves the copy: MongoRepository.save replaces the     *)
(* document by _id, and nothing in it is a version.  Every database call and *)
(* every question to followers is a step.  Titles and texts are left out; of *)
(* a comment's text only whether it was edited.                              *)
(*****************************************************************************)
EXTENDS Naturals, FiniteSets

CONSTANTS
  User,       \* usernames
  Author,     \* the users who write blogs
  BlogId,     \* ids of blogs, each inserted once (a bound)
  CommentId,  \* UUIDs of comments, each drawn once (a bound)
  Call        \* requests to the blog service in progress at once

ASSUME AuthorAssumption == Author \subseteq User

VARIABLES
  follows,    \* FOLLOWS edges: <<follower, target>>
  blogs,      \* the documents: a function from their ids
  drawn,      \* the comment ids drawn so far
  call,       \* Call -> the next step of the request and what it has read
  answer      \* the blogs in the answer that the last step gave, if it gave one

vars == <<follows, blogs, drawn, call, answer>>

Comment  == [id : CommentId, by : User, edited : BOOLEAN]
Document == [author : Author, comments : SUBSET Comment, likes : SUBSET User]

Blogs == DOMAIN blogs

Idle   == [at |-> "idle"]
Saving == {"comment", "edit", "like"}   \* about to save the changed copy
CallState ==
  {Idle}
  \union [at : {"list"}, user : User, authors : SUBSET User]
  \union [at : {"askGet", "askComment"} \union Saving, user : User, blog : BlogId, doc : Document]

TypeOK ==
  /\ follows \subseteq User \X Author
  /\ Blogs \subseteq BlogId /\ blogs \in [Blogs -> Document]
  /\ drawn \subseteq CommentId
  /\ call \in [Call -> CallState]
  /\ answer \subseteq Blogs

Init ==
  /\ follows = {}
  /\ blogs = <<>>
  /\ drawn = {}
  /\ call = [c \in Call |-> Idle]
  /\ answer = {}

At(c, step) == call[c].at = step
End(c)      == call' = [call EXCEPT ![c] = Idle]
NoAnswer    == answer' = {}

\* isFollowing, and FollowerClient's own case of one's own blogs.
IsFollowing(u, a) == u = a \/ <<u, a>> \in follows

\* Followers says that the user of the request may see the loaded blog.
Permitted(c) == IsFollowing(call[c].user, call[c].doc.author)

-------------------------------------------------------------------------------
(* followerService: each operation is one Cypher statement.  Edges to users  *)
(* who write nothing decide nothing and are left out.                        *)

\* followUser: the username of the User nodes is unique, so MERGE makes one edge.
Follow(u, a) ==
  /\ u # a
  /\ follows' = follows \union {<<u, a>>}
  /\ NoAnswer
  /\ UNCHANGED <<blogs, drawn, call>>

\* unfollowUser.
Unfollow(u, a) ==
  /\ <<u, a>> \in follows
  /\ follows' = follows \ {<<u, a>>}
  /\ NoAnswer
  /\ UNCHANGED <<blogs, drawn, call>>

-------------------------------------------------------------------------------
(* Reading.                                                                  *)

\* getAllBlogsForUser asks for the visible authors: u and whom u follows.
ListAsk(c, u) ==
  /\ At(c, "idle")
  /\ call' = [call EXCEPT ![c] = [at |-> "list", user |-> u,
                                  authors |-> {a \in User : IsFollowing(u, a)}]]
  /\ NoAnswer
  /\ UNCHANGED <<follows, blogs, drawn>>

\* Mutant of ListFind: the filter keeps everything.
ListFindAll(c) ==
  /\ At(c, "list")
  /\ answer' = Blogs
  /\ End(c)
  /\ UNCHANGED <<follows, blogs, drawn>>

\* findAll, filtered by the authors learnt before.
ListFind(c) ==
  /\ At(c, "list")
  /\ answer' = {b \in Blogs : blogs[b].author \in call[c].authors}
  /\ End(c)
  /\ UNCHANGED <<follows, blogs, drawn>>

\* findById, for a request that goes on with a step.
Load(c, step, u, b) ==
  /\ At(c, "idle")
  /\ call' = [call EXCEPT ![c] = [at |-> step, user |-> u, blog |-> b, doc |-> blogs[b]]]
  /\ NoAnswer
  /\ UNCHANGED <<follows, blogs, drawn>>

\* getBlogByIdForUser: isFollowing answers; a refused request ends without the blog.
GetAsk(c) ==
  /\ At(c, "askGet")
  /\ answer' = IF Permitted(c) THEN {call[c].blog} ELSE {}
  /\ End(c)
  /\ UNCHANGED <<follows, blogs, drawn>>

-------------------------------------------------------------------------------
(* Writing.                                                                  *)

\* createBlog: one insertion.
CreateBlog(u) ==
  /\ \E b \in BlogId \ Blogs :
       blogs' = [x \in Blogs \union {b} |->
                   IF x = b THEN [author |-> u, comments |-> {}, likes |-> {}]
                   ELSE blogs[x]]
  /\ NoAnswer
  /\ UNCHANGED <<follows, drawn, call>>

\* Mutant of Save: what is new in the lists is added to the stored ones ($push).
SavePush(c, d) ==
  /\ blogs' = [blogs EXCEPT ![call[c].blog] =
                 [d EXCEPT !.comments = @ \union blogs[call[c].blog].comments]]
  /\ End(c)
  /\ NoAnswer
  /\ UNCHANGED follows

\* MongoRepository.save: the document becomes d.
Save(c, d) ==
  /\ blogs' = [blogs EXCEPT ![call[c].blog] = d]
  /\ End(c)
  /\ NoAnswer
  /\ UNCHANGED follows

\* Mutant of CommentAsk: the answer is not looked at.
CommentAskInVain(c) ==
  /\ At(c, "askComment")
  /\ call' = [call EXCEPT ![c].at = "comment"]
  /\ NoAnswer
  /\ UNCHANGED <<follows, blogs, drawn>>

\* addComment: isFollowing answers; a refused request ends.
CommentAsk(c) ==
  /\ At(c, "askComment")
  /\ IF Permitted(c) THEN call' = [call EXCEPT ![c].at = "comment"] ELSE End(c)
  /\ NoAnswer
  /\ UNCHANGED <<follows, blogs, drawn>>

CommentSave(c) ==
  /\ At(c, "comment")
  /\ \E k \in CommentId \ drawn :
       LET new == [id |-> k, by |-> call[c].user, edited |-> FALSE] IN
         /\ drawn' = drawn \union {k}
         /\ Save(c, [call[c].doc EXCEPT !.comments = @ \union {new}])

\* Comments of the loaded blog that its user may edit.
Own(c) == {k \in call[c].doc.comments : k.by = call[c].user}

\* Mutant of EditSave: the list is built anew from the edited comment.
EditSaveOnly(c) ==
  /\ At(c, "edit")
  /\ \E k \in Own(c) :
       Save(c, [call[c].doc EXCEPT !.comments = {[k EXCEPT !.edited = TRUE]}])
  /\ UNCHANGED drawn

\* editComment: the comment is there and it is the user's; otherwise Fail.
EditSave(c) ==
  /\ At(c, "edit")
  /\ \E k \in Own(c) :
       Save(c, [call[c].doc EXCEPT !.comments = (@ \ {k}) \union {[k EXCEPT !.edited = TRUE]}])
  /\ UNCHANGED drawn

\* likeBlog, for anyone who knows the id: the like is taken back or added.
LikeSave(c) ==
  /\ At(c, "like")
  /\ LET u == call[c].user IN
       Save(c, [call[c].doc EXCEPT !.likes = IF u \in @ THEN @ \ {u} ELSE @ \union {u}])
  /\ UNCHANGED drawn

\* The request is refused, a database or followers does not answer, or the process
\* stops: nothing is saved.
Fail(c) ==
  /\ ~At(c, "idle")
  /\ End(c)
  /\ NoAnswer
  /\ UNCHANGED <<follows, blogs, drawn>>

-------------------------------------------------------------------------------

Read(c)  == ListFind(c) \/ GetAsk(c)
Write(c) == CommentAsk(c) \/ CommentSave(c) \/ EditSave(c) \/ LikeSave(c)

Next ==
  \/ \E u \in User, a \in Author : Follow(u, a) \/ Unfollow(u, a)
  \/ \E u \in Author : CreateBlog(u)
  \/ \E c \in Call, u \in User :
       \/ ListAsk(c, u)
       \/ \E b \in Blogs, step \in {"askGet", "askComment", "edit", "like"} : Load(c, step, u, b)
  \/ \E c \in Call : Read(c) \/ Write(c) \/ Fail(c)

Spec == Init /\ [][Next]_vars

-------------------------------------------------------------------------------
(* Properties that hold for any number of overlapping requests.              *)

\* No blog holds two forms of a comment, edited and not, whatever copies are saved
\* over one another: a save is a whole document (BlogService.java:78, 93).
OneForm ==
  \A b \in Blogs : \A k, l \in blogs[b].comments : k.id = l.id => k = l

-------------------------------------------------------------------------------
(* Properties that hold until two writes of one blog overlap (see MCBlog).   *)

\* A comment that was answered with 201 stays, and so does the mark of an edit
\* (BlogService.java:77, 92).
CommentsKept ==
  \A b \in Blogs : \A k \in blogs[b].comments :
    \E l \in blogs'[b].comments : l.id = k.id /\ (k.edited => l.edited)

\* A like, or taking one back, is one user's: a step changes the likes of one user
\* at most (BlogService.java:99-103).
LikesKept ==
  \A b \in Blogs :
    LET old == blogs[b].likes
        new == blogs'[b].likes
    IN  Cardinality((old \ new) \union (new \ old)) <= 1
===============================================================================
