-------------------------------- MODULE MCBlog --------------------------------
(* Small instances of Blog for TLC, what a request could have been told, and *)
(* what holds until two writes of one blog overlap.                          *)
EXTENDS Blog, TLC

Symmetry == Permutations(User \ Author) \union Permutations(Author)
              \union Permutations(BlogId) \union Permutations(CommentId)
              \union Permutations(Call)

VARIABLES
  sight,      \* history: Call -> the authors visible to its user at some moment of it
  overlapped  \* history: two writes of one blog have been in progress at once

Visible(c) == {a \in Author : IsFollowing(call[c].user, a)}
Writing    == Saving \union {"askComment"}

MCInit == Init /\ sight = [c \in Call |-> {}] /\ overlapped = FALSE
MCNext ==
  /\ Next
  /\ sight' = [c \in Call |-> IF At(c, "idle")' THEN {}
                              ELSE sight[c] \union Visible(c)']
  /\ overlapped' = (overlapped \/
       \E c, d \in Call : /\ c # d
                          /\ {call'[c].at, call'[d].at} \subseteq Writing
                          /\ call'[c].blog = call'[d].blog)
MCSpec == MCInit /\ [][MCNext]_<<vars, sight, overlapped>>

\* An answer carries a blog only if its author was visible to the user at some
\* moment of the request, whatever is followed and unfollowed around it
\* (BlogService.java:41-43, 51).
SeenWhenVisible ==
  [][\A c \in Call : Read(c) => \A b \in answer' : blogs[b].author \in sight[c]]_vars

\* "Morate zapratiti autora da biste ostavili komentar" (you must follow the author
\* to leave a comment, BlogService.java:70): the author was followed at some moment
\* of the request that saves the comment.
CommentWhenFollowing ==
  [][\A c \in Call : CommentSave(c) => call[c].doc.author \in sight[c]]_vars

\* Until two writes of one blog overlap, comments, edits and the likes of others
\* stay, whatever is read, followed or written to other blogs meanwhile
\* (BlogService.java:77, 92, 99-103).
SerialWritesKept == [][~overlapped => CommentsKept /\ LikesKept]_vars
===============================================================================
