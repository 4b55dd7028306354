------------------------------ MODULE MCBlogPage ------------------------------
(* Small instances of BlogPage for TLC, and what holds for a user who waits. *)
EXTENDS BlogPage, TLC

Symmetry == Permutations(BlogId)

VARIABLES
  closed,  \* history: a blog was closed while a request about it was in flight
  raced,   \* history: a blog was created while the list was loaded
  created  \* history: the blogs that the page was told it created, until raced

MCInit == Init /\ closed = FALSE /\ raced = FALSE /\ created = {}
MCNext ==
  /\ Next
  /\ IF Leave
       THEN closed' = FALSE /\ raced' = FALSE /\ created' = {}
       ELSE /\ closed' = (closed \/ (CloseBlog /\ Flight({"like", "comment", "edit"}) # {}))
            /\ raced' = (raced \/ (Flight({"list"})' # {} /\ Flight({"create"})' # {}))
            /\ created' = IF raced' THEN {} ELSE created \union
                 {m.blog : m \in {m \in net \ net' : m.kind = "create" /\ m.at = "ok"}}
MCSpec == MCInit /\ [][MCNext]_<<vars, closed, raced, created>>

\* Until a blog is closed before its answers are there, what is shown of a blog is
\* of that blog (blog.component.ts:114-124, 139, 172).
WaitingOfTheBlog == closed \/ OfTheBlog

\* Until a blog is created while the list is on its way, no blog has two cards and
\* every blog this page created has one, through failed loads and retries
\* (blog.component.ts:66, 212).
WaitingCards ==
  raced \/ (OneCard /\ \A b \in created : CardOf(b) # 0)
===============================================================================
