\* Two requests to the blog service at once, an author and a reader.
SPECIFICATION MCSpec
CONSTANTS
  User = {u1, u2}
  Author = {u1}
  BlogId = {b1}
  CommentId = {k1, k2}
  Call = {c1, c2}
SYMMETRY Symmetry
INVARIANTS
  OneForm
PROPERTIES
  SeenWhenVisible
  CommentWhenFollowing
  SerialWritesKept
