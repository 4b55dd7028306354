\* Two blogs, two requests in flight at once.
SPECIFICATION MCSpec
CONSTANTS
  BlogId = {b1, b2}
  MaxRequests = 2
  None = None
SYMMETRY Symmetry
INVARIANTS
  TypeOK
  
  WaitingOfTheBlog
  WaitingCards
