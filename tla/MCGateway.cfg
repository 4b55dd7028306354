\* A client with every request, and two services that stop: one that the gateway waits
\* for when it starts, and one that it does not wait for.
SPECIFICATION LiveSpec
CONSTANTS
  Client = {c1}
  Fragile = {"payments", "tours"}
  Request <- EveryRequest
INVARIANTS
  AnswerTells
  PagesReach
PROPERTIES
  Recovers
