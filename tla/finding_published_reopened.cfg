SPECIFICATION Spec
CONSTANTS
  x1 = x1
  x2 = x2
  a = a
  b = b
  e1 = e1
  e2 = e2
  u1 = u1
  u2 = u2
  Posts = {x1}
  PlatformPosts = {a, b}
  PostOf <- OnePost
  Engines = {e1}
  Users = {u1}
  MaxRetries = 2
  RetryBackoff <- LongBackoff
  MaxDue = 10
  MaxConcurrentPosts = 2
  Acts = {"cancel"}
  AtomicRequests = FALSE
  Faults = {}
  MaxTime = 1
  MaxEdits = 1
PROPERTY PublishedIsTerminal
