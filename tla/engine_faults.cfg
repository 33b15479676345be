SPECIFICATION Spec
CONSTANTS
  x1 = x1
  x2 = x2
  a = a
  b = b
  e1 = e1
  e2 = e2
  u1 = u1
  u2 = u2
  Posts = {x1}
  PlatformPosts = {a}
  PostOf <- OnePost
  Engines = {e1}
  Users = {u1, u2}
  MaxRetries = 1
  RetryBackoff <- NoBackoff
  MaxDue = 10
  MaxConcurrentPosts = 2
  Acts = {"cancel", "reschedule", "compose", "chip", "mark"}
  AtomicRequests = FALSE
  Faults = {"crash"}
  MaxTime = 0
  MaxEdits = 2
INVARIANTS PublishedIsLive OncePerOrder
SYMMETRY Users2
