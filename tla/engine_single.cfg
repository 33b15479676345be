SPECIFICATION Spec
CONSTANTS
  x1 = x1
  x2 = x2
  a = a
  b = b
  e1 = e1
  e2 = e2
  u1 = u1
  u2 = u2
  Posts = {x1}
  PlatformPosts = {a, b}
  PostOf <- OnePost
  Engines = {e1}
  Users = {u1}
  MaxRetries = 1
  RetryBackoff <- ShortBackoff
  MaxDue = 10
  MaxConcurrentPosts = 2
  Acts = {"schedule", "cancel", "reschedule", "compose", "hold", "chip"}
  AtomicRequests = TRUE
  Faults = {}
  MaxTime = 2
  MaxEdits = 2
INVARIANTS TypeOK AtMostOnce PublishingIsOwned RetryBudget ParentReflectsChildren CommentFollowsFirstTry
SYMMETRY Siblings2
