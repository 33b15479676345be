SPECIFICATION FairSpec
CONSTANTS
  x1 = x1
  x2 = x2
  a = a
  b = b
  e1 = e1
  e2 = e2
  u1 = u1
  u2 = u2
  Posts = {x1, x2}
  PlatformPosts = {a, b}
  PostOf <- TwoPosts
  Engines = {e1}
  Users = {u1}
  MaxRetries = 1
  RetryBackoff <- ShortBackoff
  MaxDue = 1
  MaxConcurrentPosts = 2
  Acts = {"reschedule", "compose", "cancel"}
  AtomicRequests = TRUE
  Faults = {"lostReply", "logError"}
  MaxTime = 1
  MaxEdits = 1
PROPERTIES Settles PublishingEnds
