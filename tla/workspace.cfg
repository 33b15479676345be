SPECIFICATION Spec
CONSTANTS
  Callers = {r1, r2, r3}
  Keys = {"k"}
  Limit = 1
  Workers = {w1, w2}
  MaxEdits = 2
  TTL = 2
  Objects = {u1, u2}
  Presigned = {u1}
  Assets = {a1, a2}
  Handlers = {c1, c2}
  Quota = 2
  RecentDays = 2
  Interval = 1
  MaxDays = 3
  Requests = {q1, q2}
  Users = {p1, p2}
  Invitations = {i1}
  Links = {l1, l2, l3}
  Workspaces = {s1, s2, s3}
  First = s1
  Accounts = {x1, x2}
  MaxTime = 1
  MaxPosted = 2
  MaxHour = 3
  MaxMessages = 2
  MaxReplies = 1
  MaxKills = 0
CHECK_DEADLOCK FALSE
INVARIANTS TypeOK CreatesAreCounted FilesAreKept WhatIsShownIsTrue AccessIsAccountedFor DashboardIsTrue
