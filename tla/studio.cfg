SPECIFICATION Spec
CONSTANTS
  Nil = Nil
  Requests = {q1, q2}
  Pages = {g1}
  Posts = {p1, p2, p3}
  Written = {p1}
  Library = {l1}
  Shared = {s1}
  Files = {f1}
  MaxClicks = 2
  MaxOverlaps = 1
  Themes = {i1}
  Columns = {c1, c2, c3}
  Pictures = {a, b}
  Planners = {r1, r2, r3}
  Defaults = 1
  Workers = {w1, w2}
  Urls = {u1}
  TTL = 1
  MaxEvents = 1
  MaxFeeds = 2
  Sheets = {h1, h2}
  NumRows = 2
  MaxConfirms = 2
  Accounts = {x1, x2}
  OldRows = {x2}
  Slots = {o1}
  Hours = 2
  Week = 2
  NumDays = 2
  MaxOffset = 1
  MaxTime = 1
  MaxEdits = 3
  MaxFolders = 4
  Items = {m1}
  Measured = {t1}
  Period = 2
  MaxDays = 5
  MaxCount = 2
  MaxRises = 3
CHECK_DEADLOCK FALSE
INVARIANTS TypeOK  FiguresAddUp
 
