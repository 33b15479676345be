SPECIFICATION Spec
CONSTANTS
  p1 = p1
  p2 = p2
  p3 = p3
  q1 = q1
  q2 = q2
  r1 = r1
  r2 = r2
  f1 = f1
  Posts = {p1, p2, p3}
  Queues = {q1, q2}
  Requests = {r1, r2}
  Forms = {f1}
  Slots = {1, 2, 3}
  HandTimes = {2}
  MaxTime = 1
  MaxEdits = 1
SYMMETRY Interchangeable
INVARIANTS   FullMeansFull
PROPERTIES LadderKeepsOrder
