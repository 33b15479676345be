SPECIFICATION Spec
CONSTANTS
  Users = {u1}
  Editors = {e1, e2}
  Members = {m1, m2}
  MaxDeliveries = 2
  MaxAttempts = 2
  MaxTasks = 1
  MaxKills = 1
  MaxReminders = 2
  MaxRounds = 2
  BatchLimit = 1
  MaxVersions = 2
  MaxMessages = 2
  MaxReplies = 0
  MaxRequests = 2
CHECK_DEADLOCK FALSE
INVARIANTS TypeOK ActiveKeyWorks TellsAreBounded CancelledIsKept
PROPERTIES WorkIsFinished WhatLastsIsSeen
