SPECIFICATION MCFairSpec
CONSTANTS
  Subs = {s1}
  NoEvent = NoEvent
  Requests = {r1, r2}
  Ops = {"update", "portal", "other", "cancel"}
  LiveStatuses = {"active", "past_due"}
  MaxEvents = 3
  InOrder = FALSE
  Coarse = TRUE
PROPERTIES EventHandled
CHECK_DEADLOCK FALSE
