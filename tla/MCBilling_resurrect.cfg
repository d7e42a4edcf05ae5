SPECIFICATION MCSpec
CONSTANTS
  Subs = {s1}
  NoEvent = NoEvent
  Requests = {r1}
  Ops = {"portal", "update"}
  LiveStatuses = {"active", "past_due"}
  MaxEvents = 3
  InOrder = FALSE
  Coarse = FALSE
SYMMETRY Symmetry
PROPERTY CanceledStays
CHECK_DEADLOCK FALSE
