SPECIFICATION FamiliesSpec
CONSTANTS
  Subs = {s1, s2}
  NoEvent = NoEvent
  Requests = {r1, r2}
  Ops <- AllOps
  LiveStatuses = {"active", "past_due", "paused"}
  MaxEvents = 3
  InOrder = FALSE
  Coarse = TRUE
SYMMETRY Symmetry
INVARIANTS HandledOnce Converged SkippedIsOlder CanceledAtStripe CloseCancelsAll
CHECK_DEADLOCK FALSE
