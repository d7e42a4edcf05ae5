SPECIFICATION MCSpec
CONSTANTS
  Users = {u1, u2}
  Tokens = {t1, t2}
  NoToken = NoToken
  Requests = {r1, r2}
  Ops <- AllOps
  MaxEpoch = 2
SYMMETRY Symmetry
INVARIANTS RevokeAllContained KillSwitchContained OneSuccessorSerial RevokeAllSerial
PROPERTIES RevocationPermanent OnlyOwnSessionsRevoked
CHECK_DEADLOCK FALSE
