SPECIFICATION MCSpec
CONSTANTS
  Users = {u1, u2}
  NoUser = NoUser
  Invites = {i1, i2}
  NoInvite = NoInvite
  Requests = {r1, r2}
  Ops <- AllOps
SYMMETRY Symmetry
INVARIANTS OneOwnerSerial OthersKeepOrg OnePending
PROPERTIES TerminalStays 
CHECK_DEADLOCK FALSE
