SPECIFICATION MCSpec
CONSTANTS
  Users = {u1, u2}
  NoUser = NoUser
  Emails = {e1, e2}
  NoEmail = NoEmail
  Requests = {r1, r2}
  Ops = {"register", "verify", "resend", "changeEmail", "google", "promote", "demote", "deleteUser", "restoreUser", "erase"}
  MaxTokens = 3
  Families = {{"register", "verify", "resend", "changeEmail"},
              {"register", "verify", "changeEmail", "google"},
              {"register", "verify", "changeEmail", "deleteUser", "restoreUser"},
              {"register", "google", "promote", "demote", "deleteUser", "restoreUser", "erase"}}
SYMMETRY Symmetry
INVARIANTS VerifiedProven
PROPERTIES LastAdminStays GoogleKept
CHECK_DEADLOCK FALSE
