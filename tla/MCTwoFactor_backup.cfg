SPECIFICATION MCSpec
CONSTANTS
  Codes = {b1, b2}
  Challenges = {c1, c2}
  NoChallenge = NoChallenge
  Requests = {r1, r2}
  Ops = {"setup", "enable", "login", "verify"}
  MAX_CHALLENGE_ATTEMPTS = 2
  MaxSecrets = 1
  MaxGen = 1
  MaxStep = 1
SYMMETRY Symmetry
INVARIANTS BackupCodeSingleUse
CHECK_DEADLOCK FALSE
