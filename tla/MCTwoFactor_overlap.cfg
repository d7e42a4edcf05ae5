SPECIFICATION MCSpec
CONSTANTS
  Codes = {b1}
  Challenges = {c1, c2}
  NoChallenge = NoChallenge
  Requests = {r1, r2}
  Ops = {"setup", "enable", "disable", "login", "verify"}
  MAX_CHALLENGE_ATTEMPTS = 1
  MaxSecrets = 2
  MaxGen = 2
  MaxStep = 2
SYMMETRY Symmetry
INVARIANTS AttemptsCapped CodesSpentOnce EnabledSecretVerified
PROPERTY ChallengeOneShot
CHECK_DEADLOCK FALSE
