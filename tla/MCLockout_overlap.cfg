SPECIFICATION MCSpec
CONSTANTS
  Requests = {r1, r2, r3, r4}
  MAX_FAILED_ATTEMPTS = 5
  MaxAttempts = 12
  Crashes = TRUE
SYMMETRY Symmetry
INVARIANTS CapLocks Overshoot LockJustified
 
