SPECIFICATION MCSpec
CONSTANTS
  EmailJobs = {m1}
  MaintenanceJobs = {s1}
  Attempts = 2
  MaxStalled = 1
  Concurrency <- MCConcurrency
  MaxExits = 2
  Users = {u1}
  Types = {t1}
  Notes = {n1}
  Calls = {c1, c2}
INVARIANTS DeadLetters CarriedOut MutedRespected PreferencesKept
PROPERTIES OrderlyExit ShutdownEnds Delivers
CHECK_DEADLOCK FALSE
