SPECIFICATION MCSpec
CONSTANTS
  u1 = u1
  u2 = u2
  o1 = o1
  o2 = o2
  f1 = f1
  f2 = f2
  k1 = k1
  p1 = p1
  p2 = p2
  p3 = p3
  r1 = r1
  r2 = r2
  Users = {u1, u2}
  Orgs = {o1, o2}
  Plans = {"free", "pro"}
  FlagIds = {f1, f2}
  Keys = {"projects_export"}
  KeyOf <- MCKeyOf
  Values <- MCValues
  Bucket <- MCBucket
  FlagCalls = {c1, c2}
  KeyIds = {k1}
  KeyOwner <- MCKeyOwner
  KeyCalls = {d1, d2}
  Requests = {r1, r2}
  Projects = {p1, p2, p3}
  ExportKey = "projects_export"
  Seeds <- MCSeeds
  Families = {"rows", "flags", "keys", "projects"}
  MaxWrites <- MCMaxWrites
SYMMETRY Slots
INVARIANTS GuardsHeld AnswerExact EvaluateLinear RevokedRefused
PROPERTIES ProjectWrites
CHECK_DEADLOCK FALSE
