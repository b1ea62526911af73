SPECIFICATION Spec
CONSTANTS
  s1 = s1
  a1 = a1
  a2 = a2
  a3 = a3
  r1 = r1
  r2 = r2
  Session = {s1}
  Assignment = {a1, a2}
  SessOf <- OneSession
  Request = {r1}
  Ops = {"purge"}
  MaxCrashes = 0
  CanFail = FALSE
  ForeignKeys = TRUE
CHECK_DEADLOCK FALSE
INVARIANTS
  SweepsOrphansOnly
