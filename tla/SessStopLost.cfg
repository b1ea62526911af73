SPECIFICATION EventFairSpec
CONSTANTS
  s1 = s1
  a1 = a1
  a2 = a2
  r1 = r1
  r2 = r2
  Session = {s1}
  Assignment = {a1, a2}
  SessOf <- MCSessOf
  Planned = {a1, a2}
  Request = {r1}
  Ops = {"start", "stop"}
  Managed = {}
  Staged = {}
  Faults = {}
  Exits = {}
  MaxExits = 0
  Watched = {}
  FollowTo = 1
CHECK_DEADLOCK FALSE
PROPERTIES
  SessionSettles
