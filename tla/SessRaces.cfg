SPECIFICATION MCSpec
CONSTANTS
  s1 = s1
  a1 = a1
  a2 = a2
  r1 = r1
  r2 = r2
  Session = {s1}
  Assignment = {a1, a2}
  SessOf <- MCSessOf
  Planned = {a1}
  Managed = {}
  Staged = {a2}
  Request = {r1, r2}
  Ops = {"start", "stop", "add", "remove"}
  Faults = {"capture", "sidecar"}
  Exits = {"crash", "shutdown"}
  MaxRequests = 2
  MaxExits = 1
  Watched = {s1}
  FollowTo = 0
CHECK_DEADLOCK FALSE
INVARIANTS
  DoneRowBacked
  

  
  
