SPECIFICATION EventSpec
CONSTANTS
  s1 = s1
  a1 = a1
  a2 = a2
  r1 = r1
  r2 = r2
  Session = {s1}
  Assignment = {a1, a2}
  SessOf <- MCSessOf
  Planned = {}
  Managed = {a2}
  Staged = {a1, a2}
  Request = {r1}
  Ops = {"start", "stop", "add", "remove"}
  Faults = {"capture", "idle"}
  Exits = {"crash", "shutdown"}
  MaxExits = 2
  Watched = {s1}
  FollowTo = 0
CHECK_DEADLOCK FALSE
INVARIANTS
  EndedSessionQuiet
  DoneSessionComplete
  OrphansIdled
  LastEventQuiet
