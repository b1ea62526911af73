SPECIFICATION FairSpec
CONSTANTS
  c1 = c1
  c2 = c2
  ap1 = ap1
  wlan0 = wlan0
  wlan1 = wlan1
  Idle = Idle
  Job = {c1, c2}
  Ap = {ap1}
  Iface = {wlan0, wlan1}
  ApOf <- MCApOf
  Radios <- OneOrTwo
  Timed = {c1}
  Pinned = {c1}
  Workers = 2
INVARIANTS
  DoneHasFile
  IdleOnExit
PROPERTIES
  StopEnds
  DurationStops
  OnlyOwnExitIdles
  ImplementsLifecycle
