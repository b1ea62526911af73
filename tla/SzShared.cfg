SPECIFICATION FairSpec
CONSTANTS
  c1 = c1
  c2 = c2
  c3 = c3
  ap1 = ap1
  Nobody = Nobody
  Job = {c2, c3}
  Ap = {ap1}
  ApOf <- MCApOf
  ModeOf <- OneOfEach
  Timed = {}
INVARIANTS
  DoneReleasesAp
PROPERTIES
  ImplementsLifecycle
  StopEnds
  BoundedEnds
