SPECIFICATION Spec
CONSTANTS
  s1 = s1
  a1 = a1
  a2 = a2
  a3 = a3
  r1 = r1
  r2 = r2
  Session = {s1}
  Assignment <- MCAssignment
  SessOf <- OneSession
  Request <- MCRequest
  Ops = {"merge", "delete", "purge"}
  MaxCrashes = 1
  CanFail = TRUE
  ForeignKeys = TRUE
SYMMETRY Symmetry
CHECK_DEADLOCK FALSE
INVARIANTS
  DeletedLeavesNothing
  ArtifactHasFile
PROPERTIES
  ActiveSpared
  PurgeLeavesNoOrphan
