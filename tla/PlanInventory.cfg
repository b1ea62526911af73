SPECIFICATION Spec
CONSTANTS
  t1 = t1
  t2 = t2
  h1 = h1
  h2 = h2
  s1 = s1
  s2 = s2
  m1 = m1
  Target <- MCTarget
  Host <- MCHost
  Session <- MCSession
  Template <- MCTemplate
  Mode <- MCMode
  MaxPlan = 2
  MaxAdds = 1
  ForeignKeys = TRUE
SYMMETRY Symmetry
CHECK_DEADLOCK FALSE
INVARIANTS
  OneCapturePerAp
PROPERTIES
  TemplateReplays
