SPECIFICATION Spec
CONSTANTS
  ppi = ppi
  radiotap = radiotap
  None = None
  Header = 2
  Second = 2
  MaxInputs = 2
  File <- MCFile
CHECK_DEADLOCK FALSE
INVARIANTS
  WalksAgree
  AllMerged
  MergedInOrder
  AlignedShare
