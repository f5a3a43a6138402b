SPECIFICATION Spec
CONSTANTS
  None = None
  b1 = b1
  b2 = b2
  b3 = b3
  b4 = b4
  s1 = s1
  s2 = s2
  s3 = s3
  s4 = s4
  NumRequests = 3
  Robots = {1, 2}
  Bins = {b1, b2, b3, b4}
  Stacks = {s1, s2, s3, s4}
  Stations = {p1}
  Target <- PileTarget
  MaxStackHeight = 3
  InitialStacks <- PileStacks
  ReturnBlockingBins = FALSE
  OriginalPlacement = FALSE
  Lofi = TRUE
  Edf = TRUE
  Capacity = 1
  MaxRequeues = 0
  Faults = {}
INVARIANTS OwnershipBacked
CHECK_DEADLOCK FALSE
