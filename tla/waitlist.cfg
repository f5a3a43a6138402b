SPECIFICATION Spec
CONSTANTS
  None = None
  b1 = b1
  b2 = b2
  b3 = b3
  b4 = b4
  s1 = s1
  s2 = s2
  s3 = s3
  s4 = s4
  NumRequests = 2
  Robots = {1, 2}
  Bins = {b1, b2, b3}
  Stacks = {s1, s2, s3}
  Stations = {p1}
  Target <- BlockerTarget
  MaxStackHeight = 3
  InitialStacks <- ShallowStacks
  ReturnBlockingBins = TRUE
  OriginalPlacement = TRUE
  Lofi = TRUE
  Edf = TRUE
  Capacity = 1
  MaxRequeues = 0
  Faults = {}
INVARIANTS WaitlistBacked
CHECK_DEADLOCK FALSE
