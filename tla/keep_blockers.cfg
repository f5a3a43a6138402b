SPECIFICATION Spec
CONSTANTS
  None = None
  b1 = b1
  b2 = b2
  b3 = b3
  b4 = b4
  s1 = s1
  s2 = s2
  s3 = s3
  s4 = s4
  NumRequests = 2
  Robots = {1, 2}
  Bins = {b1, b2, b3}
  Stacks = {s1, s2, s3}
  Stations = {p1}
  Target <- BlockerTarget
  MaxStackHeight = 2
  InitialStacks <- ShallowStacks
  ReturnBlockingBins = FALSE
  OriginalPlacement = FALSE
  Lofi = FALSE
  Edf = FALSE
  Capacity = 1
  MaxRequeues = 0
  Faults = {}
INVARIANTS OwnershipBacked NoRuntimeError
CHECK_DEADLOCK FALSE
