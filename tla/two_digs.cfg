SPECIFICATION FairSpec
CONSTANTS
  None = None
  b1 = b1
  b2 = b2
  b3 = b3
  b4 = b4
  s1 = s1
  s2 = s2
  s3 = s3
  s4 = s4
  NumRequests = 2
  Robots = {1, 2}
  Bins = {b1, b2, b3, b4}
  Stacks = {s1, s2, s3, s4}
  Stations = {p1, p2}
  Target <- TwinTarget
  MaxStackHeight = 2
  InitialStacks <- TwinStacks
  ReturnBlockingBins = TRUE
  OriginalPlacement = FALSE
  Lofi = FALSE
  Edf = FALSE
  Capacity = 1
  MaxRequeues = 0
  Faults = {}
INVARIANTS BlockersNotBuried HeightOK
PROPERTY EveryRequestDone
CHECK_DEADLOCK FALSE
