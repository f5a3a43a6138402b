SPECIFICATION Spec
CONSTANTS
  None = None
  b1 = b1
  b2 = b2
  b3 = b3
  b4 = b4
  s1 = s1
  s2 = s2
  s3 = s3
  s4 = s4
  NumRequests = 3
  Robots = {1, 2}
  Bins = {b1, b2, b3}
  Stacks = {s1, s2, s3}
  Stations = {p1}
  Target <- ShallowTarget
  MaxStackHeight = 3
  InitialStacks <- ShallowStacks
  ReturnBlockingBins = TRUE
  OriginalPlacement = TRUE
  Lofi = TRUE
  Edf = TRUE
  Capacity = 1
  MaxRequeues = 1
  Faults = {"exit_blocked", "no_path", "action_exhausted"}
INVARIANTS EveryBinInOnePlace AssignmentsAgree OwnersRemember
CHECK_DEADLOCK FALSE
