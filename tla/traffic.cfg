SPECIFICATION Spec
CONSTANTS
  None = None
  Robots = {0, 1}
  Waiting = {0, 1, 2, 3}
  Width = 2
  Depth = 2
  Ports <- PortCells
  Stacks <- StackCells
  Starts <- Places
  MaxRetries = 3
  ReplanAfter = 1
  ForceReplanAfter = 2
  Attempts = 2
  CleanupPeriod = 2
  PickupTime = 1
  MaxPath = 3
  MaxJobs = 3
INVARIANTS TrafficTypeOK OneRobotPerCell PortPresence PathHasMove PathsAreWalks
PROPERTY DetectorIsExact
CHECK_DEADLOCK FALSE
