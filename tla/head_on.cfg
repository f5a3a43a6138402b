SPECIFICATION Spec
CONSTANTS
  r1 = r1
  r2 = r2
  None = None
  Robots = {r1, r2}
  Width = 3
  Depth = 1
  CleanupPeriod = 2
  Horizon = 2
  MaxPath = 2
SYMMETRY RobotSymmetry
INVARIANT NoHeadOnInTable
CHECK_DEADLOCK FALSE
