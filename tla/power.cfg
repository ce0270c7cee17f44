SPECIFICATION Spec
CONSTANTS
  Watts = {2}
  Windows = {0, 2}
  MaxWindow = 4
  Capacity = 3
  MaxGap = 2
  FlushEvery = 2
  Day = 10
  Starts <- LateStart
  Jumps <- BackAndForth
  MaxTicks = 5
INVARIANTS
  RecentAreNewest
  EnergyOfRealSeconds
  AverageOfWindow
\* the bound on the seconds is reached
CHECK_DEADLOCK FALSE
