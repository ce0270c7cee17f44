SPECIFICATION FairSpec
CONSTANTS
  Handlers <- Pool
  Controls <- OneControl
PROPERTY
  StopEndsTheWait
CHECK_DEADLOCK FALSE
