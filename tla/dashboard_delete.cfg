SPECIFICATION ApartSpec
CONSTANTS
  Metrics = {"cpu", "power"}
  MaxSeconds = 2
  Default = "cpu"
  MaxMounts = 2
  MaxFaults = 0
  MaxClicks = 1
INVARIANT
  DeletesThisMetric
CHECK_DEADLOCK FALSE
