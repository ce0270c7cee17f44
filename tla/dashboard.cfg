SPECIFICATION FairApartSpec
CONSTANTS
  Metrics = {"cpu", "power"}
  MaxSeconds = 2
  Default = "cpu"
  MaxMounts = 3
  MaxFaults = 1
  MaxClicks = 1
PROPERTIES
  OnePoller
  AnswersInTurn
  ShowsEverySample
  StatusIsTrue
  LoadingEnds
\* the history page may be the last one opened, with nothing left to do
CHECK_DEADLOCK FALSE
