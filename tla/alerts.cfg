SPECIFICATION OneRuleSpec
CONSTANTS
  Rules = {"battery", "power"}
  Sustained <- OnceAndTwice
  MayBeUnknown = {"power"}
  Cooldown = 3
  FlushEvery = 2
  MaxWait = 2
  Starts = {100}
  Jumps <- BackAndForth
  MaxSeconds = 13
  MaxRuns = 2
INVARIANTS
  TypeOK
  AlertsSustained
  AlertsSpaced
  AlertsInTime
\* the bound on the seconds is reached
CHECK_DEADLOCK FALSE
