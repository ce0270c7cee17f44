SPECIFICATION Spec
CONSTANTS
  Keys = {"cpu", "power"}
  Power = "power"
  Batches <- ComeAndGo
  Minute = 2
  Quarter = 4
  Day = 8
  FlushEvery = 2
  Limit = 5
  Starts <- OddStart
  Jumps <- BackAndForth
  MaxTicks = 5
INVARIANTS
  TypeOK
  RowsHoldTheirMinute
  LossesExplained
  RollupsOfTheirQuarter
  
\* the bound on the seconds is reached
CHECK_DEADLOCK FALSE
