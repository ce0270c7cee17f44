SPECIFICATION Spec
CONSTANTS
  p1 = p1
  p2 = p2
  p3 = p3
  svchost = svchost
  explorer = explorer
  Counters = {"cpu.total_pct"}
  Processes = {p1, p2, p3}
  Names = {svchost, explorer}
  NameOf <- OfOneImage
  Loads = {1, 2}
  TopN = 2
  TickMs = 1000
  Interval <- Intervals
  MaxTicks = 5
  MaxThrows = 2
SYMMETRY Interchangeable
INVARIANTS
  OnSchedule
  TopListWhole
  NamesFollow
\* the bound on the turns is reached
CHECK_DEADLOCK FALSE
