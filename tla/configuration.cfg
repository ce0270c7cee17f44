SPECIFICATION Spec
CONSTANTS
  Threads = {h1, h2}
  AlertFields <- Alert
  RetentionFields <- Retention
  ApplyOrder <- PostOrder
  DumpOrder <- JsonOrder
  Values = {1, 2}
  OutOfRange = 0
  WrongType = 99
  Absent = 98
  Missing = Missing
  Emptied = Emptied
  Garbled = Garbled
  Defaults <- ConfigOfDefaults
  StartPaths = {"saved", "other"}
  FirstFiles <- HandWritten
  MaxStarts = 3
  MaxPosts = 2
SYMMETRY Pool
INVARIANTS
  TypeOK
  SettingsInRange
  
  FileKeepsTheSave
CHECK_DEADLOCK FALSE
