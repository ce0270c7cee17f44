SPECIFICATION Spec
CONSTANTS
  Threads = {h1}
  AlertFields <- Alert
  RetentionFields <- Retention
  ApplyOrder <- PostOrder
  DumpOrder <- JsonOrder
  Values = {1, 2}
  OutOfRange = 0
  WrongType = 99
  Absent = 98
  Missing = Missing
  Emptied = Emptied
  Garbled = Garbled
  Defaults <- ConfigOfDefaults
  StartPaths = {"other"}
  FirstFiles = {Missing}
  MaxStarts = 2
  MaxPosts = 3
PROPERTY RestartKeepsSettings
CHECK_DEADLOCK FALSE
