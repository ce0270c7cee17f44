SPECIFICATION FairSpec
CONSTANTS
  Handlers <- Pool
  Controls <- TwoControls
INVARIANTS
  TypeOK
  SamplerQuietAtShutdown
  StoppedMeansGone
PROPERTY
  ShutdownCompletes
\* main returned, no control left: the process has ended
CHECK_DEADLOCK FALSE
