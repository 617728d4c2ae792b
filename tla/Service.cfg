SPECIFICATION FairSpec
CONSTANTS
  MaxFlips = 1
  MaxFaults = 1
INVARIANTS
  SurvivorsWereLost
PROPERTIES
  StoppedAfterWorker
  StopEnds
  HelperComesBack
CHECK_DEADLOCK FALSE
