SPECIFICATION FairSpec
CONSTANTS
  MaxFlips = 0
  MaxFaults = 0
PROPERTY HelpersSeeStop
CHECK_DEADLOCK FALSE
