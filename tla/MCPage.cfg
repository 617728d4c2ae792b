CONSTANTS
  MaxCalls = 3
  MaxRestarts = 2
  MaxPopovers = 2
  HostNames = {"a", "b"}
  Numbers = {"n"}
  Ports = {"80", "1985"}
  VHosts = {"v"}
  Tokens = {"t", "u"}
  Padded = {"t"}
  Paths = {"", "/p/"}
  MaxKeys = 2
SPECIFICATION PageSpec
INVARIANT AddressArrives
PROPERTIES OldIsHarmless KeepsRefreshing
CHECK_DEADLOCK FALSE
