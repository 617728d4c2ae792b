SPECIFICATION Spec
CONSTANTS
  Client = {c1, c2}
  NoClient = NoClient
  Peer = {p1, p2}
  NoPeer = NoPeer
  FirstUid = 10
  MaxClicks = 2
  MaxDrops = 1
  MaxRestarts = 0
  MaxCandidates = 1
  BrokerFails = FALSE
PROPERTY RefusedOnlyWhenBusy
CHECK_DEADLOCK FALSE
