SPECIFICATION MCSpec
CONSTANTS
  Client = {c1, c2}
  NoClient = NoClient
  Peer = {p1, p2}
  NoPeer = NoPeer
  FirstUid = 10
  MaxClicks = 2
  MaxDrops = 1
  MaxRestarts = 1
  MaxCandidates = 1
  BrokerFails = TRUE
INVARIANTS
  RoutedByUid
  AnswerBeforeCandidate
PROPERTIES
  UidsGrow
  PlaysGetAnswers
