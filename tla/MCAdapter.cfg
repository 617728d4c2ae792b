SPECIFICATION MCSpec
CONSTANTS
  Addresses = {"10.0.0.1", "0.0.0.0"}
  RelatedPorts = {0, 5000}
  Fragments = {"", "u"}
  Sizes = {0, 262144}
  SctpPorts = {5000, 5001}
  Peers = {"a", "b"}
  Names = {"VP8", "H264"}
  Bases = {94, 104}
  Modern = {TRUE, FALSE}
  WantReceive = {TRUE, FALSE}
  MaxRounds = 2
  Stream = {s1, s2}
  Track = {t1, t2, t3}
  Sender = {x1, x2, x3}
  NoTrack = NoTrack
  NoStream = NoStream
  MaxPerStream = 2
  External = {e1, e2, e3}
  Internal = {i1, i2, i3, i4}
  ExternalTrack = {t1, t2, t3, t4}
  Least = 1
  EdgeVersions = {14000, 15000}
  MaxServers = 2
  MaxUrls = 2
  MaxAttempts = 2
INVARIANTS
  TextArrives
  NegotiationAgrees
  LocalAgrees
  IdsKept
  TurnKept
CHECK_DEADLOCK FALSE
