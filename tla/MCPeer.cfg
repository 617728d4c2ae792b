SPECIFICATION MCSpec
CONSTANTS
  AudioTracks = {"a"}
  VideoTracks = {"v"}
  Streams = {"s"}
  None = None
  Candidates = {"c"}
  MaxLines = 2
  MaxTransports = 2
  MaxRounds = 3
  MaxMoves = 3
  Counts = {0, 1}
  Bundle = {TRUE, FALSE}
  Rejects = {TRUE, FALSE}
  Directions = {"sendrecv"}
  InSdp = {TRUE, FALSE}
  MLines = 2
  PerGatherer = 3
  Bundled = {TRUE, FALSE}
INVARIANTS
  ToldRight
  LinesAgree
PROPERTIES
  JsepSpec
  SilentAfterClose
  TracksAnnounced
  GatheredRight
CHECK_DEADLOCK FALSE
