SPECIFICATION AnswerSpec
CONSTANTS
  AudioTracks = {"a"}
  VideoTracks = {}
  Streams = {"s"}
  None = None
  Candidates = {}
  MaxLines = 1
  MaxTransports = 2
  MaxRounds = 1
  MaxMoves = 0
  Counts = {}
  Bundle = {FALSE}
  Rejects = {FALSE}
  Directions = {"sendrecv"}
  InSdp = {FALSE}
PROPERTIES
  ReceiversStarted
CHECK_DEADLOCK FALSE
