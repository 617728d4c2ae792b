CONSTANTS
  Session = {s1, s2, s3}
  NoSession = none
  Pages = {{"playP2p", "playSrs", "playZlm", "answerPlay"}, {"playHd", "answerPlay"}, {"publish", "play"}, {"playSdk"}}
  ServerType = "P2p"
  MaxClicks = 1
SPECIFICATION FairSpec
INVARIANTS OneConnection ChannelOfCurrent FailureCloses
PROPERTY Settled
CHECK_DEADLOCK FALSE
