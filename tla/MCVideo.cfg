SPECIFICATION MCSpec
CONSTANTS
  Frame = {f1, f2}
  NoFrame = NoFrame
  CacheNum = 3
  MaxTime = 4
INVARIANTS
  RingAgrees
  HeldFrameIntact
  OnePictureLate
PROPERTIES
  ImplementsFrameQueue
  KeyframeServed
  TimestampsGrow
  InputFollowsDesktop
  ViewerSeesDesktop
  InputComesBack
