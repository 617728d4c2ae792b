SPECIFICATION FairSpec
CONSTANTS
  Peer = {p1, p2}
  NoPeer = NoPeer
  Pacer = {w1, w2}
  Handler = Handler
  Free = Free
INVARIANTS
  PeerPointerValid
  PacerUsable
PROPERTIES
  ImplementsPeerSlot
  SessionFinishes
