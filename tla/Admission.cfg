SPECIFICATION Spec
CONSTANTS
  p1 = p1
  h1 = h1
  h2 = h2
  c1 = c1
  NoPeer = NoPeer
  Handler = {h1, h2}
  Peer = {p1}
  Cli = {c1}
  Shared = {}
  OverlayFirst = {p1}
  Metered = {p1}
  MaxTime = 2
  MaxOwner = 2
  Hour = 3
  DefaultRate = 1
  HandRate = {2}
INVARIANTS RateHolds RetryHonoured DenyHolds
SYMMETRY HandlerSymmetry
CHECK_DEADLOCK FALSE
