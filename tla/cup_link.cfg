SPECIFICATION MCSpec
CONSTANTS
  Clients = {c1, c2}
  Poll = Poll
  Init_ = Init_
  Links = {l1, l2}
  None = None
  BACKOFF_CAP = 1
  Overlapper = c1
INVARIANTS
  OneLink
  RoundTripsApart
  ZeroCheckIsMirrored
  NoPollDuringInit
PROPERTIES
  HealsItself
  MuteIsRedialledSlowly
