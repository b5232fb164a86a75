SPECIFICATION MCSpec
CONSTANTS
  Loops = {l1, l2}
  Workers = {w1, w2}
  Socks = {s1, s2}
  Reqs = {r1, r2}
  None = None
  BACKOFF_CAP = 2
  Other = r2
INVARIANTS
  OneReadLoop
  FramesAreWhole
  OnIsConnected
PROPERTIES
  
  MuteIsRedialledSlowly
