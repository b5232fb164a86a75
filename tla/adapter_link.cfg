SPECIFICATION FairSpec
CONSTANTS
  Sessions = {s1, s2}
  None = None
  MAX_UNREAD = 3
INVARIANTS
  OwnReplies
PROPERTIES
  LinesEnd
  BackendHeals
