SPECIFICATION FairSpec
CONSTANTS
  Builds = {b1, b2, b3}
  None = None
  Mistagged = {b3}
  MaxFaults = 3
INVARIANTS
  SimulatorsFollowDevices
  GreenIsPublished
PROPERTIES
  OnlyOwnCopyRemoved
  RerunCompletes
