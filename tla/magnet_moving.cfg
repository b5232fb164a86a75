SPECIFICATION Spec
CONSTANTS
  Tasks = {r1, r2}
  None = None
  STEP = 2
  MAX_SETPOINT = 5
  WARNING = 3
  Setpoints = {2, 5}
  LinkFails = TRUE
  MAX_LATE = 2
INVARIANT MovingIsTruthful
