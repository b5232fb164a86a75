SPECIFICATION MCSpec
CONSTANTS
  Tasks = {r1, r2}
  None = None
  STEP = 2
  MAX_SETPOINT = 3
  WARNING = 2
  Setpoints = {1, 3}
  LinkFails = TRUE
  MAX_LATE = 2
INVARIANTS
  PointsAreAtPosition
  MovingUntilArrival
  OneRamp
  DeleteStopsRamps
  RestartKeepsSetpoint
PROPERTIES
  EventuallySettles
