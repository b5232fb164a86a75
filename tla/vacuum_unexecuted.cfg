SPECIFICATION MCSpec
CONSTANTS
  Threads = {t1, t2}
  Req = Req
  None = None
  LowestPressure = 0
  StartPressure = 0
  ALARM_LEVEL = 0
  POLL_INTERVAL_S = 1
  MODBUS_TIMEOUT_S = 1
  MODBUS_RETRIES = 0
  POLL_FAILURE_THRESHOLD = 2
  ClientRequests <- AllRequests
SYMMETRY ThreadSymmetry
INVARIANTS
  AckedCommandTookEffect
