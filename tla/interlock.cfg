SPECIFICATION FairSpec
CONSTANTS
  Threads = {t1, t2}
  Req = Req
  None = None
  Inputs = {door}
  POLL_INTERVAL_S = 1
  MODBUS_TIMEOUT_S = 1
  MODBUS_RETRIES = 0
  POLL_FAILURE_THRESHOLD = 2
  MaxLate = 1
INVARIANTS
  ServedIsRecent
  StateMatchesCache
  OnePoller
  FailedConnectionIsDropped
  ResetAnswersAreTrue
PROPERTIES
  LatchHolds
  EventuallyShowsPermit
  LossIsReported
  RequestsReturn
