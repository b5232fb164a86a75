SPECIFICATION FakeSpec
CONSTANTS
  Unset = Unset
  MIN_PRESSURE = 1
  INITIAL_PRESSURE = 12
  DECAY_RATE = 2
  MaxElapsed = 7
PROPERTIES
  ImplementsGauge
