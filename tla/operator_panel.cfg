SPECIFICATION PanelFairSpec
CONSTANTS
  Tabs = {t1, t2}
  Nothing = Nothing
  Cameras = {t1}
  Reconnectable = {t1}
  Confirmed = {t2}
  States = {"ON", "FAULT"}
  OddErrors = FALSE
  MAX_SIGNALS = 2
INVARIANTS
  PendingIsTruthful
  PanelShowsDevice
PROPERTIES
  PanelCatchesUp
