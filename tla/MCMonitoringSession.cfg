SPECIFICATION Spec
CONSTANTS
  Provisioned = TRUE
  MaxScreens = 2
  MaxSessions = 2
INVARIANTS
  StatusIsTrue
  LoadedStaysLoaded
  OneFrameAfterStop
PROPERTY MonitoringGoesOn
CHECK_DEADLOCK FALSE
