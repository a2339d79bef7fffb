CONSTANTS
  e1 = e1
  e2 = e2
  bad = bad
  p = p
  NoEvent = NoEvent
  Poller = p
  Events <- MCMixed
  Malformed <- MCNone
  Garbage <- MCBad
  Calls <- MCCalls
  Streams <- MCNone
  Buffer = 1
  Interval = 1
  Overlap = 2
  Lag = 1
  MaxTime = 6
  MaxCrashes = 0
SPECIFICATION Spec
PROPERTY BadAlertIsNotFatal
