CONSTANTS
  e1 = e1
  e2 = e2
  bad = bad
  p = p
  NoEvent = NoEvent
  Poller = p
  Events <- MCGood
  Malformed <- MCNone
  Garbage <- MCNone
  Calls <- MCCalls
  Streams <- MCNone
  Buffer = 1
  Interval = 1
  Overlap = 2
  Lag = 1
  MaxTime = 7
  MaxCrashes = 1
SPECIFICATION Spec
INVARIANTS
  NoGapBehindWatermark
PROPERTY EveryAlertIsIngested
