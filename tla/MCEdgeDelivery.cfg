CONSTANTS
  e1 = e1
  e2 = e2
  t1 = t1
  h1 = h1
  h2 = h2
  s1 = s1
  NoEvent = NoEvent
  NoItem = NoItem
  Events <- MCEvents
  Malformed <- MCNone
  Calls <- MCCalls
  Streams <- MCStreams
  Buffer = 1
  Snapshots <- MCSnapshots
  Refused <- MCRefused
  Capacity = 2
  EventAttempts = 2
  SnapshotAttempts = 2
SPECIFICATION PathSpec
PROPERTIES
  KeepsContract
  EveryReportIsSettled
INVARIANTS
  AttemptsBoundRows
  NothingVanishes
  FreshestSurvive
