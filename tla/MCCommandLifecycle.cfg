\* Two Create calls (a call and its retry, or two callers) for two commands,
\* and polls that can take one of them.
SPECIFICATION Spec
CONSTANTS
  Commands = {c1, c2}
  Requests = {r1, r2}
  e1 = e1
  p1 = p1
  o1 = o1
  EdgeDevices <- MCEdge
  PushDevices <- MCPush
  OtherDevices <- MCOther
  Keys = {k1}
  NoKey = NoKey
  NoCommand = NoCommand
  NoDevice = NoDevice
  TTL = 1
  PollLimit = 1
  MaxTime = 2
INVARIANTS
  TypeOK
  HandedOutAtMostOnce
  SameKeySameCommand
  DeliveryIsWitnessed
  TimestampsTellHistory
  DeadlineIsRespected
PROPERTIES
  ImplementsContract
  EveryCommandSettles
