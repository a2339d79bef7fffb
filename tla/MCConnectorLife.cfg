CONSTANTS
  old = old
  new = new
  Pods <- MCPods
  Environments <- MCEnvironments
  Embedded <- MCEmbedded
  Rerunnable <- MCRerunnable
  Followed <- MCFollowed
  MaxRequests = 1
  MaxStreams = 1
SPECIFICATION Spec
INVARIANTS
  TypeOK
  WholeSchema
  PoolClosedLast
PROPERTIES
  MigratesInOrder
  EveryPodStarts
  ShutdownEnds
