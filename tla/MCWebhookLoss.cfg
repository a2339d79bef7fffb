CONSTANTS
  hazard = hazard
  invalid = invalid
  beat = beat
  junk = junk
  h1 = h1
  h2 = h2
  NoEvent = NoEvent
  NoDelivery = NoDelivery
  Events <- MCEvents
  Malformed <- MCMalformed
  Heartbeats <- MCHeartbeats
  Garbage <- MCGarbage
  Calls <- MCCalls
  Streams <- MCNone
  Buffer = 1
SPECIFICATION Spec
SYMMETRY MCSymmetry
INVARIANT AcknowledgedIsProcessed
