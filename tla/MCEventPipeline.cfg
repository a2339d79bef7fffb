CONSTANTS
  e1 = e1
  e2 = e2
  bad = bad
  h1 = h1
  h2 = h2
  h3 = h3
  s1 = s1
  s2 = s2
  NoEvent = NoEvent
  Events <- MCEvents
  Malformed <- MCMalformed
  Calls <- MCCalls
  Streams <- MCStreams
  Buffer = 1
SPECIFICATION Spec
INVARIANTS
  TypeOK
  StreamIsSound
  AnswerIsFinal
PROPERTY EveryCallIsAnswered
