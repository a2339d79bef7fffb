CONSTANTS
  poller = poller
  dispatch = dispatch
  Callers <- MCCallers
  NoCaller = NoCaller
  Attempts = 2
  GrantAttempts = 2
  Lifetime = 4
  Skew = 2
  Timeout = 1
  MaxTime = 5
  MaxTokens = 3
  MaxRevocations = 1
SPECIFICATION Spec
SYMMETRY MCSymmetry
INVARIANTS
  TokenOutlivesRequest
  RetryUsesFreshToken
  GrantsAreNeeded
  MutexIsForGrants
