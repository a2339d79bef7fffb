CONSTANTS
  device = device
  h1 = h1
  h2 = h2
  label = label
  Poller = Poller
  Unset = Unset
  NoDevice = NoDevice
  Devices <- MCDevices
  Handlers <- MCHandlers
  Labels <- MCLabels
  MaxSkew = 1
  RequestTimeout = 1
  MaxTime = 5
SPECIFICATION Spec
SYMMETRY MCSymmetry
INVARIANTS
  StatusIsRecent
PROPERTY KnownIsKept
