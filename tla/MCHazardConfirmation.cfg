CONSTANTS
  fire = fire
  other = other
  Types <- MCTypes
  Guarded <- MCGuarded
  Confidences = {0, 1, 2}
  MinConfidence <- MCMin
  RequiredHits <- MCHits
  WindowMs <- MCWindow
  CooldownMs <- MCCooldown
  MaxDetections = 2
  MaxTime = 6
SPECIFICATION EngineSpec
INVARIANTS
  WindowIsRecentHistory
  AlarmsAreExact
