SPECIFICATION Spec
CONSTANTS
  Debounce = 1
  WindowSecs = 2
  IdleTimeout = 4
  DecayStep = 2
  Backoff = 1
  BaseHeat = 1
  MaxHeat = 4
  SpendHeat = 1
  MaxRetries = 2
  MaxArrivals = 2
  MaxPanics = 1
INVARIANTS
  PacingTypeOK
  ADeferredTickWaits
PROPERTIES
  PendingIsSettled
CHECK_DEADLOCK FALSE
