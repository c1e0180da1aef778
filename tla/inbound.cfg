SPECIFICATION InboundSpec
CONSTANTS
  People = {"opener", "nobody"}
  Nobody = "nobody"
  Ranges = {"day"}
  Levels = {0, 1}
  DefaultLevel = 0
  Private = FALSE
  Capacity = 5
  Messages = {1}
  Lines <- SomeLines
  MaxUpdates = 4
  MaxLines = 1
  MaxAhead = 1
  MaxFaults = 2
INVARIANTS
  APurgeIsAskedForOnce
  ShownButtonsWork
  ARefusedReportCanBeAskedForAgain
  OneEntryPerChange
CHECK_DEADLOCK FALSE
