SPECIFICATION MCChannelSpec
CONSTANTS
  Repeating = {r1}
  OneOff = {o1}
  MaxSlots = 1
  MaxArrivals = 3
  MaxFaults = 1
INVARIANTS
  ChannelTypeOK
  OccurrencesFireOnce
  LossesHaveACause
PROPERTIES
  DueTasksReachTheirAgent
  SendsAreServed
CHECK_DEADLOCK FALSE
