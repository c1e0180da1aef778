CONSTANTS
  A = A
  B = B
  Chats = {A, B}
  Changes = {1, 2, 3}
  KindOf <- PurgeKindOf
  ChatOf <- PurgeChatOf
  Steering = TRUE
  Faults = {"tail"}
  MaxFaults = 1
SPECIFICATION Spec
CHECK_DEADLOCK FALSE
INVARIANTS
  PurgedStaysGone
