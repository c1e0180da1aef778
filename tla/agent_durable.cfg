CONSTANTS
  A = A
  B = B
  Chats = {A, B}
  Changes = {1, 2, 3, 4}
  KindOf <- SettingKindOf
  ChatOf <- SettingChatOf
  Steering = FALSE
  Faults = {"read", "store", "write", "reply", "turn", "crash"}
  MaxFaults = 2
SPECIFICATION Spec
CHECK_DEADLOCK FALSE
INVARIANTS
  EveryChangeIsAccounted
  NoChangeIsReadTwice
  PurgedStaysGone
PROPERTIES
  KeepsThePromise
