CONSTANTS
  A = A
  B = B
  Chats = {A, B}
  Changes = {1, 2, 3}
  KindOf <- PurgeKindOf
  ChatOf <- PurgeChatOf
  Steering = TRUE
  Faults = {"read", "store", "write", "reply", "turn", "tail", "crash"}
  MaxFaults = 3
SPECIFICATION Spec
CHECK_DEADLOCK FALSE
INVARIANTS
  TypeOK
  RequestsGoFirst
  NoPassOvertakesAWrite
  AttemptsAreBounded
PROPERTIES
  TurnConsumesOnlyWhatItRead
