CONSTANTS
  A = A
  B = B
  Chats = {A, B}
  Changes = {1, 2, 3}
  KindOf <- SpeakKindOf
  ChatOf <- SpeakChatOf
  Steering = TRUE
  Faults = {"write"}
  MaxFaults = 1
SPECIFICATION Spec
CHECK_DEADLOCK FALSE
INVARIANTS
  EveryChangeIsAccounted
