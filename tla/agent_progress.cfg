CONSTANTS
  A = A
  B = B
  Chats = {A, B}
  Changes = {1, 2, 3}
  KindOf <- RequestKindOf
  ChatOf <- RequestChatOf
  Steering = TRUE
  Faults = {"write", "reply", "store", "turn", "panic", "crash"}
  MaxFaults = 2
SPECIFICATION FairSpec
CHECK_DEADLOCK FALSE
INVARIANTS
  NoLostWake
PROPERTIES
  PolicyClosesTheChapter
  RequestsAreCarriedOut
