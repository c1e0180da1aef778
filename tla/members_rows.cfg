CONSTANTS
  A = A
  B = B
  P = P
  Q = Q
  Conversations = {1, 2, 3}
  Chats = {A, B}
  Changes = {1, 2, 3}
  Operators = {P, Q}
  ChatOf <- EveryChatOf
  KindOf <- EveryKindOf
  Start <- Apart
  MaxMoves = 2
  MaxFaults = 1
SPECIFICATION Spec
SYMMETRY OperatorSymmetry
CHECK_DEADLOCK FALSE
INVARIANTS
  TypeOK
  EveryChangeHasOnePlace
  MovesNeverDeadlock
  OriginsAreMounted
  OnlyLateEntriesAreStray
