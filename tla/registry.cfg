SPECIFICATION RegistrySpec
CONSTANTS
  Conversations = {c1, c2}
  Callers = {p1, p2}
  MaxSpawns = 3
  MaxPanics = 1
INVARIANTS
  OneAgentPerConversation
CHECK_DEADLOCK FALSE
