SPECIFICATION RunFairSpec
CONSTANTS
  Private = TRUE
  RichMessage = TRUE
  MaxThread = 3
  MaxLost = 1
  Roles = {"default", "wrapup", "digest"}
  Steering = TRUE
  Budget = 3
  MaxCalls = 3
  MaxSends = 2
  Toolbox <- SomeTools
INVARIANTS
  RunTypeOK
  EverySendIsAccountedFor
  NoticesNeverOutliveTheRun
  AnswersFollowTheirCalls
  UnsentTextIsAskedAbout
  QuietPassesStaySilent
  TheRunKnowsWhatItSaid
PROPERTIES
  RunEndsIfAnswered
CHECK_DEADLOCK FALSE
