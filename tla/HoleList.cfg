CONSTANTS
  MSS = 2
  Limit = 6
  MaxQueue = 2
SPECIFICATION ListSpec
INVARIANTS HolesSound InterestsCoverQueue AnswerSplits
CHECK_DEADLOCK FALSE
