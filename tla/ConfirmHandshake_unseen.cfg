CONSTANTS
  NQuestions = 2
  Polls = "timer"
  Timeouts = FALSE
  MaxFaults = 0
SPECIFICATION FairSpec
PROPERTY EveryQuestionShown
CHECK_DEADLOCK FALSE
