CONSTANTS
  NQuestions = 1
  Polls = "task"
  Timeouts = FALSE
  MaxFaults = 0
SPECIFICATION Spec
INVARIANT OnlyQuestionsShown
CHECK_DEADLOCK FALSE
