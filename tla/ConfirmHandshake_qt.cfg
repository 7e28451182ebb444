CONSTANTS
  NQuestions = 4
  Polls = "timer"
  Timeouts = TRUE
  MaxFaults = 1
SPECIFICATION FairSpec
INVARIANTS TypeOK VerdictIsUsers OnlyQuestionsShown
PROPERTY UserIsHeard
CHECK_DEADLOCK FALSE
