CONSTANTS
  NQuestions = 4
  Polls = "timer"
  Timeouts = TRUE
  MaxFaults = 1
SPECIFICATION Spec
INVARIANTS TypeOK VerdictIsUsers OnlyQuestionsShown InHand InTurn
CHECK_DEADLOCK FALSE
