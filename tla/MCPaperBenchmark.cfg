SPECIFICATION PaperSpec
CONSTANTS
  QuestionCount = 3
  RunOptions <- AnyOption
INVARIANTS
  ExitZeroIsComplete
PROPERTIES
  AskedOnce
  AnswersKept
