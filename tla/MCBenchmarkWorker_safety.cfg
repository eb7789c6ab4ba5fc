SPECIFICATION Spec
CONSTANTS
  NumQuestions = 3
  Concurrency = 2
  Requested <- AnyOption
INVARIANTS
  SuccessIsWhole
PROPERTIES
  ResumeSkips
