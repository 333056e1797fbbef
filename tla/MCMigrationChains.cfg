SPECIFICATION Spec
CONSTANTS
  Adapters = {"py", "ts", "go"}
  Runs <- MCRuns
  DefaultDepth = 8
INVARIANTS
  TypeOK
  CorrectReaderPasses
  DefectsAreCaught
  AnswersAreTheChains
CHECK_DEADLOCK FALSE
