SPECIFICATION Spec
CONSTANTS
  Suites <- MCSuites
  Selections <- MCSelections
  Answers <- MCAnswers
INVARIANT VerifierCrashIsPerCase
CHECK_DEADLOCK FALSE
