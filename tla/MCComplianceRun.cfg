SPECIFICATION Spec
CONSTANTS
  Suites <- MCSuites
  Selections <- MCSelections
  Answers <- MCAnswers
INVARIANTS
  OwnAnswer
  LossIsVisible
  CheckpointSafetyIsNeverExcused
  GreenMeansConformant
PROPERTY AnswersAreKept
CHECK_DEADLOCK FALSE
