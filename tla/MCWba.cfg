SPECIFICATION MCSpec
CONSTANTS
  Adapters <- MCAdapters
  Runs <- MCRuns
INVARIANTS
  CorrectVerifierPasses
  DefectsAreCaught
  RejectionIsTheFinalOne
  ScenarioIsWhatItSays
  PassedMessageVerifies
  CarefulSignerPasses
PROPERTY
  EveryCaseIsJudged
CHECK_DEADLOCK FALSE
