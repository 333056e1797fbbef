SPECIFICATION Spec
CONSTANTS
  Adapters = {"py", "go", "ts"}
  Defects <- MCDefects
  MaxSize = 17
  Leaves <- MCLeaves
  Fillers <- MCFillers
INVARIANTS
  CorrectSdkPasses
  DefectsAreFound
  PassMeansRetained
CHECK_DEADLOCK FALSE
