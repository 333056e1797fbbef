SPECIFICATION Spec
CONSTANTS
  Faults <- MCFaults
  Goldens = {"good", "not canonical", "another rotation"}
INVARIANTS
  CorrectSdksPass
  DefectsAreCaught
  NamesTheFaulty
CHECK_DEADLOCK FALSE
