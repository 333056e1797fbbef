SPECIFICATION Spec
CONSTANTS
  Cases = {"c1", "c2"}
  Sdks <- MCSdks
CHECK_DEADLOCK FALSE
INVARIANT RedOnlyForNewFailures
