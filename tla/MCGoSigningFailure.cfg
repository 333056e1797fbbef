SPECIFICATION Spec
CONSTANT Errors <- MCErrors
INVARIANT OnlyNativeRejectionsPass
CHECK_DEADLOCK FALSE
