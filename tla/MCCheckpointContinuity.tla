---------------------- MODULE MCCheckpointContinuity ----------------------
(* Every adapter with every defect; the suite itself is the bound.          *)
EXTENDS CheckpointContinuity

MCFillers == [i \in 1 .. 16 |-> ToString(i)]
MCLeaves == {"issuance", "rotation", "alternate"} \cup {MCFillers[i] : i \in 1 .. 16}

MCDefects ==
  {"none", "accepts an unsigned checkpoint", "trusts the scan it is given",
   "takes a failed load for first contact", "accepts a rollback", "accepts another root",
   "does without evidence", "never asks for a proof", "accepts any proof", "accepts any prefix",
   "looks at continuity first", "ignores a failed write", "keeps the old checkpoint",
   "stores before it checks", "drops the cause", "leaks the dependency's error",
   "leaks a store error it does not export",
   "calls every failure permanent", "gives no diagnostics", "hands out its store",
   "passes over surplus nodes", "ignores the old root", "ignores the new root"}
=============================================================================
