--------------------------- MODULE MCC2spMatrix ---------------------------
(* Every defect in one SDK, in any two, and in all three.                   *)
EXTENDS C2spMatrix

MCDefects ==
  Rules \cup
  {"drops the chain", "encodes differently", "drops earlier signatures",
   "accepts an incomplete entry", "identifies signatures too", "hashes another state",
   "exports another form", "parses without signatures", "breaks on a bad bundle",
   "looks at inclusion first", "reports the first key", "raises another class"}

MCFaults ==
  {[sdks |-> {}, defect |-> "none"]}
  \cup [sdks : SUBSET {"py", "ts", "go"} \ {{}}, defect : MCDefects]
=============================================================================
