-------------------------- MODULE MCComparisonGate --------------------------
(* Two cases, so that one can be fixed while the other breaks, every         *)
(* behaviour of both revisions and every set of markers.                     *)
EXTENDS ComparisonGate

MCSdks == [Cases -> Behaviours]
=============================================================================
