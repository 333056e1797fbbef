-------------------------- MODULE MCMigrationChains --------------------------
(* The corpus with every defect, and, for a reader without one, every three *)
(* logs that begin with an issuance, a migration from one of the other two, *)
(* or a forged migration before an issuance, and may end with a revocation. *)
EXTENDS MigrationChains

Beginnings(log) ==
  {<<Genesis>>}
  \cup {<<Migration(source, i)>> : source \in {"a", "b", "c"} \ {log}, i \in 1 .. 2}
  \cup {<<Forged(source), Genesis>> : source \in {"a", "b", "c"} \ {log}}

Contents(log) == Beginnings(log) \cup {Append(b, Revoked) : b \in Beginnings(log)}

MadeUp ==
  {Add("made up", [a |-> x, b |-> y, c |-> z], "a", Fail, d) :
     x \in Contents("a"), y \in Contents("b"), z \in Contents("c"), d \in {Default, 1}}

Defects ==
  {"none", "does not hand the limit on", "imports all of the source", "imports revoked history",
   "takes unauthenticated entries", "is stopped by unauthenticated entries",
   "dates the key from the migration", "imports nothing", "remembers the logs it has seen",
   "answers for times before the genesis", "raises runtime errors"}

MCRuns == [case : Corpus, defect : Defects] \cup [case : MadeUp, defect : {"none"}]
=============================================================================
