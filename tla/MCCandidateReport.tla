------------------------- MODULE MCCandidateReport -------------------------
(***************************************************************************)
(* CandidateReport over the candidates of selection_enumeration.py (bad-R  *)
(* and partial-R are copies of R with a signature invalid or stripped) and,*)
(* for the adapters that take any log, the curated ones of                 *)
(* c2sp-lifecycle-selection.json: a second issuance, a signature-only copy *)
(* of the issuance, and a revocation whose inclusion proof is bad. And over*)
(* the events of lifecycle-transitions.json, in half days from the end of  *)
(* 2025, with snapshots before, between, at and after them.                *)
(***************************************************************************)
EXTENDS CandidateReport, SequencesExt

CONSTANTS MaxLen,    \* longest log
          MaxEvents  \* longest list of events

Letter(i, prev, kind, authenticated, values) ==
  [id |-> i, prev |-> prev, kind |-> kind, authenticated |-> authenticated,
   proven |-> TRUE, values |-> values]

Rotation == Letter("R", "I", "R", TRUE, "R")
Revocation == Letter("V", "I", "V", TRUE, "V")

Enumerated ==
  {Letter("I", NoId, "I", TRUE, "I"),
   Rotation,
   Letter("FORK", "I", "R", TRUE, "FORK"),
   Revocation,
   [Rotation EXCEPT !.authenticated = FALSE, !.values = "bad-R"],
   [Rotation EXCEPT !.authenticated = FALSE, !.values = "partial-R"],
   Letter("M", NoId, "M", FALSE, "M")}

SecondIssuance == Letter("I2", NoId, "I", TRUE, "I2")
IssuanceCopy == Letter("I", NoId, "I", TRUE, "I-copy")
UnprovenRevocation == [Revocation EXCEPT !.proven = FALSE]

Curated == Enumerated \cup {SecondIssuance, IssuanceCopy, UnprovenRevocation}

\* go on the 399 enumerated cases; py and ts on every curated log.
SuiteLogs ==
  [go |-> BoundedSeq(Enumerated, 3) \ {<<>>},
   py |-> BoundedSeq(Curated, MaxLen),
   ts |-> BoundedSeq(Curated, MaxLen)]

Event(type, day) ==
  [type |-> type, domain |-> Reducer!Domain, time |-> day, entity |-> "", entityThumb |-> "",
   key |-> "", keyThumb |-> "", replaces |-> "", reason |-> "", toSameLog |-> FALSE]

Issuance(entity, key, day) ==
  [Event("ISSUANCE", day) EXCEPT !.entity = entity, !.entityThumb = entity, !.key = key, !.keyThumb = key]

KeyRotation(from, key, thumb, day) ==
  [Event("KEY_ROTATION", day) EXCEPT !.replaces = from, !.key = key, !.keyThumb = thumb]

Events ==
  {Issuance("entity-1", "op-1", 2), Issuance("entity-2", "op-9", 64), Issuance("op-1", "op-1", 2),
   Issuance("", "op-1", 2), Issuance("entity-1", "", 2),
   [Issuance("entity-1", "op-1", 2) EXCEPT !.domain = "other.example"],
   KeyRotation("op-1", "op-2", "op-2", 4), KeyRotation("op-2", "op-3", "op-3", 6),
   KeyRotation("op-1", "op-3", "op-3", 6), KeyRotation("op-1", "op-1", "op-1", 4),
   KeyRotation("op-1", "op-2", "op-9", 4), KeyRotation("op-1", "op-2", "", 4),
   KeyRotation("op-1", "op-2", "op-2", 8),
   [Event("REVOCATION", 6) EXCEPT !.reason = "keyCompromise"],
   [Event("REVOCATION", 6) EXCEPT !.reason = "ownerRequest"],
   Event("RETIREMENT", 6), Event("DELEGATION", 5), Event("MIGRATION", 5),
   [Event("MIGRATION", 5) EXCEPT !.toSameLog = TRUE], Event("FUTURE_EVENT", 5)}

Snapshots == {1, 3, 4, 5, 6, 99}

EventLists == [s \in DOMAIN SuiteLogs |-> BoundedSeq(Events, MaxEvents)]
=============================================================================
