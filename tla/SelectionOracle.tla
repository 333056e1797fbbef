-------------------------- MODULE SelectionOracle --------------------------
(***************************************************************************)
(* harness/selection_enumeration.py, `expect': the expectation the harness *)
(* holds every SDK to for a word of candidates, written without keys, state*)
(* hashes or sequence numbers.  A candidate is                             *)
(*   [id, prev, kind, authenticated]                                       *)
(* with kind in {"I", "R", "V", "M"}; positions count from 1 here.         *)
(***************************************************************************)
EXTENDS Naturals, Sequences
LOCAL INSTANCE SequencesExt

CONSTANT NoId   \* nothing applied yet

\* The locals of the loop; failing = 0 until the word is refused.
NothingRead == [applied |-> <<>>, seen |-> {}, last |-> NoId, dead |-> FALSE,
                failing |-> 0, errorCategory |-> ""]

\* Starts a lifecycle with any authenticated candidate.
WrongIgnored(r, c) ==
  \/ c.id \in r.seen
  \/ ~c.authenticated

Ignored(r, c) ==
  \/ c.id \in r.seen
  \/ ~c.authenticated
  \/ r.last = NoId /\ c.kind # "I"

Refused(r, c) ==
  /\ r.last # NoId
  /\ r.dead \/ c.kind = "I" \/ c.prev # r.last

After(r, c, index) ==
  CASE r.failing # 0 \/ Ignored(r, c) -> r
    [] ~Ignored(r, c) /\ r.failing = 0 /\ Refused(r, c) ->
         [r EXCEPT !.failing = index,
                   !.errorCategory = IF r.dead THEN "TERMINAL_STATE" ELSE "CHAIN_CONTINUITY"]
    [] OTHER -> [r EXCEPT !.applied = Append(@, index),
                          !.seen = @ \cup {c.id},
                          !.last = c.id,
                          !.dead = c.kind = "V"]

\* The locals after each prefix of the word.
Locals(word) ==
  LET after[index \in 0 .. Len(word)] ==
        IF index = 0 THEN NothingRead ELSE After(after[index - 1], word[index], index)
  IN after

\* The expectation: accepted with positions, or refused, at a position unless
\* the word holds no lifecycle at all.
Expect(word) ==
  LET r == Locals(word)[Len(word)] IN
  [valid |-> r.failing = 0 /\ r.applied # <<>>,
   applied |-> r.applied,
   ignored |-> (DOMAIN word) \ ToSet(r.applied),
   revoked |-> r.dead,
   failing |-> r.failing,
   errorCategory |-> r.errorCategory]
=============================================================================
