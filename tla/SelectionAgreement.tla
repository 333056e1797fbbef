------------------------ MODULE SelectionAgreement -------------------------
(***************************************************************************)
(* The two independent statements of candidate selection in the harness,   *)
(* side by side: EventReduce (signatures, state hashes and sequence        *)
(* numbers, checked by its own main) and SelectionOracle (the expectation  *)
(* of the 399 enumerated SDK cases).  Nothing in the harness compares      *)
(* them.  Logs are words over the alphabet of `_alphabet'.                 *)
(***************************************************************************)
EXTENDS EventReduce, SequencesExt

CONSTANTS Alphabet,  \* name -> [entry, kind, authenticated]
          MaxLen     \* longest word

Oracle == INSTANCE SelectionOracle

\* The state that the issuance g leads to.
Born(g) == [status |-> "ACTIVE", entity |-> Payload[g].ek, operational |-> Payload[g].ku]

\* A later event that continues g and nothing else.
FollowsOn(p, g) ==
  ~p.prohibited /\ p.prev = g /\ p.seq = 1 /\ p.prevState = Born(g)

\* A candidate of the one lifecycle that g begins, of the type its kind says,
\* and authenticated if its signatures are those the keys of g owe.
OfLifecycle(g, c) ==
  LET p == Payload[c.entry.id]
      sigs == c.entry.sigs IN
  /\ c.entry \in Entry
  /\ \/ /\ c.kind = "I" /\ p.type = "ISSUANCE" /\ c.entry.id = g
        /\ ~p.prohibited /\ p.seq = 0 /\ p.prev = NoId /\ p.prevState = NoState
        /\ c.authenticated = (sigs = [ae |-> p.ek, op |-> p.ku])
     \/ /\ c.kind = "R" /\ p.type = "KEY_ROTATION"
        /\ FollowsOn(p, g) /\ p.prevThumb = Payload[g].ku
        /\ c.authenticated = (sigs = [prev_op |-> Payload[g].ku, new_op |-> p.newKu])
     \/ /\ c.kind = "V" /\ p.type = "REVOCATION"
        /\ FollowsOn(p, g)
        /\ c.authenticated = (sigs = [ae |-> Payload[g].ek])
     \/ c.kind = "M" /\ p.type = "MIGRATION" /\ c.authenticated = FALSE

\* `_alphabet' asserts the types and that all but issuances and migrations name
\* its one genesis.
ASSUME AlphabetAssumption ==
  \E g \in Id : \A n \in DOMAIN Alphabet : OfLifecycle(g, Alphabet[n])

Letters == {Alphabet[n].entry : n \in DOMAIN Alphabet}

Words == BoundedSeq(Letters, MaxLen)

Letter(e) ==
  LET c == CHOOSE n \in DOMAIN Alphabet : Alphabet[n].entry = e IN
  [id |-> e.id, prev |-> Body(e).prev,
   kind |-> Alphabet[c].kind, authenticated |-> Alphabet[c].authenticated]

Expected == Oracle!Expect([k \in DOMAIN entries |-> Letter(entries[k])])

\* On a word, `reduce' and `expect' accept alike, apply the same events in the
\* same order and end in the same status; or they refuse alike, at the same
\* candidate and for the same reason.
SelectionsAgree ==
  outcome # "reading" /\ ToSet(entries) \subseteq Letters =>
    /\ outcome = "selected" <=> Expected.valid
    /\ outcome = "selected" =>
         /\ Cardinality(DOMAIN seen) = Len(Expected.applied)
         /\ \A k \in DOMAIN Expected.applied :
              LET i == entries[Expected.applied[k]].id IN
              i \in DOMAIN seen /\ Payload[i].seq = k - 1
         /\ Expected.revoked <=> state.status = "REVOKED"
    /\ outcome \notin {"selected", "GENESIS_REQUIRED"} =>
         Expected.failing = next /\ Expected.errorCategory = outcome
=============================================================================
