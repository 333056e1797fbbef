------------------------- MODULE EventReduceProofs -------------------------
(***************************************************************************)
(* EventReduce for every set of keys and events and every log: typing, the *)
(* linear history, the finality of a revocation, the authority behind every*)
(* applied event, and that reduce implements Lifecycle. Last, that reduce  *)
(* and the expectation of the enumerated cases agree on every word.        *)
(***************************************************************************)
EXTENDS SelectionAgreement, FiniteSetTheorems, SequenceTheorems, WellFoundedInduction, TLAPS

\* What the three applying actions have in common, and what each adds.
Extends(e, post) ==
  /\ Fresh(e)
  /\ Apply(e, post)
  /\ state # NoState
  /\ state.status = "ACTIVE"
  /\ ExtendsChain(e)
  /\ \/ /\ Body(e).type = "KEY_ROTATION"
        /\ post = [state EXCEPT !.operational = Body(e).newKu]
     \/ /\ Body(e).type = "REVOCATION"
        /\ post = [state EXCEPT !.status = "REVOKED"]

Starts(e, post) ==
  /\ Fresh(e)
  /\ Apply(e, post)
  /\ state = NoState
  /\ StartsChain(e)
  /\ post = [status |-> "ACTIVE", entity |-> Body(e).ek, operational |-> Body(e).ku]

\* A step of the loop leaves the history alone, starts it or extends it by
\* the candidate under the cursor.
Unmoved ==
  /\ UNCHANGED <<entries, seen, last, state>>
  /\ next' \in {next, next + 1}
  /\ next' = next + 1 => next <= Len(entries)
  /\ outcome' \in Outcomes

Moves ==
  \/ Unmoved
  \/ /\ next <= Len(entries)
     /\ \E post : Starts(entries[next], post) \/ Extends(entries[next], post)

LEMMA StepMoves ==
  ASSUME TypeOK, [Next]_vars
  PROVE  Moves
<1>1. CASE UNCHANGED vars
  BY <1>1 DEF vars, Moves, Unmoved, TypeOK
<1>2. CASE Return
  BY <1>2 DEF Return, Moves, Unmoved, TypeOK, Outcomes
<1>3. CASE Reading /\ Candidate(entries[next])
  <2> DEFINE e == entries[next]
  <2>0. next <= Len(entries)
    BY <1>3 DEF Reading
  <2>1. CASE Copy(e)
    BY <2>1, <2>0 DEF Copy, Skip, Moves, Unmoved, TypeOK
  <2>2. CASE Noise(e)
    BY <2>2, <2>0 DEF Noise, Skip, Moves, Unmoved, TypeOK
  <2>3. CASE AfterTerminal(e)
    BY <2>3 DEF AfterTerminal, Raise, Moves, Unmoved, TypeOK, Outcomes
  <2>4. CASE SecondIssuance(e)
    BY <2>4 DEF SecondIssuance, Raise, Moves, Unmoved, TypeOK, Outcomes
  <2>5. CASE BrokenChain(e)
    BY <2>5 DEF BrokenChain, Raise, Moves, Unmoved, TypeOK, Outcomes
  <2>6. CASE Genesis(e)
    <3> DEFINE post == [status |-> "ACTIVE", entity |-> Body(e).ek, operational |-> Body(e).ku]
    <3>1. Starts(e, post)
      BY <2>6 DEF Genesis, MayContinue, Starts
    <3>2. QED
      BY <3>1, <2>0 DEF Moves
  <2>7. CASE Rotation(e)
    <3>1. CASE Body(e).prevThumb = state.operational
      <4> DEFINE post == [state EXCEPT !.operational = Body(e).newKu]
      <4>1. Extends(e, post)
        BY <2>7, <3>1 DEF Rotation, Continues, MayContinue, Extends
      <4>2. QED
        BY <4>1, <2>0 DEF Moves
    <3>2. CASE Body(e).prevThumb # state.operational
      BY <2>7, <3>2 DEF Rotation, Raise, Moves, Unmoved, TypeOK, Outcomes
    <3>3. QED
      BY <3>1, <3>2
  <2>8. CASE Revocation(e)
    <3> DEFINE post == [state EXCEPT !.status = "REVOKED"]
    <3>1. Extends(e, post)
      BY <2>8 DEF Revocation, Continues, MayContinue, Extends
    <3>2. QED
      BY <3>1, <2>0 DEF Moves
  <2>9. QED
    BY <1>3, <2>1, <2>2, <2>3, <2>4, <2>5, <2>6, <2>7, <2>8 DEF Candidate
<1>4. QED
  BY <1>1, <1>2, <1>3 DEF Next

\* The state an applying step leads to is a lifecycle state.
LEMMA PostIsState ==
  ASSUME TypeOK, next <= Len(entries), NEW post,
         Starts(entries[next], post) \/ Extends(entries[next], post)
  PROVE  /\ entries[next] \in Entry
         /\ entries[next].id \in Id \ DOMAIN seen
         /\ Payload[entries[next].id] \in PayloadFields
         /\ post \in State
<1> DEFINE e == entries[next]
<1>1. e \in Entry
  BY DEF TypeOK
<1>2. e.id \in Id
  BY <1>1 DEF Entry
<1>3. Payload[e.id] \in PayloadFields
  BY <1>2, PayloadAssumption
<1>4. e.id \notin DOMAIN seen
  BY DEF Starts, Extends, Fresh
<1>5. ASSUME Starts(e, post) PROVE post \in State
  BY <1>3, <1>5 DEF Starts, Body, PayloadFields, State
<1>6. ASSUME Extends(e, post) PROVE post \in State
  <2>1. state \in State
    BY <1>6 DEF Extends, TypeOK
  <2>2. Body(e).newKu \in Key
    BY <1>3 DEF Body, PayloadFields
  <2>3. QED
    BY <1>6, <2>1, <2>2 DEF Extends, State
<1>7. QED
  BY <1>1, <1>2, <1>3, <1>4, <1>5, <1>6

LEMMA TypeStep ==
  ASSUME TypeOK, [Next]_vars
  PROVE  TypeOK'
<1>1. CASE Unmoved
  BY <1>1 DEF Unmoved, TypeOK
<1>2. ASSUME next <= Len(entries), NEW post,
             Starts(entries[next], post) \/ Extends(entries[next], post)
      PROVE  TypeOK'
  <2> DEFINE e == entries[next]
  <2>1. Apply(e, post)
    BY <1>2 DEF Starts, Extends
  <2>2. e.id \in Id /\ post \in State
    BY <1>2, PostIsState
  <2>3. /\ DOMAIN seen' = DOMAIN seen \cup {e.id}
        /\ \A i \in DOMAIN seen' : seen'[i] \in State
    BY <2>1, <2>2 DEF Apply, TypeOK
  <2>4. entries' = entries /\ next' = next + 1 /\ next \in 1 .. Len(entries) /\ Len(entries) \in Nat
    BY <2>1, <1>2 DEF Apply, TypeOK
  <2>5. QED
    BY <2>1, <2>2, <2>3, <2>4 DEF Apply, TypeOK
<1>3. QED
  BY <1>1, <1>2, StepMoves DEF Moves

\* The locals of `reduce' keep their types, for every log.
THEOREM TypeCorrect == Spec => []TypeOK
<1>1. Init => TypeOK
  BY InputsAssumption DEF Init, TypeOK, Outcomes
<1>2. TypeOK /\ [Next]_vars => TypeOK'
  BY TypeStep
<1>3. QED
  BY <1>1, <1>2, PTL DEF Spec

-----------------------------------------------------------------------------
(* The history stays linear.  TypeOK is needed to know that NoId names no   *)
(* event and NoState is no state, so a chain with a state has a last event. *)

LEMMA HistoryExtends ==
  ASSUME TypeOK, LinearHistory, next <= Len(entries), NEW post,
         Extends(entries[next], post)
  PROVE  /\ last \in DOMAIN seen
         /\ state = seen[last]
         /\ Payload[entries[next].id].prev = last
         /\ Payload[entries[next].id].prevState = seen[last]
         /\ Payload[entries[next].id].seq = Payload[last].seq + 1
         /\ DOMAIN seen' = DOMAIN seen \cup {entries[next].id}
         /\ \A i \in DOMAIN seen : seen'[i] = seen[i]
         /\ seen'[entries[next].id] = post
         /\ last' = entries[next].id
         /\ state' = post
<1>1. last \in DOMAIN seen /\ state = seen[last]
  BY DEF LinearHistory, Extends
<1>2. entries[next].id \notin DOMAIN seen
  BY PostIsState
<1>3. QED
  BY <1>1, <1>2 DEF Extends, ExtendsChain, Body, Apply

LEMMA HistoryStarts ==
  ASSUME TypeOK, LinearHistory, next <= Len(entries), NEW post,
         Starts(entries[next], post)
  PROVE  /\ DOMAIN seen = {}
         /\ Payload[entries[next].id].type = "ISSUANCE"
         /\ Payload[entries[next].id].seq = 0
         /\ DOMAIN seen' = {entries[next].id}
         /\ seen'[entries[next].id] = post
         /\ last' = entries[next].id
         /\ state' = post
<1>1. DOMAIN seen = {}
  <2>1. state \notin State
    BY NamesAssumption DEF Starts
  <2>2. last \in DOMAIN seen => seen[last] \in State
    BY DEF TypeOK
  <2>3. QED
    BY <2>1, <2>2 DEF LinearHistory
<1>2. DOMAIN seen' = DOMAIN seen \cup {entries[next].id} /\ seen'[entries[next].id] = post
  BY DEF Starts, Apply
<1>3. DOMAIN seen' = {entries[next].id}
  BY <1>1, <1>2
<1>4. Payload[entries[next].id].type = "ISSUANCE" /\ Payload[entries[next].id].seq = 0
  BY DEF Starts, StartsChain, Body
<1>5. last' = entries[next].id /\ state' = post
  BY DEF Starts, Apply
<1>6. QED
  BY <1>1, <1>2, <1>3, <1>4, <1>5

LEMMA LinearStep ==
  ASSUME TypeOK, LinearHistory, [Next]_vars
  PROVE  LinearHistory'
<1>1. CASE Unmoved
  BY <1>1 DEF Unmoved, LinearHistory
<1>2. ASSUME next <= Len(entries), NEW post, Starts(entries[next], post)
      PROVE  LinearHistory'
  <2> DEFINE n == entries[next].id
  <2>1. /\ Payload[n].type = "ISSUANCE"
        /\ Payload[n].seq = 0
        /\ DOMAIN seen' = {n}
        /\ last' = n
        /\ state' = seen'[n]
    BY <1>2, HistoryStarts
  <2>2. \A i \in DOMAIN seen' : i = n
    BY <2>1
  <2>3. \A i \in DOMAIN seen' :
          /\ Payload[i].seq <= Payload[last'].seq
          /\ Payload[i].type = "ISSUANCE" <=> Payload[i].seq = 0
          /\ ~(Payload[i].seq # 0)
    BY <2>1, <2>2
  <2>4. \A i, j \in DOMAIN seen' : Payload[i].seq = Payload[j].seq => i = j
    BY <2>2
  <2>5. QED
    BY <2>1, <2>3, <2>4 DEF LinearHistory
<1>3. ASSUME next <= Len(entries), NEW post, Extends(entries[next], post)
      PROVE  LinearHistory'
  <2> DEFINE n == entries[next].id
  <2>1. n \in Id \ DOMAIN seen
    BY <1>3, PostIsState
  <2>2. \A i \in DOMAIN seen' : Payload[i].seq \in Nat
    BY <1>3, <2>1, HistoryExtends, PayloadAssumption DEF TypeOK, PayloadFields
  <2>3. Payload[n].type # "ISSUANCE"
    BY <1>3 DEF Extends, Body
  <2>4. /\ last \in DOMAIN seen
        /\ Payload[n].prev = last
        /\ Payload[n].prevState = seen[last]
        /\ Payload[n].seq = Payload[last].seq + 1
        /\ DOMAIN seen' = DOMAIN seen \cup {n}
        /\ \A i \in DOMAIN seen : seen'[i] = seen[i]
        /\ last' = n
        /\ state' = seen'[n]
    BY <1>3, HistoryExtends
  <2>5. \A i \in DOMAIN seen : Payload[i].seq <= Payload[last].seq
    BY <2>4 DEF LinearHistory
  <2>6. \A i \in DOMAIN seen' :
          /\ Payload[i].seq <= Payload[last'].seq
          /\ Payload[i].type = "ISSUANCE" <=> Payload[i].seq = 0
    BY <2>2, <2>3, <2>4, <2>5 DEF LinearHistory
  <2>7. ASSUME NEW i \in DOMAIN seen', Payload[i].seq # 0
        PROVE  /\ Payload[i].prev \in DOMAIN seen'
               /\ Payload[i].seq = Payload[Payload[i].prev].seq + 1
               /\ Payload[i].prevState = seen'[Payload[i].prev]
    <3>1. CASE i = n
      BY <2>4, <3>1
    <3>2. CASE i \in DOMAIN seen
      BY <2>4, <2>7, <3>2 DEF LinearHistory
    <3>3. QED
      BY <2>4, <3>1, <3>2
  <2>8. \A i, j \in DOMAIN seen' : Payload[i].seq = Payload[j].seq => i = j
    BY <2>2, <2>4, <2>5 DEF LinearHistory
  <2>9. QED
    BY <2>4, <2>6, <2>7, <2>8 DEF LinearHistory
<1>4. QED
  BY <1>1, <1>2, <1>3, StepMoves DEF Moves

\* Whatever the log holds, the applied events are one unbroken chain.
THEOREM HistoryIsLinear == Spec => []LinearHistory
<1>1. Init => LinearHistory
  BY DEF Init, LinearHistory
<1>2. TypeOK /\ LinearHistory /\ [Next]_vars => LinearHistory'
  BY LinearStep
<1>3. QED
  BY <1>1, <1>2, TypeCorrect, PTL DEF Spec

-----------------------------------------------------------------------------
(* Finality: a revoked state stops every later apply, and the linear history*)
(* makes the current state the only one a revocation can have led to.       *)

LEMMA TerminalStep ==
  ASSUME TypeOK, LinearHistory, TerminalIsFinal, [Next]_vars
  PROVE  TerminalIsFinal'
<1>1. CASE Unmoved
  BY <1>1 DEF Unmoved, TerminalIsFinal
<1>2. ASSUME next <= Len(entries), NEW post, Starts(entries[next], post)
      PROVE  TerminalIsFinal'
  BY <1>2, HistoryStarts DEF TerminalIsFinal
<1>3. ASSUME next <= Len(entries), NEW post, Extends(entries[next], post)
      PROVE  TerminalIsFinal'
  <2>1. \A i \in DOMAIN seen : seen[i].status # "REVOKED"
    BY <1>3, HistoryExtends DEF TerminalIsFinal, Extends
  <2>2. QED
    BY <1>3, <2>1, HistoryExtends DEF TerminalIsFinal
<1>4. QED
  BY <1>1, <1>2, <1>3, StepMoves DEF Moves

\* Nothing is ever built on a revocation.
THEOREM RevocationIsFinal == Spec => []TerminalIsFinal
<1>1. Init => TerminalIsFinal
  BY DEF Init, TerminalIsFinal
<1>2. TypeOK /\ LinearHistory /\ TerminalIsFinal /\ [Next]_vars => TerminalIsFinal'
  BY TerminalStep
<1>3. QED
  BY <1>1, <1>2, TypeCorrect, HistoryIsLinear, PTL DEF Spec

-----------------------------------------------------------------------------
(* Authority: signatures are judged by the state after the named           *)
(* predecessor.  An event that is applied names the last one, so the keys  *)
(* it was judged by are the keys its place in the history entitles it to.  *)

LEMMA OldSigsUnchanged ==
  ASSUME TypeOK, LinearHistory, next <= Len(entries), NEW post,
         Extends(entries[next], post), NEW i \in DOMAIN seen
  PROVE  HistoricalSigs(i)' = HistoricalSigs(i)
<1>1. \A j \in DOMAIN seen : seen'[j] = seen[j]
  BY HistoryExtends
<1>2. CASE Payload[i].type = "ISSUANCE"
  BY <1>2 DEF HistoricalSigs
<1>3. CASE Payload[i].type # "ISSUANCE"
  <2>1. Payload[i].prev \in DOMAIN seen
    BY <1>3 DEF LinearHistory
  <2>2. QED
    BY <1>1, <1>3, <2>1 DEF HistoricalSigs
<1>4. QED
  BY <1>2, <1>3

LEMMA NewSigsHistorical ==
  ASSUME TypeOK, LinearHistory, next <= Len(entries), NEW post,
         Starts(entries[next], post) \/ Extends(entries[next], post),
         NEW n, n = entries[next].id
  PROVE  entries[next].sigs = HistoricalSigs(n)'
<1> DEFINE e == entries[next]
<1>1. e.sigs = RequiredSigs(e)
  BY DEF Starts, Extends, Fresh, Authenticated
<1>2. CASE Starts(e, post)
  <2>1. Payload[n].type = "ISSUANCE" /\ DOMAIN seen = {}
    BY <1>2, HistoryStarts
  <2>2. Authority(e) = NoState
    BY <1>2, <2>1 DEF Authority, Starts
  <2>3. RequiredSigs(e) = [ae |-> Payload[n].ek, op |-> Payload[n].ku]
    BY <2>1, <2>2 DEF RequiredSigs, Body
  <2>4. QED
    BY <1>1, <2>1, <2>3 DEF HistoricalSigs
<1>3. CASE Extends(e, post)
  <2>1. /\ last \in DOMAIN seen
        /\ Payload[n].prev = last
        /\ seen'[last] = seen[last]
    BY <1>3, HistoryExtends
  <2>2. Authority(e) = seen'[Payload[n].prev]
    BY <2>1 DEF Authority, Body
  <2>3. CASE Payload[n].type = "KEY_ROTATION"
    BY <1>1, <2>2, <2>3 DEF RequiredSigs, HistoricalSigs, Body
  <2>4. CASE Payload[n].type = "REVOCATION"
    BY <1>1, <2>2, <2>4 DEF RequiredSigs, HistoricalSigs, Body
  <2>5. QED
    BY <1>3, <2>3, <2>4 DEF Extends, Body
<1>4. QED
  BY <1>2, <1>3

LEMMA PositionsGrow ==
  ASSUME NEW a \in Nat, NEW b \in Nat, a <= b, NEW k \in 1 .. a - 1
  PROVE  k \in 1 .. b - 1
OBVIOUS

LEMMA AuthorizedStep ==
  ASSUME TypeOK, LinearHistory, AuthorizedHistory, [Next]_vars
  PROVE  AuthorizedHistory'
<1>1. CASE Unmoved
  <2>1. next \in Nat /\ next' \in Nat /\ next <= next'
    BY <1>1 DEF Unmoved, TypeOK
  <2>2. ASSUME NEW i \in DOMAIN seen'
        PROVE  \E k \in 1 .. next' - 1 :
                 entries'[k].id = i /\ entries'[k].sigs = HistoricalSigs(i)'
    <3>1. HistoricalSigs(i)' = HistoricalSigs(i) /\ i \in DOMAIN seen /\ entries' = entries
      BY <1>1 DEF Unmoved, HistoricalSigs
    <3>2. PICK k \in 1 .. next - 1 :
                 entries[k].id = i /\ entries[k].sigs = HistoricalSigs(i)
      BY <3>1 DEF AuthorizedHistory
    <3>3. k \in 1 .. next' - 1
      BY <2>1, PositionsGrow
    <3>4. QED
      BY <3>1, <3>2, <3>3
  <2>3. QED
    BY <2>2 DEF AuthorizedHistory
<1>2. ASSUME next <= Len(entries), NEW post,
             Starts(entries[next], post) \/ Extends(entries[next], post),
             NEW n, n = entries[next].id
      PROVE  AuthorizedHistory'
  <2>1. /\ entries' = entries
        /\ next' = next + 1
        /\ next \in Nat \ {0}
        /\ DOMAIN seen' = DOMAIN seen \cup {n}
    BY <1>2 DEF Starts, Extends, Apply, TypeOK
  <2>2. ASSUME NEW i \in DOMAIN seen'
        PROVE  \E k \in 1 .. next' - 1 :
                 entries'[k].id = i /\ entries'[k].sigs = HistoricalSigs(i)'
    <3>1. CASE i = n
      <4>1. next \in 1 .. next' - 1
        BY <2>1
      <4>2. entries[next].sigs = HistoricalSigs(i)'
        BY <1>2, <3>1, NewSigsHistorical
      <4>3. QED
        BY <1>2, <2>1, <3>1, <4>1, <4>2
    <3>2. CASE i \in DOMAIN seen
      <4>1. HistoricalSigs(i)' = HistoricalSigs(i)
        BY <1>2, <3>2, OldSigsUnchanged, HistoryStarts
      <4>2. PICK k \in 1 .. next - 1 :
                   entries[k].id = i /\ entries[k].sigs = HistoricalSigs(i)
        BY <3>2 DEF AuthorizedHistory
      <4>3. k \in 1 .. next' - 1
        BY <2>1, <4>2
      <4>4. QED
        BY <2>1, <4>1, <4>2, <4>3
    <3>3. QED
      BY <2>1, <3>1, <3>2
  <2>3. QED
    BY <2>2 DEF AuthorizedHistory
<1>3. QED
  BY <1>1, <1>2, StepMoves DEF Moves

\* Every applied event was signed in the log by the keys then in force.
THEOREM HistoryIsAuthorized == Spec => []AuthorizedHistory
<1>1. Init => AuthorizedHistory
  BY DEF Init, AuthorizedHistory
<1>2. TypeOK /\ LinearHistory /\ AuthorizedHistory /\ [Next]_vars => AuthorizedHistory'
  BY AuthorizedStep
<1>3. QED
  BY <1>1, <1>2, TypeCorrect, HistoryIsLinear, PTL DEF Spec

-----------------------------------------------------------------------------
(* Omissions: what has been read and follows its predecessor is applied if *)
(* the keys of that predecessor signed it.  Forks are judged when they are *)
(* read, so a later event can only become the predecessor of later ones.   *)

\* The entry at k follows its predecessor in the log and is signed by its keys.
SignedFork(k) ==
  LET i == entries[k].id IN
  /\ Payload[i].type \in {"KEY_ROTATION", "REVOCATION"}
  /\ Payload[i].prev \in DOMAIN seen
  /\ entries[k].sigs = HistoricalSigs(i)
  /\ \A j \in 1 .. Len(entries) : entries[j].id = Payload[i].prev => j < k

NoneOmittedYet ==
  /\ outcome = "selected" => next > Len(entries)
  /\ \A k \in 1 .. next - 1 : SignedFork(k) => entries[k].id \in DOMAIN seen

\* The cursor moves past a candidate that is not applied for two reasons only.
LEMMA SkippedForAReason ==
  ASSUME TypeOK, [Next]_vars, Unmoved, next' = next + 1
  PROVE  \/ entries[next].id \in DOMAIN seen
         \/ ~Authenticated(entries[next])
<1> DEFINE e == entries[next]
<1>1. next \in Nat /\ next' # next
  BY DEF TypeOK
<1>2. Candidate(e)
  BY <1>1 DEF Next, Return, vars
<1>3. ASSUME NEW post, Apply(e, post) PROVE e.id \in DOMAIN seen
  <2>1. e.id \in DOMAIN seen'
    BY <1>3 DEF Apply
  <2>2. QED
    BY <2>1 DEF Unmoved
<1>4. ~AfterTerminal(e) /\ ~SecondIssuance(e) /\ ~BrokenChain(e)
  BY <1>1 DEF AfterTerminal, SecondIssuance, BrokenChain, Raise
<1>5. CASE Rotation(e)
  BY <1>1, <1>3, <1>5 DEF Rotation, Raise
<1>6. QED
  BY <1>2, <1>3, <1>4, <1>5 DEF Candidate, Copy, Noise, Genesis, Revocation

\* A fork that its predecessor's keys signed is authenticated.
LEMMA SignedForksAreAuthentic ==
  ASSUME TypeOK, next \in 1 .. Len(entries), SignedFork(next)
  PROVE  Authenticated(entries[next])
<1> DEFINE e == entries[next]
<1>1. Authority(e) = seen[Body(e).prev] /\ Authority(e) # NoState
  BY NamesAssumption DEF SignedFork, Authority, Body, TypeOK
<1>2. HasRoles(e)
  BY <1>1 DEF SignedFork, HasRoles, Body
<1>3. CASE Body(e).type = "KEY_ROTATION"
  BY <1>1, <1>2, <1>3 DEF SignedFork, HistoricalSigs, Authenticated, RequiredSigs, Body
<1>4. CASE Body(e).type = "REVOCATION"
  BY <1>1, <1>2, <1>4 DEF SignedFork, HistoricalSigs, Authenticated, RequiredSigs, Body
<1>5. QED
  BY <1>3, <1>4 DEF SignedFork, Body

LEMMA OmittedStep ==
  ASSUME TypeOK, LinearHistory, NoneOmittedYet, [Next]_vars
  PROVE  NoneOmittedYet'
<1>1. next \in Nat /\ Len(entries) \in Nat /\ entries' = entries
  BY StepMoves DEF TypeOK, Moves, Unmoved, Starts, Extends, Apply
<1>2. outcome' = "selected" => next' > Len(entries')
  <2>1. CASE UNCHANGED vars
    BY <2>1 DEF vars, NoneOmittedYet
  <2>2. CASE Return
    BY <2>2, <1>1 DEF Return
  <2>3. CASE Reading /\ Candidate(entries[next])
    BY <2>3 DEF Reading, Candidate, Copy, Noise, Skip, AfterTerminal, SecondIssuance, BrokenChain,
            Raise, Genesis, Rotation, Revocation, Apply
  <2>4. QED
    BY <2>1, <2>2, <2>3 DEF Next
<1>3. CASE Unmoved
  <2>1. ASSUME NEW k \in 1 .. next' - 1, SignedFork(k)'
        PROVE  entries[k].id \in DOMAIN seen
    <3>1. SignedFork(k)
      BY <1>3, <2>1 DEF Unmoved, SignedFork, HistoricalSigs
    <3>2. CASE k \in 1 .. next - 1
      BY <3>1, <3>2 DEF NoneOmittedYet
    <3>3. CASE k = next /\ next' = next + 1
      <4>1. next \in 1 .. Len(entries)
        BY <1>3, <3>3 DEF Unmoved, TypeOK
      <4>2. QED
        BY <1>3, <3>1, <3>3, <4>1, SkippedForAReason, SignedForksAreAuthentic
    <3>4. QED
      BY <1>1, <1>3, <3>2, <3>3 DEF Unmoved
  <2>2. QED
    BY <1>2, <1>3, <2>1 DEF Unmoved, NoneOmittedYet
<1>4. ASSUME next <= Len(entries), NEW post,
             Starts(entries[next], post) \/ Extends(entries[next], post),
             NEW n, n = entries[next].id
      PROVE  NoneOmittedYet'
  <2>1. next' = next + 1 /\ DOMAIN seen' = DOMAIN seen \cup {n}
    BY <1>4 DEF Starts, Extends, Apply
  <2>2. ASSUME NEW k \in 1 .. next' - 1, SignedFork(k)'
        PROVE  entries[k].id \in DOMAIN seen'
    <3> DEFINE i == entries[k].id
    <3>1. CASE k = next
      BY <1>4, <2>1, <3>1
    <3>2. CASE k \in 1 .. next - 1
      <4>1. Payload[i].prev \in DOMAIN seen
        <5>1. next \in 1 .. Len(entries) /\ ~(next < k)
          BY <1>1, <1>4, <3>2 DEF TypeOK
        <5>2. Payload[i].prev # n
          BY <1>1, <1>4, <2>2, <5>1 DEF SignedFork
        <5>3. QED
          BY <1>1, <2>1, <2>2, <5>2 DEF SignedFork
      <4>2. seen'[Payload[i].prev] = seen[Payload[i].prev]
        BY <1>4, <4>1, HistoryStarts, HistoryExtends
      <4>3. SignedFork(k)
        BY <1>1, <2>2, <4>1, <4>2 DEF SignedFork, HistoricalSigs
      <4>4. QED
        BY <2>1, <3>2, <4>3 DEF NoneOmittedYet
    <3>3. QED
      BY <1>1, <2>1, <3>1, <3>2
  <2>3. QED
    BY <1>1, <1>2, <2>2 DEF NoneOmittedYet
<1>5. QED
  BY <1>3, <1>4, StepMoves DEF Moves

\* When reduce returns, no fork that its own predecessor's keys signed, old
\* ones included, has been passed over.
THEOREM NothingSignedIsOmitted == Spec => []NoSignedForkOmitted
<1>1. Init => NoneOmittedYet
  BY DEF Init, NoneOmittedYet
<1>2. TypeOK /\ LinearHistory /\ NoneOmittedYet /\ [Next]_vars => NoneOmittedYet'
  BY OmittedStep
<1>3. TypeOK /\ NoneOmittedYet => NoSignedForkOmitted
  <2> SUFFICES ASSUME TypeOK, NoneOmittedYet, outcome = "selected",
                      NEW k \in 1 .. Len(entries), SignedFork(k)
               PROVE  entries[k].id \in DOMAIN seen
    BY DEF NoSignedForkOmitted, SignedFork
  <2>1. k \in 1 .. next - 1
    BY DEF NoneOmittedYet, TypeOK
  <2>2. QED
    BY <2>1 DEF NoneOmittedYet
<1>4. QED
  BY <1>1, <1>2, <1>3, TypeCorrect, HistoryIsLinear, PTL DEF Spec

-----------------------------------------------------------------------------
(* Refinement: the state and the number of applied events step as a        *)
(* Lifecycle.  The number is read off the sequence number of the last      *)
(* event, which the linear history makes the true count.                   *)

LEMMA LifecycleStep ==
  ASSUME TypeOK, LinearHistory, [Next]_vars
  PROVE  [L!Next]_(L!lifecycleVars)
<1> DEFINE length == IF last = NoId THEN 0 ELSE Payload[last].seq + 1
<1>1. CASE Unmoved
  BY <1>1 DEF Unmoved, L!lifecycleVars
<1>2. ASSUME next <= Len(entries), NEW post, Starts(entries[next], post)
      PROVE  L!Next
  <2> DEFINE n == entries[next].id
  <2>1. n \in Id /\ Payload[n] \in PayloadFields
    BY <1>2, PostIsState
  <2>2. last' = n /\ state' = post /\ Payload[n].seq = 0 /\ state = NoState
    BY <1>2, HistoryStarts DEF Starts
  <2>3. length' = 1
    BY <2>1, <2>2, NamesAssumption
  <2>4. /\ Payload[n].ek \in Key
        /\ Payload[n].ku \in Key
        /\ state' = [status |-> "ACTIVE", entity |-> Payload[n].ek, operational |-> Payload[n].ku]
    BY <1>2, <2>1, <2>2 DEF PayloadFields, Starts, Body
  <2>5. QED
    BY <2>2, <2>3, <2>4 DEF L!Next, L!Issue
<1>3. ASSUME next <= Len(entries), NEW post, Extends(entries[next], post)
      PROVE  L!Next
  <2> DEFINE n == entries[next].id
  <2>1. n \in Id /\ Payload[n] \in PayloadFields
    BY <1>3, PostIsState
  <2>2. /\ last \in DOMAIN seen
        /\ last' = n
        /\ state' = post
        /\ Payload[n].seq = Payload[last].seq + 1
    BY <1>3, HistoryExtends
  <2>3. last # NoId /\ n # NoId
    BY <2>1, <2>2, NamesAssumption DEF TypeOK
  <2>4. length' = length + 1
    BY <2>2, <2>3
  <2>5. state # NoState /\ state.status = "ACTIVE"
    BY <1>3 DEF Extends
  <2>6. CASE Body(entries[next]).type = "KEY_ROTATION"
    <3>1. Payload[n].newKu \in Key
      BY <2>1 DEF PayloadFields
    <3>2. state' = [state EXCEPT !.operational = Payload[n].newKu]
      BY <1>3, <2>2, <2>6 DEF Extends, Body
    <3>3. QED
      BY <2>4, <2>5, <3>1, <3>2 DEF L!Next, L!Rotate
  <2>7. CASE Body(entries[next]).type = "REVOCATION"
    <3>1. state' = [state EXCEPT !.status = "REVOKED"]
      BY <1>3, <2>2, <2>7 DEF Extends, Body
    <3>2. QED
      BY <2>4, <2>5, <3>1 DEF L!Next, L!Revoke
  <2>8. QED
    BY <1>3, <2>6, <2>7 DEF Extends
<1>4. QED
  BY <1>1, <1>2, <1>3, StepMoves DEF Moves

\* For every log, what `reduce' computes is a lifecycle.
THEOREM ReduceImplementsLifecycle == Spec => ImplementsLifecycle
<1>1. Init => L!Init
  BY DEF Init, L!Init
<1>2. TypeOK /\ LinearHistory /\ [Next]_vars => [L!Next]_(L!lifecycleVars)
  BY LifecycleStep
<1>3. QED
  BY <1>1, <1>2, TypeCorrect, HistoryIsLinear, PTL DEF Spec, ImplementsLifecycle, L!Spec

-----------------------------------------------------------------------------
(* Induction over the natural numbers, as a fact about sets: the provers   *)
(* cannot instantiate the library's theorems over predicates.              *)

\* A set of numbers that is not empty has a least element.
LEMMA LeastNumber ==
  ASSUME NEW S, S \subseteq Nat, S # {}
  PROVE  \E x \in S : \A y \in S : x <= y
<1> DEFINE R == OpToRel(<, Nat)
<1>1. IsWellFoundedOn(R, Nat)
  BY NatLessThanWellFounded
<1>2. \A x, y \in Nat : x < y => <<x, y>> \in R
  BY DEF OpToRel
<1> HIDE DEF R
<1>3. PICK x \in S : \A y \in S : ~ (<<y, x>> \in R)
  BY <1>1, WFMin, Zenon
<1>4. \A y \in S : ~ (y < x)
  BY <1>2, <1>3
<1> QED
  BY <1>4

\* A set that holds 0 and with each number the next holds them all.
LEMMA Inductive ==
  ASSUME NEW S, 0 \in S, \A n \in Nat : n \in S => n + 1 \in S
  PROVE  Nat \subseteq S
<1> SUFFICES ASSUME Nat \ S # {} PROVE FALSE
  OBVIOUS
<1>1. PICK m \in Nat \ S : \A y \in Nat \ S : m <= y
  BY LeastNumber
<1>2. m # 0 /\ m - 1 \in Nat
  BY <1>1
<1>3. m - 1 \in S
  BY <1>1, <1>2
<1> QED
  BY <1>2, <1>3

-----------------------------------------------------------------------------
(* What the loop of `expect' computes.                                     *)

\* The recursion that defines Locals has a solution.
LEMMA LocalsExist ==
  ASSUME NEW word, Len(word) \in Nat
  PROVE  \E f : f = [index \in 0 .. Len(word) |->
                       IF index = 0 THEN Oracle!NothingRead
                       ELSE Oracle!After(f[index - 1], word[index], index)]
<1> DEFINE Solves(f, n) ==
             f = [index \in 0 .. n |-> IF index = 0 THEN Oracle!NothingRead
                                       ELSE Oracle!After(f[index - 1], word[index], index)]
           Solved == {n \in Nat : \E f : Solves(f, n)}
<1>1. 0 \in Solved
  <2> DEFINE f == [index \in 0 .. 0 |-> Oracle!NothingRead]
  <2>1. Solves(f, 0)
    OBVIOUS
  <2> QED
    BY <2>1
<1>2. ASSUME NEW n \in Nat, n \in Solved PROVE n + 1 \in Solved
  <2>1. PICK f : Solves(f, n)
    BY <1>2
  <2> DEFINE g == [index \in 0 .. n + 1 |->
                     IF index <= n THEN f[index] ELSE Oracle!After(f[n], word[n + 1], n + 1)]
             h == [index \in 0 .. n + 1 |->
                     IF index = 0 THEN Oracle!NothingRead
                     ELSE Oracle!After(g[index - 1], word[index], index)]
  <2>2. ASSUME NEW k \in 0 .. n + 1 PROVE g[k] = h[k]
    <3>1. CASE k = 0
      BY <2>1, <3>1
    <3>2. CASE k \in 1 .. n
      <4>1. f[k] = Oracle!After(f[k - 1], word[k], k)
        BY <2>1, <3>2
      <4>2. g[k] = f[k] /\ g[k - 1] = f[k - 1]
        BY <3>2
      <4> QED
        BY <3>2, <4>1, <4>2
    <3>3. CASE k = n + 1
      <4>1. g[k] = Oracle!After(f[n], word[n + 1], n + 1) /\ g[k - 1] = f[n]
        BY <3>3
      <4> QED
        BY <3>3, <4>1
    <3> QED
      BY <3>1, <3>2, <3>3
  <2>3. g = h
    <3> HIDE DEF Solved
    <3> QED
      BY <2>2
  <2>4. Solves(g, n + 1)
    BY <2>3
  <2> HIDE DEF Solves, g, h
  <2> QED
    BY <2>4
<1> HIDE DEF Solved
<1>3. Len(word) \in Solved
  BY <1>1, <1>2, Inductive
<1> QED
  BY <1>3 DEF Solved

\* One turn of the loop takes the locals from one prefix to the next.
LEMMA LocalsStep ==
  ASSUME NEW word, Len(word) \in Nat
  PROVE  /\ Oracle!Locals(word)[0] = Oracle!NothingRead
         /\ \A k \in 1 .. Len(word) :
              Oracle!Locals(word)[k] = Oracle!After(Oracle!Locals(word)[k - 1], word[k], k)
<1> DEFINE f == Oracle!Locals(word)
<1>1. f = [index \in 0 .. Len(word) |->
             IF index = 0 THEN Oracle!NothingRead
             ELSE Oracle!After(f[index - 1], word[index], index)]
  BY LocalsExist DEF Oracle!Locals
<1>2. f = Oracle!Locals(word)
  OBVIOUS
<1> HIDE DEF f
<1>3. f[0] = Oracle!NothingRead
  BY <1>1
<1>4. ASSUME NEW k \in 1 .. Len(word)
      PROVE  f[k] = Oracle!After(f[k - 1], word[k], k)
  BY <1>1, <1>4
<1> QED
  BY <1>2, <1>3, <1>4

\* The locals of `expect' while nothing has been refused.
Accepted(r, applied, ids, id) ==
  /\ DOMAIN r = {"applied", "seen", "last", "dead", "failing", "errorCategory"}
  /\ r.applied = applied /\ r.seen = ids /\ r.last = id /\ r.failing = 0

\* What a candidate that is not ignored does to them: it is refused or applied.
LEMMA AfterRefusal ==
  ASSUME NEW r, NEW applied, NEW ids, NEW id, Accepted(r, applied, ids, id),
         NEW c, NEW index, ~Oracle!Ignored(r, c), Oracle!Refused(r, c)
  PROVE  /\ Oracle!After(r, c, index).failing = index
         /\ Oracle!After(r, c, index).errorCategory =
              IF r.dead THEN "TERMINAL_STATE" ELSE "CHAIN_CONTINUITY"
<1>1. Oracle!After(r, c, index) =
        [r EXCEPT !.failing = index,
                  !.errorCategory = IF r.dead THEN "TERMINAL_STATE" ELSE "CHAIN_CONTINUITY"]
  BY DEF Oracle!After, Accepted
<1> QED
  BY <1>1 DEF Accepted

LEMMA AfterApplication ==
  ASSUME NEW r, NEW applied, NEW ids, NEW id, Accepted(r, applied, ids, id),
         NEW c, NEW index, ~Oracle!Ignored(r, c), ~Oracle!Refused(r, c)
  PROVE  /\ Accepted(Oracle!After(r, c, index), Append(applied, index), ids \cup {c.id}, c.id)
         /\ Oracle!After(r, c, index).dead <=> c.kind = "V"
<1>1. Oracle!After(r, c, index) =
        [r EXCEPT !.applied = Append(@, index), !.seen = @ \cup {c.id}, !.last = c.id,
                  !.dead = c.kind = "V"]
  BY DEF Oracle!After, Accepted
<1> QED
  BY <1>1 DEF Accepted

\* What is refused stays refused.
LEMMA RefusedForGood ==
  ASSUME NEW word, Len(word) \in Nat, NEW n \in 1 .. Len(word),
         Oracle!Locals(word)[n].failing = n
  PROVE  Oracle!Locals(word)[Len(word)] = Oracle!Locals(word)[n]
<1> DEFINE f == Oracle!Locals(word)
           Same == {k \in Nat : n + k <= Len(word) => f[n + k] = f[n]}
<1>1. 0 \in Same
  OBVIOUS
<1>2. ASSUME NEW k \in Nat, k \in Same PROVE k + 1 \in Same
  <2> SUFFICES ASSUME n + (k + 1) <= Len(word) PROVE f[n + (k + 1)] = f[n]
    OBVIOUS
  <2>1. f[n + k] = f[n]
    BY <1>2
  <2>2. n + (k + 1) \in 1 .. Len(word) /\ (n + (k + 1)) - 1 = n + k
    OBVIOUS
  <2>3. f[n + (k + 1)] = Oracle!After(f[n + k], word[n + (k + 1)], n + (k + 1))
    BY <2>2, LocalsStep
  <2>4. f[n].failing # 0
    OBVIOUS
  <2> HIDE DEF f, Same
  <2> QED
    BY <2>1, <2>3, <2>4 DEF Oracle!After
<1>3. Len(word) - n \in Nat /\ n + (Len(word) - n) = Len(word)
  OBVIOUS
<1>4. Len(word) - n \in Same
  <2> HIDE DEF Same
  <2> QED
    BY <1>1, <1>2, <1>3, Inductive
<1> QED
  BY <1>3, <1>4

-----------------------------------------------------------------------------
(* reduce and expect, candidate by candidate.                              *)

OnAlphabet == ToSet(entries) \subseteq Letters

Word == [k \in DOMAIN entries |-> Letter(entries[k])]

Founder == CHOOSE g \in Id : \A n \in DOMAIN Alphabet : OfLifecycle(g, Alphabet[n])

\* The lifecycle that the alphabet belongs to.
LEMMA Founded ==
  Founder \in Id /\ \A n \in DOMAIN Alphabet : OfLifecycle(Founder, Alphabet[n])
BY AlphabetAssumption DEF Founder

\* What the oracle knows of a candidate is the truth about it.
LEMMA LetterIsTrue ==
  ASSUME TypeOK, OnAlphabet, NEW k \in DOMAIN entries
  PROVE  \E c : /\ OfLifecycle(Founder, c) /\ c.entry = entries[k]
                /\ Word[k] = [id |-> entries[k].id, prev |-> Body(entries[k]).prev,
                              kind |-> c.kind, authenticated |-> c.authenticated]
<1>1. entries[k] \in Letters
  BY DEF OnAlphabet, ToSet
<1> DEFINE m == CHOOSE n \in DOMAIN Alphabet : Alphabet[n].entry = entries[k]
<1>2. m \in DOMAIN Alphabet /\ Alphabet[m].entry = entries[k]
  BY <1>1 DEF Letters
<1>3. Word[k] = [id |-> entries[k].id, prev |-> Body(entries[k]).prev,
                 kind |-> Alphabet[m].kind, authenticated |-> Alphabet[m].authenticated]
  BY DEF Word, Letter
<1> HIDE DEF m
<1> QED
  BY <1>2, <1>3, Founded

\* How far the two have come after n candidates: nothing applied, the issuance,
\* or one more event, after which nothing continues the lifecycle.
Empty(w, n) ==
  /\ last = NoId /\ DOMAIN seen = {} /\ state = NoState
  /\ Accepted(Oracle!Locals(w)[n], <<>>, {}, NoId) /\ ~Oracle!Locals(w)[n].dead

Begun(w, n) ==
  /\ last = Founder /\ DOMAIN seen = {Founder}
  /\ state = Born(Founder) /\ seen[Founder] = Born(Founder) /\ Payload[Founder].seq = 0
  /\ ~Oracle!Locals(w)[n].dead
  /\ \E k \in 1 .. n :
       entries[k].id = Founder /\ Accepted(Oracle!Locals(w)[n], <<k>>, {Founder}, Founder)

Over(w, n) ==
  /\ last \in Id \ {Founder} /\ DOMAIN seen = {Founder, last}
  /\ state = seen[last] /\ seen[Founder] = Born(Founder)
  /\ Payload[Founder].seq = 0 /\ Payload[last].seq = 1
  /\ Oracle!Locals(w)[n].dead <=> state.status = "REVOKED"
  /\ \E j, k \in 1 .. n :
       /\ entries[j].id = Founder /\ entries[k].id = last
       /\ Accepted(Oracle!Locals(w)[n], <<j, k>>, {Founder, last}, last)

InStep(w, n) == Empty(w, n) \/ Begun(w, n) \/ Over(w, n)

Agreed(w) ==
  \/ outcome = "reading" /\ InStep(w, next - 1)
  \/ outcome = "GENESIS_REQUIRED" /\ next = Len(entries) + 1 /\ Empty(w, next - 1)
  \/ outcome = "selected" /\ next = Len(entries) + 1 /\ (Begun(w, next - 1) \/ Over(w, next - 1))
  \/ /\ outcome \in {"TERMINAL_STATE", "CHAIN_CONTINUITY"} /\ next <= Len(entries)
     /\ Oracle!Locals(w)[next].failing = next /\ Oracle!Locals(w)[next].errorCategory = outcome

Agreement == TypeOK /\ (OnAlphabet => Agreed(Word))

\* Both judge a candidate's signatures alike, except before the issuance, when
\* only an issuance is judged at all.
LEMMA JudgedAlike ==
  ASSUME TypeOK, NEW w, NEW n, InStep(w, n),
         NEW c, OfLifecycle(Founder, c), NEW e, e = c.entry, e.id \notin DOMAIN seen
  PROVE  /\ last = NoId => (Authenticated(e) <=> (c.kind = "I" /\ c.authenticated))
         /\ last # NoId => c.kind # "I" /\ (Authenticated(e) <=> c.authenticated)
<1>1. Founder \in Id /\ NoId \notin Id /\ Payload[Founder] \in PayloadFields
  BY Founded, NamesAssumption, PayloadAssumption
<1>2. Born(Founder) \in State /\ Born(Founder) # NoState
  BY <1>1, NamesAssumption DEF Born, State, PayloadFields
<1>3. CASE Empty(w, n)
  <2>1. Authority(e) = NoState
    BY <1>3 DEF Authority, Empty
  <2>2. Body(e).type = "ISSUANCE" <=> c.kind = "I"
    BY DEF OfLifecycle, Body
  <2>3. c.kind # "I" => ~Authenticated(e)
    BY <2>1, <2>2 DEF Authenticated, HasRoles
  <2>4. c.kind = "I" => (Authenticated(e) <=> c.authenticated)
    BY <2>1, <2>2 DEF Authenticated, HasRoles, RequiredSigs, OfLifecycle, Body
  <2> QED
    BY <1>3, <2>3, <2>4 DEF Empty
<1>4. CASE Begun(w, n) \/ Over(w, n)
  <2>1. last # NoId /\ Founder \in DOMAIN seen /\ seen[Founder] = Born(Founder)
    BY <1>1, <1>4 DEF Begun, Over
  <2>2. c.kind # "I"
    BY <2>1 DEF OfLifecycle
  <2>3. c.kind \in {"R", "V"} => Authority(e) = Born(Founder)
    BY <2>1 DEF OfLifecycle, Authority, Body, FollowsOn
  <2>4. CASE c.kind = "R"
    <3>1. Body(e).type = "KEY_ROTATION"
          /\ c.authenticated = (e.sigs = [prev_op |-> Payload[Founder].ku, new_op |-> Body(e).newKu])
      BY <2>4 DEF OfLifecycle, Body
    <3>2. HasRoles(e)
      BY <1>2, <2>3, <2>4, <3>1 DEF HasRoles
    <3>3. RequiredSigs(e) = [prev_op |-> Payload[Founder].ku, new_op |-> Body(e).newKu]
      BY <2>3, <2>4, <3>1 DEF RequiredSigs, Born
    <3> QED
      BY <2>1, <2>2, <3>1, <3>2, <3>3 DEF Authenticated
  <2>5. CASE c.kind = "V"
    <3>1. Body(e).type = "REVOCATION" /\ c.authenticated = (e.sigs = [ae |-> Payload[Founder].ek])
      BY <2>5 DEF OfLifecycle, Body
    <3>2. HasRoles(e)
      BY <1>2, <2>3, <2>5, <3>1 DEF HasRoles
    <3>3. RequiredSigs(e) = [ae |-> Payload[Founder].ek]
      BY <2>3, <2>5, <3>1 DEF RequiredSigs, Born
    <3> QED
      BY <2>1, <2>2, <3>1, <3>2, <3>3 DEF Authenticated
  <2>6. CASE c.kind = "M"
    <3>1. Body(e).type = "MIGRATION" /\ c.authenticated = FALSE
      BY <2>6 DEF OfLifecycle, Body
    <3>2. ~HasRoles(e)
      BY <3>1 DEF HasRoles
    <3> QED
      BY <2>1, <2>2, <3>1, <3>2 DEF Authenticated
  <2> QED
    BY <2>2, <2>4, <2>5, <2>6 DEF OfLifecycle
<1> QED
  BY <1>3, <1>4 DEF InStep

\* Before the first candidate both have read nothing.
LEMMA AgreedAtFirst == Init => Agreement
<1> SUFFICES ASSUME Init PROVE Agreement
  OBVIOUS
<1>1. TypeOK
  BY InputsAssumption DEF Init, TypeOK, Outcomes
<1>2. Oracle!Locals(Word)[0] = Oracle!NothingRead
  <2>1. Len(Word) \in Nat
    BY <1>1 DEF Word, TypeOK
  <2> QED
    BY <2>1, LocalsStep
<1>3. Accepted(Oracle!NothingRead, <<>>, {}, NoId) /\ ~Oracle!NothingRead.dead
  BY DEF Accepted, Oracle!NothingRead
<1>4. Empty(Word, 0)
  BY <1>2, <1>3 DEF Init, Empty
<1> QED
  BY <1>1, <1>4 DEF Agreement, Agreed, InStep, Init

\* While reduce skips a candidate, and when it returns, nothing comes apart.
LEMMA PassedOver ==
  ASSUME NEW w, NEW n \in Nat, InStep(w, n), Oracle!Locals(w)[n + 1] = Oracle!Locals(w)[n],
         UNCHANGED <<entries, seen, last, state>>
  PROVE  InStep(w, n + 1)'
<1>1. 1 .. n \subseteq 1 .. n + 1
  OBVIOUS
<1>2. Empty(w, n) => Empty(w, n + 1)'
  BY DEF Empty
<1>3. Begun(w, n) => Begun(w, n + 1)'
  BY <1>1 DEF Begun
<1>4. Over(w, n) => Over(w, n + 1)'
  BY <1>1 DEF Over
<1> QED
  BY <1>2, <1>3, <1>4 DEF InStep

\* Every turn of reduce's loop keeps it in step with the turns of expect's.
LEMMA AgreedStep ==
  ASSUME Agreement, TypeOK', [Next]_vars
  PROVE  Agreement'
<1>0. TypeOK
  BY DEF Agreement
<1> SUFFICES ASSUME OnAlphabet' PROVE Agreed(Word)'
  BY DEF Agreement
<1>1. entries' = entries
  BY DEF Next, Candidate, vars, Copy, Noise, Skip, AfterTerminal, SecondIssuance, BrokenChain, Raise,
         Genesis, Rotation, Revocation, Apply, Return
<1>2. OnAlphabet /\ Word' = Word
  BY <1>1 DEF OnAlphabet, Word, Letter, Body
<1>3. Agreed(Word)
  BY <1>2 DEF Agreement
<1> SUFFICES ASSUME NEW u, Agreed(u), u = Word
             PROVE  Agreed(u)'
  BY <1>2, <1>3
<1>4. CASE UNCHANGED vars
  BY <1>3, <1>4 DEF vars, Agreed, InStep, Empty, Begun, Over
<1>5. CASE Return
  <2>1. next = Len(entries) + 1 /\ InStep(u, next - 1) /\ next' - 1 = next - 1
    BY <1>0, <1>5 DEF Return, Agreed, TypeOK
  <2>2. next' = Len(entries') + 1
    BY <2>1, <1>5 DEF Return
  <2>3. CASE Empty(u, next - 1)
    <3>1. Empty(u, next - 1)' /\ outcome' = "GENESIS_REQUIRED"
      BY <2>3, <1>5 DEF Return, Empty
    <3> QED
      BY <2>2, <3>1 DEF Agreed
  <2>4. CASE Begun(u, next - 1) \/ Over(u, next - 1)
    <3>1. (Begun(u, next - 1) \/ Over(u, next - 1))' /\ DOMAIN seen # {}
      BY <2>4, <1>5 DEF Return, Begun, Over
    <3> QED
      BY <2>2, <3>1, <1>5 DEF Agreed, Return
  <2> QED
    BY <2>1, <2>3, <2>4 DEF InStep
<1>6. CASE Reading /\ Candidate(entries[next])
  <2> DEFINE e == entries[next]
             r == Oracle!Locals(u)[next - 1]
             s == Oracle!Locals(u)[next]
  <2>1. next \in 1 .. Len(entries) /\ e \in Entry /\ outcome = "reading" /\ InStep(u, next - 1)
    BY <1>0, <1>6, <1>3 DEF Reading, TypeOK, Agreed
  <2>2. Len(u) \in Nat /\ next \in 1 .. Len(u) /\ s = Oracle!After(r, u[next], next)
    <3>1. Len(u) = Len(entries)
      BY <1>0 DEF Word, TypeOK
    <3> QED
      BY <2>1, <3>1, <1>0, LocalsStep DEF TypeOK
  <2>3. PICK c : /\ OfLifecycle(Founder, c) /\ c.entry = e
                 /\ u[next] = [id |-> e.id, prev |-> Body(e).prev,
                               kind |-> c.kind, authenticated |-> c.authenticated]
    BY <1>0, <1>2, <2>1, LetterIsTrue DEF TypeOK
  <2> HIDE DEF e, r, s
  <2>4. Fresh(e) => e.id \notin DOMAIN seen /\ Authenticated(e)
    BY DEF Fresh
  <2>5. e.id \notin DOMAIN seen =>
          /\ last = NoId => (Authenticated(e) <=> (c.kind = "I" /\ c.authenticated))
          /\ last # NoId => c.kind # "I" /\ (Authenticated(e) <=> c.authenticated)
    BY <1>0, <2>1, <2>3, JudgedAlike
  <2>6. r.seen = DOMAIN seen /\ r.last = last
    BY <2>1 DEF r, InStep, Empty, Begun, Over, Accepted
  <2>7. Oracle!Ignored(r, u[next]) <=> ~Fresh(e)
      BY <2>3, <2>5, <2>6 DEF Oracle!Ignored, Fresh
  <2>8. \E applied : Accepted(r, applied, DOMAIN seen, last)
    BY <2>1 DEF r, InStep, Empty, Begun, Over
  <2>9. Founder \in Id /\ NoId \notin Id /\ Payload[Founder] \in PayloadFields
        /\ Payload[e.id] \in PayloadFields /\ e.id \in Id
    BY <2>1, Founded, NamesAssumption, PayloadAssumption DEF Entry
  <2>10. Born(Founder) \in State /\ Born(Founder) # NoState /\ state \in State \cup {NoState}
         /\ NoState \notin State
    BY <1>0, <2>9, NamesAssumption DEF Born, State, PayloadFields, TypeOK
  <2>11. CASE Copy(e) \/ Noise(e)
    <3>1. ~Fresh(e) /\ UNCHANGED <<entries, seen, last, state, outcome>> /\ next' = next + 1
      BY <2>11 DEF Copy, Noise, Skip, Fresh
    <3>2. s = r
      BY <2>2, <2>7, <3>1 DEF Oracle!After
    <3>3. PICK n \in Nat : n = next - 1
      BY <2>1, <1>0 DEF TypeOK
    <3>4. n + 1 = next /\ next' - 1 = n + 1
      BY <2>1, <3>1, <3>3
    <3>5. InStep(u, n) /\ Oracle!Locals(u)[n + 1] = Oracle!Locals(u)[n]
      BY <2>1, <3>2, <3>3, <3>4 DEF r, s
    <3>6. InStep(u, n + 1)'
      BY <3>1, <3>5, PassedOver
    <3>7. InStep(u, next - 1)'
      BY <3>4, <3>6
    <3> QED
      BY <2>1, <3>1, <3>7 DEF Agreed
  <2>12. ASSUME Fresh(e), Oracle!Refused(r, u[next]), UNCHANGED <<entries, next>>,
                outcome' = IF r.dead THEN "TERMINAL_STATE" ELSE "CHAIN_CONTINUITY"
         PROVE  Agreed(u)'
    <3>1. PICK applied : Accepted(r, applied, DOMAIN seen, last)
      BY <2>8
    <3>2. ~Oracle!Ignored(r, u[next])
      BY <2>7, <2>12
    <3>3. /\ Oracle!After(r, u[next], next).failing = next
          /\ Oracle!After(r, u[next], next).errorCategory =
               IF r.dead THEN "TERMINAL_STATE" ELSE "CHAIN_CONTINUITY"
      BY <2>12, <3>1, <3>2, AfterRefusal
    <3>4. s.failing = next /\ s.errorCategory = outcome'
      BY <2>2, <2>12, <3>3
    <3>5. outcome' \in {"TERMINAL_STATE", "CHAIN_CONTINUITY"}
      BY <2>12
    <3> QED
      BY <2>1, <2>12, <3>4, <3>5 DEF Agreed, s
  <2>13. CASE AfterTerminal(e)
    <3>1. Fresh(e) /\ UNCHANGED <<entries, next>> /\ outcome' = "TERMINAL_STATE"
          /\ state # NoState /\ state.status # "ACTIVE"
      BY <2>13 DEF AfterTerminal, Raise
    <3>2. Over(u, next - 1) /\ state.status = "REVOKED"
      BY <2>1, <2>10, <3>1 DEF InStep, Empty, Begun, Born, State
    <3>3. r.dead /\ r.last # NoId
      BY <2>6, <2>9, <3>2 DEF Over, r
    <3>4. Oracle!Refused(r, u[next])
      BY <3>3 DEF Oracle!Refused
    <3> QED
      BY <2>12, <3>1, <3>3, <3>4
  <2>14. CASE SecondIssuance(e)
    <3>1. Fresh(e) /\ Body(e).type = "ISSUANCE" /\ state # NoState
      BY <2>14 DEF SecondIssuance
    <3>2. c.kind = "I" /\ e.id = Founder
      BY <2>3, <3>1 DEF OfLifecycle, Body
    <3>3. Founder \in DOMAIN seen
      BY <2>1, <3>1 DEF InStep, Empty, Begun, Over
    <3> QED
      BY <2>4, <3>1, <3>2, <3>3
  <2>15. MayContinue(e) => \/ /\ Empty(u, next - 1) /\ c.kind = "I" /\ e.id = Founder
                              /\ StartsChain(e) /\ ~Body(e).prohibited
                           \/ /\ Begun(u, next - 1) /\ c.kind \in {"R", "V"} /\ ExtendsChain(e)
                              /\ ~Body(e).prohibited /\ e.id # Founder /\ Body(e).seq = 1
                           \/ /\ Over(u, next - 1) /\ state.status = "ACTIVE" /\ ~ExtendsChain(e)
                              /\ Body(e).prev # last
    <3> SUFFICES ASSUME MayContinue(e) PROVE <2>15!2
      OBVIOUS
    <3>1. Fresh(e) /\ (state # NoState => state.status = "ACTIVE")
      BY DEF MayContinue
    <3>2. CASE Empty(u, next - 1)
      <4>1. c.kind = "I"
        BY <2>4, <2>5, <3>1, <3>2 DEF Empty
      <4> QED
        BY <2>3, <3>2, <4>1 DEF OfLifecycle, StartsChain, Body
    <3>3. CASE Begun(u, next - 1)
      <4>1. c.kind \in {"R", "V"}
        BY <2>3, <2>4, <2>5, <2>9, <3>1, <3>3 DEF Begun, OfLifecycle
      <4>2. e.id # Founder
        BY <2>4, <3>1, <3>3 DEF Begun
      <4> QED
        BY <2>3, <2>9, <3>3, <4>1, <4>2 DEF OfLifecycle, FollowsOn, ExtendsChain, Body, Begun
    <3>4. CASE Over(u, next - 1)
      <4>1. c.kind \in {"R", "V"}
        BY <2>3, <2>4, <2>5, <2>9, <3>1, <3>4 DEF Over, OfLifecycle
      <4>2. Body(e).prev # last
        BY <2>3, <3>4, <4>1 DEF OfLifecycle, FollowsOn, Body, Over
      <4>3. state # NoState
        BY <1>0, <2>10, <3>4 DEF Over, TypeOK
      <4> QED
        BY <3>1, <3>4, <4>2, <4>3 DEF ExtendsChain
    <3> QED
      BY <2>1, <3>2, <3>3, <3>4 DEF InStep
  <2>16. CASE BrokenChain(e)
    <3>1. MayContinue(e) /\ Fresh(e) /\ UNCHANGED <<entries, next>> /\ outcome' = "CHAIN_CONTINUITY"
          /\ \/ Body(e).prohibited
             \/ state = NoState /\ ~StartsChain(e)
             \/ state # NoState /\ ~ExtendsChain(e)
      BY <2>16 DEF BrokenChain, Raise, MayContinue
    <3>2. CASE Empty(u, next - 1) /\ StartsChain(e) /\ ~Body(e).prohibited
      BY <3>1, <3>2 DEF Empty
    <3>3. CASE Begun(u, next - 1) /\ ExtendsChain(e) /\ ~Body(e).prohibited
      BY <2>10, <3>1, <3>3 DEF Begun
    <3>4. CASE Over(u, next - 1) /\ state.status = "ACTIVE" /\ Body(e).prev # last
      <4>1. ~r.dead /\ r.last # NoId /\ u[next].prev # r.last
        BY <2>3, <2>6, <2>9, <3>4 DEF Over, r
      <4>2. Oracle!Refused(r, u[next])
        BY <4>1 DEF Oracle!Refused
      <4> QED
        BY <2>12, <3>1, <4>1, <4>2
    <3> QED
      BY <2>15, <3>1, <3>2, <3>3, <3>4
  <2>17. ASSUME NEW post, Fresh(e), Apply(e, post), ~Oracle!Refused(r, u[next]),
                NEW applied, Accepted(r, applied, DOMAIN seen, last)
         PROVE  /\ outcome' = "reading" /\ next' - 1 = next /\ entries' = entries
                /\ last' = e.id /\ state' = post /\ seen'[e.id] = post
                /\ DOMAIN seen' = DOMAIN seen \cup {e.id}
                /\ \A i \in DOMAIN seen : i # e.id => seen'[i] = seen[i]
                /\ Accepted(s, Append(applied, next), DOMAIN seen \cup {e.id}, e.id)
                /\ s.dead <=> c.kind = "V"
    <3>1. /\ Accepted(s, Append(applied, next), DOMAIN seen \cup {u[next].id}, u[next].id)
          /\ s.dead <=> u[next].kind = "V"
      BY <2>2, <2>7, <2>17, AfterApplication
    <3>2. u[next].id = e.id /\ u[next].kind = c.kind
      BY <2>3
    <3> QED
      BY <2>1, <2>17, <3>1, <3>2, <1>0 DEF Apply, TypeOK
  <2>18. CASE Genesis(e)
    <3> DEFINE post == [status |-> "ACTIVE", entity |-> Body(e).ek, operational |-> Body(e).ku]
    <3>1. MayContinue(e) /\ Fresh(e) /\ state = NoState /\ Apply(e, post)
      BY <2>18 DEF Genesis, MayContinue
    <3>2. Empty(u, next - 1) /\ c.kind = "I" /\ e.id = Founder
      BY <2>1, <2>10, <2>15, <3>1, <1>0 DEF Begun, Over, TypeOK
    <3>3. post = Born(Founder) /\ Payload[Founder].seq = 0
      BY <2>3, <3>2 DEF Born, Body, OfLifecycle
    <3>4. Accepted(r, <<>>, {}, NoId) /\ DOMAIN seen = {} /\ last = NoId
      BY <3>2 DEF Empty, r
    <3>5. ~Oracle!Refused(r, u[next])
      BY <2>6, <3>4 DEF Oracle!Refused
    <3> HIDE DEF post
    <3>6. /\ outcome' = "reading" /\ next' - 1 = next
          /\ last' = Founder /\ state' = Born(Founder) /\ seen'[Founder] = Born(Founder)
          /\ DOMAIN seen' = {Founder} /\ entries'[next].id = Founder
          /\ Accepted(s, <<next>>, {Founder}, Founder) /\ ~s.dead
      <4>1. Append(<<>>, next) = <<next>>
        OBVIOUS
      <4> QED
        BY <2>17, <3>1, <3>2, <3>3, <3>4, <3>5, <4>1 DEF e
    <3>7. PICK n \in Nat : n = next
      BY <1>0 DEF TypeOK
    <3>8. Begun(u, n)'
      BY <2>1, <3>3, <3>6, <3>7 DEF Begun, s
    <3> QED
      BY <3>6, <3>7, <3>8 DEF Agreed, InStep
  <2>19. ASSUME NEW post, Begun(u, next - 1), Continues(e), Apply(e, post),
                post.status = "REVOKED" <=> c.kind = "V"
         PROVE  Agreed(u)'
    <3>1. MayContinue(e) /\ Fresh(e) /\ e.id # Founder /\ Body(e).seq = 1 /\ Body(e).prev = last
          /\ c.kind # "I"
      BY <2>15, <2>19, <2>9 DEF Continues, MayContinue, Empty, Over, Begun, ExtendsChain
    <3>2. PICK j \in 1 .. next - 1 : entries[j].id = Founder /\ Accepted(r, <<j>>, {Founder}, Founder)
      BY <2>19 DEF Begun, r
    <3>3. ~r.dead /\ last = Founder /\ DOMAIN seen = {Founder} /\ seen[Founder] = Born(Founder)
          /\ Payload[Founder].seq = 0
      BY <2>19 DEF Begun, r
    <3>4. ~Oracle!Refused(r, u[next])
      BY <2>3, <2>6, <3>1, <3>3 DEF Oracle!Refused
    <3>5. /\ outcome' = "reading" /\ next' - 1 = next /\ entries' = entries
          /\ last' = e.id /\ state' = post /\ seen'[e.id] = post
          /\ DOMAIN seen' = {Founder, e.id} /\ seen'[Founder] = Born(Founder)
          /\ Accepted(s, <<j, next>>, {Founder, e.id}, e.id)
          /\ s.dead <=> c.kind = "V"
      <4>1. Append(<<j>>, next) = <<j, next>>
        <5>1. j \in Nat /\ next \in Nat
          BY <2>1, <1>0 DEF TypeOK
        <5>2. <<j>> \in Seq(Nat) /\ Len(<<j>>) = 1
          BY <5>1
        <5>3. Append(<<j>>, next) \in Seq(Nat) /\ Len(Append(<<j>>, next)) = 2
              /\ Append(<<j>>, next)[1] = j /\ Append(<<j>>, next)[2] = next
          BY <5>1, <5>2
        <5>4. <<j, next>> \in Seq(Nat) /\ Len(<<j, next>>) = 2
          BY <5>1
        <5> DEFINE x == Append(<<j>>, next)
                   y == <<j, next>>
        <5>5. Len(x) = Len(y) /\ \A i \in 1 .. Len(x) : x[i] = y[i]
          BY <5>3, <5>4
        <5> HIDE DEF x, y
        <5> QED
          BY <5>3, <5>4, <5>5, SeqEqual DEF x, y
      <4>2. {Founder} \cup {e.id} = {Founder, e.id}
        OBVIOUS
      <4>3. /\ outcome' = "reading" /\ next' - 1 = next /\ entries' = entries
            /\ last' = e.id /\ state' = post /\ seen'[e.id] = post
            /\ DOMAIN seen' = DOMAIN seen \cup {e.id}
            /\ \A i \in DOMAIN seen : i # e.id => seen'[i] = seen[i]
            /\ Accepted(s, Append(<<j>>, next), DOMAIN seen \cup {e.id}, e.id)
            /\ s.dead <=> c.kind = "V"
        BY <2>17, <2>19, <3>1, <3>2, <3>3, <3>4
      <4>4. seen'[Founder] = seen[Founder]
        BY <3>1, <3>3, <4>3
      <4> QED
        BY <3>3, <4>1, <4>2, <4>3, <4>4
    <3>6. PICK n \in Nat : n = next
      BY <1>0 DEF TypeOK
    <3>7. j \in 1 .. n /\ n \in 1 .. n /\ entries'[j].id = Founder /\ entries'[n].id = last'
      BY <2>1, <3>2, <3>5, <3>6 DEF e
    <3>8. Payload[last'].seq = 1 /\ last' \in Id \ {Founder}
      BY <2>9, <3>1, <3>5 DEF Body
    <3>9. Over(u, n)'
      BY <2>19, <3>3, <3>5, <3>6, <3>7, <3>8 DEF Over, s
    <3> QED
      BY <3>5, <3>6, <3>9 DEF Agreed, InStep
  <2>20. Continues(e) => Begun(u, next - 1) /\ c.kind \in {"R", "V"}
    BY <2>10, <2>15 DEF Continues, Empty
  <2>21. CASE Rotation(e)
    <3>1. Begun(u, next - 1) /\ Continues(e) /\ Body(e).type = "KEY_ROTATION"
      BY <2>20, <2>21 DEF Rotation
    <3>2. c.kind = "R" /\ Body(e).prevThumb = Payload[Founder].ku
      BY <2>3, <2>20, <3>1 DEF OfLifecycle, Body
    <3>3. state = Born(Founder)
      BY <3>1 DEF Begun
    <3>4. Body(e).prevThumb = state.operational
      BY <3>2, <3>3 DEF Born
    <3>5. Apply(e, [state EXCEPT !.operational = Body(e).newKu])
      BY <2>21, <3>4 DEF Rotation
    <3>6. [state EXCEPT !.operational = Body(e).newKu].status = "ACTIVE"
      BY <3>3 DEF Born
    <3> QED
      BY <2>19, <3>1, <3>2, <3>5, <3>6
  <2>22. CASE Revocation(e)
    <3>1. Begun(u, next - 1) /\ Continues(e) /\ Body(e).type = "REVOCATION"
          /\ Apply(e, [state EXCEPT !.status = "REVOKED"])
      BY <2>20, <2>22 DEF Revocation
    <3>2. c.kind = "V"
      BY <2>3, <2>20, <3>1 DEF OfLifecycle, Body
    <3>3. [state EXCEPT !.status = "REVOKED"].status = "REVOKED"
      BY <3>1 DEF Begun, Born
    <3> QED
      BY <2>19, <3>1, <3>2, <3>3
  <2> QED
    BY <1>6, <2>11, <2>13, <2>14, <2>16, <2>18, <2>21, <2>22 DEF Candidate, e
<1> QED
  BY <1>4, <1>5, <1>6 DEF Next

\* The inductive invariant: up to the candidate reduce is at, expect has applied
\* the same candidates, knows the same last event and stands in the same state.
THEOREM AgreementInvariance == Spec => []Agreement
<1>1. Init => Agreement
  BY AgreedAtFirst
<1>2. Agreement /\ TypeOK' /\ [Next]_vars => Agreement'
  BY AgreedStep
<1>3. QED
  BY <1>1, <1>2, TypeCorrect, PTL DEF Spec

\* What the final locals say of the word.
LEMMA AgreementSuffices == Agreement => SelectionsAgree
<1> SUFFICES ASSUME Agreement, outcome # "reading", ToSet(entries) \subseteq Letters
             PROVE  /\ outcome = "selected" <=> Expected.valid
                    /\ outcome = "selected" =>
                         /\ Cardinality(DOMAIN seen) = Len(Expected.applied)
                         /\ \A k \in DOMAIN Expected.applied :
                              LET i == entries[Expected.applied[k]].id IN
                              i \in DOMAIN seen /\ Payload[i].seq = k - 1
                         /\ Expected.revoked <=> state.status = "REVOKED"
                    /\ outcome \notin {"selected", "GENESIS_REQUIRED"} =>
                         Expected.failing = next /\ Expected.errorCategory = outcome
  BY DEF SelectionsAgree
<1> DEFINE r == Oracle!Locals(Word)[Len(entries)]
<1>1. TypeOK /\ Agreed(Word) /\ Len(entries) \in Nat /\ Len(Word) = Len(entries)
  BY DEF Agreement, OnAlphabet, TypeOK, Word
<1>2. /\ Expected.valid <=> r.failing = 0 /\ r.applied # <<>>
      /\ Expected.applied = r.applied /\ Expected.revoked = r.dead
      /\ Expected.failing = r.failing /\ Expected.errorCategory = r.errorCategory
  BY <1>1 DEF Expected, Oracle!Expect, Word
<1> HIDE DEF r
<1>3. CASE outcome = "GENESIS_REQUIRED"
  <2>1. Accepted(r, <<>>, {}, NoId)
    BY <1>1, <1>3 DEF Agreed, Empty, r
  <2> QED
    BY <1>2, <1>3, <2>1 DEF Accepted
<1>4. CASE outcome = "selected" /\ Begun(Word, Len(entries))
  <2>1. PICK k : entries[k].id = Founder /\ Accepted(r, <<k>>, {Founder}, Founder)
    BY <1>4 DEF Begun, r
  <2>2. DOMAIN seen = {Founder} /\ Payload[Founder].seq = 0 /\ state.status = "ACTIVE" /\ ~r.dead
    BY <1>4 DEF Begun, Born, r
  <2>3. Cardinality({Founder}) = 1
    BY FS_Singleton
  <2>4. r.applied = <<k>> /\ r.failing = 0
    BY <2>1 DEF Accepted
  <2> QED
    BY <1>2, <1>4, <2>1, <2>2, <2>3, <2>4
<1>5. CASE outcome = "selected" /\ Over(Word, Len(entries))
  <2>1. PICK j, k : entries[j].id = Founder /\ entries[k].id = last
                    /\ Accepted(r, <<j, k>>, {Founder, last}, last)
    BY <1>5 DEF Over, r
  <2>2. /\ DOMAIN seen = {Founder, last} /\ last # Founder
        /\ Payload[Founder].seq = 0 /\ Payload[last].seq = 1
        /\ r.dead <=> state.status = "REVOKED"
    BY <1>5 DEF Over, r
  <2>3. Cardinality({Founder, last}) = 2
    <3>1. IsFiniteSet({Founder}) /\ Cardinality({Founder}) = 1 /\ {Founder, last} = {Founder} \cup {last}
      BY FS_Singleton
    <3> QED
      BY <2>2, <3>1, FS_AddElement
  <2>4. r.applied = <<j, k>> /\ r.failing = 0
    BY <2>1 DEF Accepted
  <2> QED
    BY <1>2, <1>5, <2>1, <2>2, <2>3, <2>4
<1>6. CASE outcome \in {"TERMINAL_STATE", "CHAIN_CONTINUITY"}
  <2>1. next \in 1 .. Len(Word) /\ Oracle!Locals(Word)[next].failing = next
        /\ Oracle!Locals(Word)[next].errorCategory = outcome
    BY <1>1, <1>6 DEF Agreed, TypeOK
  <2>2. r = Oracle!Locals(Word)[next]
    BY <1>1, <2>1, RefusedForGood DEF r
  <2> QED
    BY <1>2, <1>6, <2>1, <2>2
<1>7. (next = Len(entries) + 1) => next - 1 = Len(entries)
  BY <1>1
<1> QED
  BY <1>1, <1>3, <1>4, <1>5, <1>6, <1>7 DEF Agreed

\* The two statements of candidate selection agree on every word over every such
\* alphabet, however long it is.
THEOREM SelectionsAlwaysAgree == Spec => []SelectionsAgree
BY AgreementInvariance, AgreementSuffices, PTL
=============================================================================
