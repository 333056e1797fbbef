---------------------------- MODULE EventReduce ----------------------------
(***************************************************************************)
(* harness/c2sp_event_identity_check.py, `reduce': the selection of the    *)
(* logical lifecycle events from a C2SP transparency log.  The log is read *)
(* once, in order.  Each candidate is skipped (a copy of an applied event, *)
(* or not authenticated), applied, or fatal.                               *)
(*                                                                         *)
(* A payload (an entry without its signatures) is named by its identity:   *)
(* `event_id' is a collision-free digest of it.  Equal state digests are   *)
(* equal states.  A role of `sigs' maps to the key whose signature over    *)
(* the payload verifies under its kid, or to BadSig; two entries with the  *)
(* same identity and the same signing keys may still differ as bytes (a    *)
(* re-signed or a flipped ES256 signature), which is a repetition here.    *)
(* Candidates are well formed: version, method and log reference are those *)
(* of the log, a rotation names its new key by its thumbprint and the      *)
(* reason of a revocation is keyCompromise (the function asserts these).   *)
(*                                                                         *)
(* A definition that starts with Wrong is a faulty form of the one below   *)
(* it, which the checks must be able to tell from the code.                *)
(***************************************************************************)
EXTENDS Naturals, Sequences

CONSTANTS Id,       \* event identities
          NoId,     \* no predecessor named
          Key,      \* keys, each its own thumbprint
          BadSig,   \* a signature that verifies under no key
          NoState,  \* no lifecycle state / no state hash
          Payload,  \* the signed fields of each identity
          Inputs    \* the logs reduce may be called with

Role == {"ae", "op", "prev_op", "new_op"}

State == [status : {"ACTIVE", "REVOKED"}, entity : Key, operational : Key]

PayloadFields ==
  [type : {"ISSUANCE", "KEY_ROTATION", "REVOCATION", "MIGRATION"},
   seq : Nat,
   prev : Id \cup {NoId},              \* prev_event_id
   prevState : State \cup {NoState},   \* prev_state_hash
   prohibited : BOOLEAN,               \* event_id, prev_index or prev_leaf_hash is present
   ek : Key, ku : Key,                 \* ISSUANCE: entity and operational key
   prevThumb : Key, newKu : Key]       \* KEY_ROTATION: replaced and new operational key

Entry == [id : Id, sigs : UNION {[R -> Key \cup {BadSig}] : R \in SUBSET Role}]

ASSUME NamesAssumption ==
  /\ NoId \notin Id
  /\ NoState \notin State
  /\ BadSig \notin Key

ASSUME PayloadAssumption == Payload \in [Id -> PayloadFields]

ASSUME InputsAssumption == Inputs \subseteq Seq(Entry)

VARIABLES entries,  \* the argument
          next,     \* position of the loop
          seen,     \* applied identity -> the state it led to
          last,     \* identity applied last
          state,    \* computed state
          outcome   \* "reading", "selected", or the error raised

vars == <<entries, next, seen, last, state, outcome>>

Init ==
  /\ entries \in Inputs
  /\ next = 1
  /\ seen = <<>>
  /\ last = NoId
  /\ state = NoState
  /\ outcome = "reading"

-----------------------------------------------------------------------------
(* The candidate under the cursor and the authority it is judged by.       *)

Reading == outcome = "reading" /\ next <= Len(entries)

Body(e) == Payload[e.id]

\* The keys in force now, whatever predecessor the candidate names.
WrongAuthority(e) == state

\* The state after the predecessor the candidate names, superseded keys
\* included, if that predecessor was applied; otherwise the current state.
Authority(e) ==
  IF Body(e).prev \in DOMAIN seen THEN seen[Body(e).prev] ELSE state

\* Without a lifecycle only an ISSUANCE has roles; other types have none.
HasRoles(e) ==
  \/ Body(e).type = "ISSUANCE"
  \/ Body(e).type \in {"KEY_ROTATION", "REVOCATION"} /\ Authority(e) # NoState

RequiredSigs(e) ==
  CASE Body(e).type = "ISSUANCE" ->
         [ae |-> IF Authority(e) # NoState THEN Authority(e).entity ELSE Body(e).ek,
          op |-> Body(e).ku]
    [] Body(e).type = "KEY_ROTATION" ->
         [prev_op |-> Authority(e).operational, new_op |-> Body(e).newKu]
    [] OTHER -> [ae |-> Authority(e).entity]

\* Accepts an entry some of whose signatures were stripped.
WrongAuthenticated(e) ==
  /\ HasRoles(e)
  /\ \A role \in DOMAIN e.sigs \cap DOMAIN RequiredSigs(e) :
       e.sigs[role] = RequiredSigs(e)[role]

\* `signatures_valid': exactly the required roles, each by the required key.
Authenticated(e) == HasRoles(e) /\ e.sigs = RequiredSigs(e)

Fresh(e) == e.id \notin DOMAIN seen /\ Authenticated(e)

StartsChain(e) ==
  /\ Body(e).type = "ISSUANCE"
  /\ Body(e).seq = 0
  /\ Body(e).prev = NoId
  /\ Body(e).prevState = NoState

\* Leaves the sequence number unchecked.
WrongExtendsChain(e) ==
  /\ Body(e).prev = last
  /\ Body(e).prevState = state

ExtendsChain(e) ==
  /\ Body(e).prev = last
  /\ Body(e).seq = Payload[last].seq + 1
  /\ Body(e).prevState = state

-----------------------------------------------------------------------------
(* One action per way through the loop body.                               *)

Skip ==
  /\ next' = next + 1
  /\ UNCHANGED <<entries, seen, last, state, outcome>>

Raise(error) ==
  /\ outcome' = error
  /\ UNCHANGED <<entries, next, seen, last, state>>

Apply(e, post) ==
  /\ seen' = [i \in DOMAIN seen \cup {e.id} |-> IF i = e.id THEN post ELSE seen[i]]
  /\ last' = e.id
  /\ state' = post
  /\ next' = next + 1
  /\ UNCHANGED <<entries, outcome>>

Copy(e) ==
  /\ e.id \in DOMAIN seen
  /\ Skip

Noise(e) ==
  /\ e.id \notin DOMAIN seen
  /\ ~Authenticated(e)
  /\ Skip

AfterTerminal(e) ==
  /\ Fresh(e)
  /\ state # NoState
  /\ state.status # "ACTIVE"
  /\ Raise("TERMINAL_STATE")

\* Leaves the status unchecked.
WrongMayContinue(e) ==
  /\ Fresh(e)
  /\ state # NoState => Body(e).type # "ISSUANCE"

\* What is left once the terminal and the second-genesis checks passed.
MayContinue(e) ==
  /\ Fresh(e)
  /\ state # NoState => state.status = "ACTIVE" /\ Body(e).type # "ISSUANCE"

SecondIssuance(e) ==
  /\ Fresh(e)
  /\ state # NoState
  /\ state.status = "ACTIVE"
  /\ Body(e).type = "ISSUANCE"
  /\ Raise("DUPLICATE_ISSUANCE")

BrokenChain(e) ==
  /\ MayContinue(e)
  /\ \/ Body(e).prohibited
     \/ state = NoState /\ ~StartsChain(e)
     \/ state # NoState /\ ~ExtendsChain(e)
  /\ Raise("CHAIN_CONTINUITY")

\* Drops the operational key of the new state.
WrongGenesis(e) ==
  /\ MayContinue(e)
  /\ state = NoState
  /\ ~Body(e).prohibited
  /\ StartsChain(e)
  /\ Apply(e, [status |-> "ACTIVE", entity |-> Body(e).ek])

Genesis(e) ==
  /\ MayContinue(e)
  /\ state = NoState
  /\ ~Body(e).prohibited
  /\ StartsChain(e)
  /\ Apply(e, [status |-> "ACTIVE", entity |-> Body(e).ek, operational |-> Body(e).ku])

Continues(e) ==
  /\ MayContinue(e)
  /\ state # NoState
  /\ ~Body(e).prohibited
  /\ ExtendsChain(e)

\* Puts the new key in the place of the entity key.
WrongRotation(e) ==
  /\ Continues(e)
  /\ Body(e).type = "KEY_ROTATION"
  /\ Apply(e, [state EXCEPT !.entity = Body(e).newKu])

Rotation(e) ==
  /\ Continues(e)
  /\ Body(e).type = "KEY_ROTATION"
  /\ IF Body(e).prevThumb = state.operational
     THEN Apply(e, [state EXCEPT !.operational = Body(e).newKu])
     ELSE Raise("AssertionError")

Revocation(e) ==
  /\ Continues(e)
  /\ Body(e).type = "REVOCATION"
  /\ Apply(e, [state EXCEPT !.status = "REVOKED"])

Return ==
  /\ outcome = "reading"
  /\ next > Len(entries)
  /\ outcome' = IF DOMAIN seen = {} THEN "GENESIS_REQUIRED" ELSE "selected"
  /\ UNCHANGED <<entries, next, seen, last, state>>

Candidate(e) ==
  \/ Copy(e) \/ Noise(e)
  \/ AfterTerminal(e) \/ SecondIssuance(e) \/ BrokenChain(e)
  \/ Genesis(e) \/ Rotation(e) \/ Revocation(e)

Next ==
  \/ Reading /\ Candidate(entries[next])
  \/ Return

Spec == Init /\ [][Next]_vars

-----------------------------------------------------------------------------
(* Properties.                                                             *)

Outcomes == {"reading", "selected", "GENESIS_REQUIRED", "TERMINAL_STATE",
             "DUPLICATE_ISSUANCE", "CHAIN_CONTINUITY", "AssertionError"}

\* Type correctness of the locals of `reduce'.
TypeOK ==
  /\ entries \in Seq(Entry)
  /\ next \in 1 .. Len(entries) + 1
  /\ DOMAIN seen \subseteq Id
  /\ \A i \in DOMAIN seen : seen[i] \in State
  /\ last \in Id \cup {NoId}
  /\ state \in State \cup {NoState}
  /\ outcome \in Outcomes

\* The applied events are one unbroken chain from one ISSUANCE to `last':
\* each other event names an applied predecessor, one sequence number before
\* it and with the state hash that predecessor led to, and no two applied
\* events share a sequence number (so no signed fork is followed on both
\* sides).  The loop only ever compares with the last event.
LinearHistory ==
  /\ DOMAIN seen = {} => last = NoId /\ state = NoState
  /\ DOMAIN seen # {} => last \in DOMAIN seen /\ state = seen[last]
  /\ \A i \in DOMAIN seen :
       /\ Payload[i].seq <= Payload[last].seq
       /\ Payload[i].type = "ISSUANCE" <=> Payload[i].seq = 0
       /\ Payload[i].seq # 0 =>
            /\ Payload[i].prev \in DOMAIN seen
            /\ Payload[i].seq = Payload[Payload[i].prev].seq + 1
            /\ Payload[i].prevState = seen[Payload[i].prev]
  /\ \A i, j \in DOMAIN seen : Payload[i].seq = Payload[j].seq => i = j

\* The roles an applied event owed its signatures to, told from the history
\* as it stands now: the keys in force just before it.
HistoricalSigs(i) ==
  CASE Payload[i].type = "ISSUANCE" -> [ae |-> Payload[i].ek, op |-> Payload[i].ku]
    [] Payload[i].type = "KEY_ROTATION" ->
         [prev_op |-> seen[Payload[i].prev].operational, new_op |-> Payload[i].newKu]
    [] OTHER -> [ae |-> seen[Payload[i].prev].entity]

\* No event takes effect on the strength of an invalid, stripped or retired
\* signature: for every applied event the log already held a copy that the
\* keys of its own predecessor signed.
AuthorizedHistory ==
  \A i \in DOMAIN seen :
    \E k \in 1 .. next - 1 : entries[k].id = i /\ entries[k].sigs = HistoricalSigs(i)

\* Nothing is built on a revocation.
TerminalIsFinal ==
  \A i \in DOMAIN seen : seen[i].status = "REVOKED" => i = last

\* A selection never hides a contradiction: when `reduce' returns, every
\* entry that the keys of an applied predecessor signed, superseded keys
\* included, and that follows that predecessor in the log, was applied.
NoSignedForkOmitted ==
  outcome = "selected" =>
    \A k \in 1 .. Len(entries) :
      LET i == entries[k].id IN
        /\ Payload[i].type \in {"KEY_ROTATION", "REVOCATION"}
        /\ Payload[i].prev \in DOMAIN seen
        /\ entries[k].sigs = HistoricalSigs(i)
        /\ \A j \in 1 .. Len(entries) : entries[j].id = Payload[i].prev => j < k
        => i \in DOMAIN seen

\* Whatever the log holds, its effect is a lifecycle: issued once, rotated
\* while active, ended by a revocation, every event counted once.
L == INSTANCE Lifecycle WITH
       length <- IF last = NoId THEN 0 ELSE Payload[last].seq + 1

ImplementsLifecycle == L!Spec
=============================================================================
