----------------------------- MODULE C2spMatrix -----------------------------
(***************************************************************************)
(* harness/c2sp_matrix.py: three SDKs write the same two log entries, the  *)
(* entries must be those of the golden bundle, TypeScript completes an     *)
(* issuance that Python has begun, each SDK verifies the golden bundle,    *)
(* and each must reject six re-signed mutations of it for the declared     *)
(* reason. The first thing that is wrong ends the matrix.                  *)
(*                                                                         *)
(* The SDKs are external: they follow the method, except that some of them *)
(* may share one defect. A hash is what it hashes, a signature is the role *)
(* that made it, and a verifier may look at the rules of a bundle in any   *)
(* order that settles the form of a proof before its inclusion.            *)
(***************************************************************************)
EXTENDS Naturals, Sequences, TLC

CONSTANTS Faults,   \* [sdks, defect]: which SDKs have which defect
          Goldens   \* among "good", "not canonical", "another rotation"

Sdks == <<"py", "ts", "go">>

VARIABLES fault, golden,
          stage,   \* the step main is at, or "passed", or "failed"
          turn,    \* position in Sdks
          at,      \* position in Mutations
          written, \* SDK -> its entries
          result,  \* SDK -> what it found in the golden bundle
          blame    \* what the failure names

vars == <<fault, golden, stage, turn, at, written, result, blame>>

sdk == Sdks[turn]
Has(s, defect) == fault.defect = defect /\ s \in fault.sdks
Nobody == "nobody"   \* an SDK without defects

-----------------------------------------------------------------------------
(* The writers.                                                            *)

Roles == [ISSUANCE |-> {"entity", "operational_initial"},
          KEY_ROTATION |-> {"operational_initial", "operational_rotated"}]

Refused == [type |-> "refused"]
NoChain == [sequence |-> 0]
ActiveState == "active, entity, operational_initial"

Prepare(s, type, chain) ==
  [type |-> type, sigs |-> {}, chain |-> IF Has(s, "drops the chain") THEN NoChain ELSE chain,
   form |-> IF Has(s, "encodes differently") THEN "other" ELSE "canonical"]

Sign(s, event, role) ==
  [event EXCEPT !.sigs = (IF Has(s, "drops earlier signatures") THEN {} ELSE @) \cup {role}]

EntryBytes(s, event) ==
  IF event.sigs = Roles[event.type] \/ Has(s, "accepts an incomplete entry") THEN event ELSE Refused

EventId(s, entry) == IF Has(s, "identifies signatures too") THEN entry ELSE [entry EXCEPT !.sigs = {}]
StateHash(s) == IF Has(s, "hashes another state") THEN "other" ELSE ActiveState

EntitySigned(s) == Sign(s, Prepare(s, "ISSUANCE", NoChain), "entity")
Issuance(s) == EntryBytes(s, Sign(s, EntitySigned(s), "operational_initial"))

\* The Go program hashes the state itself.
Chain(s, issuance) ==
  [sequence |-> 1, previous |-> EventId(s, issuance),
   state |-> StateHash(IF s = "go" THEN Nobody ELSE s)]

Rotation(s, issuance) ==
  EntryBytes(s, Sign(s, Sign(s, Prepare(s, "KEY_ROTATION", Chain(s, issuance)),
                             "operational_initial"), "operational_rotated"))

Golden ==
  LET issuance == Issuance(Nobody)
      rotation == Rotation(Nobody, issuance) IN
  [issuance |-> issuance,
   rotation |-> IF golden = "another rotation" THEN [rotation EXCEPT !.chain.sequence = 2] ELSE rotation]

\* Go's client resolves the previous key from the issuance it has just written,
\* proven by the golden bundle's proof.
Writes(s) ==
  /\ Issuance(s) # Refused
  /\ s = "go" => Issuance(s) = Golden.issuance
  /\ Rotation(s, Issuance(s)) # Refused

Entries(s) == [issuance |-> Issuance(s), rotation |-> Rotation(s, Issuance(s))]

-----------------------------------------------------------------------------
(* The golden bundle, its mutations, and the verifiers.                    *)

Signed(content) == [content |-> content, sig |-> content]

Bundle ==
  Signed([entries |-> Golden, policyHash |-> "plain", loggedState |-> "ACTIVE", expires |-> "later",
          completeness |-> "trusted-index", index |-> 1, proof |-> "whole"])

Mutation(field, value, rule) == [field |-> field, value |-> value, rule |-> rule]

Mutations ==
  << Mutation("policyHash", "padded", "encoding"), Mutation("loggedState", "REVOKED", "state"),
     Mutation("expires", "earlier", "expiry"), Mutation("completeness", "untrusted-index", "completeness"),
     Mutation("index", 0, "indexes"), Mutation("proof", "short", "proof length") >>

\* Leaves the signature as it was.
WrongMutated(m) == [Bundle EXCEPT !.content[m.field] = m.value]

\* All six are marked `resign'.
Mutated(m) == Signed([Bundle.content EXCEPT ![m.field] = m.value])

Rules == {"signature", "encoding", "state", "expiry", "completeness", "indexes", "proof length",
          "inclusion", "entries"}

\* The rules a bundle breaks, with the entries judged by the SDK's own hashes.
Broken(s, b) ==
  LET c == b.content
      breaks == [signature |-> b.sig # c,
                 encoding |-> c.policyHash = "padded",
                 state |-> c.loggedState # "ACTIVE",
                 expiry |-> c.expires # "later",
                 completeness |-> c.completeness # "trusted-index",
                 indexes |-> c.index = 0,
                 inclusion |-> c.index = 0 \/ c.proof # "whole",
                 entries |-> c.entries.rotation.chain #
                               [sequence |-> 1, previous |-> EventId(s, c.entries.issuance),
                                state |-> StateHash(s)]] @@ ("proof length" :> (c.proof = "short"))
  IN {r \in Rules : breaks[r] /\ ~Has(s, r)}

\* The errors with which a verifier may reject: none if it accepts.
Reasons(s, b) ==
  LET broken == Broken(s, b) IN
  IF broken # {} /\ Has(s, "breaks on a bad bundle") THEN {"crash"}
  ELSE IF "inclusion" \in broken /\ ~Has(s, "looks at inclusion first")
    THEN broken \ {"inclusion"}
  ELSE IF "inclusion" \in broken THEN {"inclusion"}
  ELSE broken

Expected == [events |-> 2, status |-> "ACTIVE", active |-> "operational_rotated", signer |-> "bundle"]
Found(s) == IF Has(s, "reports the first key") THEN [Expected EXCEPT !.active = "operational_initial"]
            ELSE Expected

-----------------------------------------------------------------------------
(* main.                                                                   *)

NoResult == [s \in {} |-> Expected]

Init ==
  /\ fault \in Faults
  /\ golden \in Goldens
  /\ stage = "start"
  /\ turn = 1
  /\ at = 1
  /\ written = [s \in {} |-> Refused]
  /\ result = NoResult
  /\ blame = "nothing"

Fail(name) ==
  /\ stage' = "failed"
  /\ blame' = name
  /\ UNCHANGED <<turn, at>>

\* The next SDK, and after the last one the next stage.
Proceed(next) ==
  /\ IF turn < Len(Sdks) THEN turn' = turn + 1 /\ stage' = stage
     ELSE turn' = 1 /\ stage' = next
  /\ UNCHANGED blame

Start ==
  /\ stage = "start"
  /\ IF golden = "not canonical" THEN Fail("golden bundle")
     ELSE stage' = "write" /\ UNCHANGED <<turn, at, blame>>
  /\ UNCHANGED <<fault, golden, written, result>>

Write ==
  /\ stage = "write"
  /\ IF Writes(sdk)
     THEN /\ written' = (sdk :> Entries(sdk)) @@ written
          /\ Proceed("compare")
          /\ UNCHANGED at
     ELSE Fail(sdk) /\ UNCHANGED written
  /\ UNCHANGED <<fault, golden, result>>

\* Takes the last stream that was written.
WrongReference == written["go"]

\* What the streams of all SDKs are compared with.
Reference == written["py"]

Compare ==
  /\ stage = "compare"
  /\ IF written[sdk] = Reference THEN Proceed("golden") /\ UNCHANGED at ELSE Fail(sdk)
  /\ UNCHANGED <<fault, golden, written, result>>

\* The golden bundle must hold the stream that the SDKs wrote.
CompareGolden ==
  /\ stage = "golden"
  /\ IF Golden = written["py"] THEN stage' = "split" /\ UNCHANGED <<turn, at, blame>>
     ELSE Fail("golden bundle")
  /\ UNCHANGED <<fault, golden, written, result>>

\* Python's entity-signed issuance, parsed and countersigned by TypeScript.
Handoff ==
  IF Has("py", "exports another form") /\ ~Has("ts", "exports another form") THEN Refused
  ELSE EntryBytes("ts", Sign("ts", IF Has("ts", "parses without signatures")
                                   THEN [EntitySigned("py") EXCEPT !.sigs = {}]
                                   ELSE EntitySigned("py"), "operational_initial"))

Split ==
  /\ stage = "split"
  /\ IF Handoff = written["py"].issuance THEN stage' = "accept" /\ UNCHANGED <<turn, at, blame>>
     ELSE Fail("handoff")
  /\ UNCHANGED <<fault, golden, written, result>>

\* The Go program compares its result itself, main compares all of them.
Accept ==
  /\ stage = "accept"
  /\ IF Broken(sdk, Bundle) = {} /\ (sdk = "go" => Found(sdk) = Expected)
     THEN /\ result' = (sdk :> Found(sdk)) @@ result
          /\ Proceed("match")
          /\ UNCHANGED at
     ELSE Fail(sdk) /\ UNCHANGED result
  /\ UNCHANGED <<fault, golden, written>>

Match ==
  /\ stage = "match"
  /\ IF result[sdk] = Expected THEN Proceed("reject") /\ UNCHANGED at ELSE Fail(sdk)
  /\ UNCHANGED <<fault, golden, written, result>>

\* Takes any failure for a rejection.
WrongCounts(reason) == reason # "accepted"

\* An error of Python's counts only if it is of the method's class; of the
\* other two, any exit but 0 whose output contains the phrase.
Counts(reason) ==
  /\ reason = Mutations[at].rule
  /\ ~(sdk = "py" /\ Has("py", "raises another class"))

Reject ==
  /\ stage = "reject"
  /\ LET reasons == Reasons(sdk, Mutated(Mutations[at])) IN
     \E reason \in (IF reasons = {} THEN {"accepted"} ELSE reasons) :
       IF ~Counts(reason) THEN Fail(sdk)
       ELSE IF turn = Len(Sdks) /\ at < Len(Mutations)
         THEN turn' = 1 /\ at' = at + 1 /\ UNCHANGED <<stage, blame>>
       ELSE Proceed("passed") /\ UNCHANGED at
  /\ UNCHANGED <<fault, golden, written, result>>

Next ==
  Start \/ Write \/ Compare \/ CompareGolden \/ Split \/ Accept \/ Match \/ Reject

Spec == Init /\ [][Next]_vars

-----------------------------------------------------------------------------
(* Properties.                                                             *)

\* The matrix asks nothing of an SDK that follows the method: whatever order a
\* verifier looks at the rules in, each mutation breaks the one it is about and
\* no other that could be reported instead.
CorrectSdksPass ==
  fault.sdks = {} /\ golden = "good" => stage # "failed"

\* What the inputs of the matrix cannot tell: all mutations are re-signed and
\* none touches an entry, writers complete their entries, and the handoff is
\* Python's to TypeScript.
Unnoticed ==
  \/ fault.sdks = {}
  \/ fault.defect \in {"signature", "inclusion", "entries", "accepts an incomplete entry"}
  \/ fault.defect = "raises another class" /\ "py" \notin fault.sdks
  \/ fault.defect = "exports another form" /\ ("py" \notin fault.sdks \/ "ts" \in fault.sdks)
  \/ fault.defect = "parses without signatures" /\ "ts" \notin fault.sdks

\* Any other defect fails the matrix, also when two SDKs or all three share it:
\* what they agree on must still be the golden stream, and a verifier must
\* still find it whole and every mutation of it broken.
DefectsAreCaught ==
  stage = "passed" => Unnoticed /\ golden = "good"

\* A failure that names an SDK names a faulty one, unless Python's stream, with
\* which the others are compared, is the wrong one.
NamesTheFaulty ==
  blame \in {"py", "ts", "go"} => blame \in fault.sdks \/ "py" \in fault.sdks
=============================================================================
