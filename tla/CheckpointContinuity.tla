------------------------ MODULE CheckpointContinuity ------------------------
(***************************************************************************)
(* The checkpoint suites: the fifteen signed sequences of                  *)
(* generate_checkpoints, the consistency proofs of consistency_vectors.py  *)
(* from every size to every larger one, the expectations derived for them, *)
(* and the three adapters that run them (checkpoint_adapter.py,            *)
(* checkpoint.go, checkpoint-verify.mjs). An adapter seeds a store with    *)
(* the trusted evidence, arms one dependency fault, has the SDK verify the *)
(* candidate, classifies the error, wipes the root hashes the error        *)
(* carries, and reads the store back.                                      *)
(*                                                                         *)
(* The SDK is external. It verifies as design 11 has it, except for one    *)
(* defect a verifier may have: the suite is there to tell.                 *)
(*                                                                         *)
(* A log is the sequence of its leaves; a checkpoint commits to one.       *)
(***************************************************************************)
EXTENDS Naturals, Sequences, SequencesExt, MerkleProofs

CONSTANTS Adapters,  \* the adapters to run, among "py", "go" and "ts"
          Defects,   \* what is wrong with the SDK, "none" for nothing
          Fillers    \* entries that are not DNSid's, for the logs of every size

ASSUME EntriesAssumption == {"issuance", "rotation", "alternate"} \subseteq Leaves
ASSUME FillersAssumption == Fillers \in Seq(Leaves) /\ Len(Fillers) >= MaxSize - 1

None == <<>>

\* A checkpoint and the bundle that proves the first entries of its log.
Proving(log, entries) ==
  [log |-> log, signed |-> TRUE, paths |-> [i \in 1 .. entries |-> AuditPath[log][i - 1]]]

Evidence(log) == Proving(log, Len(log))

first == Evidence(<<"issuance">>)
grown == Evidence(<<"issuance", "rotation">>)
other == Evidence(<<"alternate">>)
forged == [grown EXCEPT !.signed = FALSE]
nothing == [log |-> None, signed |-> FALSE, paths |-> <<>>]

-----------------------------------------------------------------------------
(* The suite.                                                              *)

Basic(trusted, candidate) ==
  [trusted |-> trusted, candidate |-> candidate, mode |-> "scan", category |-> "none",
   fault |-> "none", scan |-> candidate.log, proof |-> <<>>]

Growth == Subproof[grown.log][1][TRUE]
Zero == <<"32 zero bytes">>

Continuing ==
  << Basic(nothing, first),
     Basic(first, first),
     [Basic(first, grown) EXCEPT !.mode = "proof", !.proof = Growth],
     Basic(first, grown),
     [Basic(grown, first) EXCEPT !.category = "LOG_ROLLBACK"],
     [Basic(other, first) EXCEPT !.category = "LOG_FORK"],
     [Basic(first, grown) EXCEPT !.mode = "proof", !.proof = <<Zero>>, !.category = "LOG_INCONSISTENT"],
     [Basic(other, grown) EXCEPT !.category = "LOG_INCONSISTENT"],
     [Basic(first, grown) EXCEPT !.scan = <<"issuance">>, !.category = "INVALID_EVIDENCE"],
     [Basic(first, grown) EXCEPT !.scan = <<"different", "rotation">>, !.category = "INVALID_EVIDENCE"],
     [Basic(first, grown) EXCEPT !.mode = "missing"],
     [Basic(first, grown) EXCEPT !.mode = "proof", !.fault = "proof-fetch"],
     [Basic(first, grown) EXCEPT !.fault = "load", !.category = "CHECKPOINT_STORE_ERROR"],
     [Basic(first, grown) EXCEPT !.fault = "write", !.category = "CHECKPOINT_STORE_ERROR"],
     [Basic(first, forged) EXCEPT !.category = "INVALID_EVIDENCE"] >>

\* The log of a size: the issuance, then entries that are not DNSid's.
Sized(n) == [i \in 1 .. n |-> IF i = 1 THEN "issuance" ELSE Fillers[i - 1]]
Changed(node) == <<node, "first bit", "flipped">>

Consistency(m, n) ==
  LET valid == Subproof[Sized(n)][m][TRUE]
      grows == [Basic(Evidence(Sized(m)), Proving(Sized(n), 1)) EXCEPT !.mode = "proof", !.proof = valid]
      refused == [grows EXCEPT !.category = "LOG_INCONSISTENT"]
  IN <<grows, [refused EXCEPT !.proof = Front(valid)], [refused EXCEPT !.proof = Append(valid, Zero)]>>
     \o [i \in DOMAIN valid |-> [refused EXCEPT !.proof = [valid EXCEPT ![i] = Changed(valid[i])]]]

\* For every n up to MaxSize, every m below it.
ConsistencyCases ==
  FlattenSeq([n \in 1 .. MaxSize |-> FlattenSeq([m \in 1 .. n - 1 |-> Consistency(m, n)])])

Suite == Continuing \o ConsistencyCases

Continuity == {"LOG_ROLLBACK", "LOG_FORK", "LOG_INCONSISTENT"}

\* Leaves out the sequences without consistency evidence.
WrongRejected(c) == c.category # "none" \/ c.fault # "none"

Rejected(c) == c.category # "none" \/ c.fault # "none" \/ c.mode = "missing"

\* The fields an expectation names, and their values.
Named(c) ==
  {"ok", "stored"}
  \cup (IF Rejected(c) THEN {"error", "transient"} ELSE {})
  \cup (IF c.category # "none" THEN {"errorCategory"} ELSE {})
  \cup (IF c.category \in Continuity THEN {"diagnostics"} ELSE {})
  \cup (IF c.fault # "none" THEN {"causePreserved"} ELSE {})
  \cup (IF c.mode = "proof" THEN {"proofRequested"} ELSE {})
  \cup (IF c.mode = "missing" THEN {"condition"} ELSE {})

Values(c) ==
  [ok |-> ~Rejected(c),
   stored |-> IF Rejected(c) THEN c.trusted.log ELSE c.candidate.log,
   error |-> "CheckpointError",
   transient |-> c.fault = "proof-fetch",
   errorCategory |-> c.category,
   diagnostics |-> <<c.trusted.log, c.candidate.log>>,
   causePreserved |-> TRUE,
   proofRequested |-> TRUE,
   condition |-> "consistency_unavailable"]

-----------------------------------------------------------------------------

VARIABLES adapter,  \* the adapter at work
          defect,   \* what is wrong with the SDK
          at,       \* position of the case in Suite
          phase,    \* "seed", "verify", "read", "judge" or "end"
          store,    \* the log of the stored checkpoint
          requests, \* consistency proofs the SDK has asked for
          error,    \* what the SDK raised
          answer,   \* the adapter's result
          failures  \* positions of the cases that did not pass

vars == <<adapter, defect, at, phase, store, requests, error, answer, failures>>

case == Suite[at]

-----------------------------------------------------------------------------
(* The SDK's verifier (external).                                          *)

Raise(class, category) ==
  [class |-> class, category |-> category, transient |-> FALSE, cause |-> FALSE,
   diagnostics |-> <<>>]

NoError == Raise("none", "none")
Invalid == Raise("verification", "INVALID_EVIDENCE")
Unavailable == Raise("unavailable", "INVALID_EVIDENCE")

Has(d) == defect = d

\* What an adapter's store raises. Python's raises the SDK's own store error from
\* the dependency's error, TypeScript's too if the SDK exports its class; otherwise
\* the dependency's error comes bare, without a category (and says nothing of being
\* transient).
Bare == adapter = "go" \/ (adapter = "ts" /\ Has("leaks a store error it does not export"))

InjectedStoreError ==
  [Raise(IF Bare THEN "dependency" ELSE "verification",
         IF Bare THEN "none" ELSE "CHECKPOINT_STORE_ERROR") EXCEPT !.cause = TRUE]

\* What an adapter's proof source raises: the SDK's own transport error in Python
\* and TypeScript, in Go an error of the adapter that is transient, too.
InjectedFetchError ==
  [Raise(IF adapter = "go" THEN "dependency" ELSE "verification", "none") EXCEPT
     !.cause = TRUE, !.transient = TRUE]

\* Lets an error of the store or the proof source through.
Leaks == Has("leaks the dependency's error") \/ Has("leaks a store error it does not export")

StoreError ==
  IF Leaks THEN InjectedStoreError
  ELSE [Raise("verification", "CHECKPOINT_STORE_ERROR") EXCEPT
          !.cause = (defect # "drops the cause")]

FetchError ==
  IF Leaks THEN InjectedFetchError
  ELSE [Raise("verification", "none") EXCEPT
          !.cause = (defect # "drops the cause"),
          !.transient = (defect # "calls every failure permanent")]

Contradiction(category, candidate) ==
  [Raise("continuity", category) EXCEPT
     !.diagnostics = IF defect = "gives no diagnostics" THEN <<>> ELSE <<store, candidate.log>>]

\* Whether the candidate is what it claims to be, by itself.
BadEvidence(candidate, mode, scan) ==
  \/ ~candidate.signed /\ ~Has("accepts an unsigned checkpoint")
  \/ mode = "scan" /\ scan # candidate.log /\ ~Has("trusts the scan it is given")
  \/ mode # "scan" /\ \E i \in DOMAIN candidate.paths : ~Included(candidate.log, i - 1, candidate.paths[i])

Known(fault) == IF fault = "load" THEN None ELSE store

AsksForProof(candidate, mode, fault) ==
  /\ mode = "proof" /\ ~Has("never asks for a proof")
  /\ Known(fault) # None /\ Len(candidate.log) > Len(Known(fault))

\* Whether a consistency proof leads from the one log to the other.
ProofHolds(known, log, proof) ==
  LET end == Follow(known, log, proof) IN
  \/ Has("accepts any proof")
  \/ /\ end.at.sn = 0
     /\ end.surplus => Has("passes over surplus nodes")
     /\ end.old = Tree[known] \/ Has("ignores the old root")
     /\ end.new = Tree[log] \/ Has("ignores the new root")

\* Whether the candidate continues the stored log; NoError when it does.
ContinuityError(candidate, mode, scan, proof, fault) ==
  LET known == Known(fault) IN
  IF fault = "load" /\ ~Has("takes a failed load for first contact") THEN StoreError
  ELSE IF known = None THEN NoError
  ELSE IF Len(candidate.log) < Len(known)
    THEN IF Has("accepts a rollback") THEN NoError ELSE Contradiction("LOG_ROLLBACK", candidate)
  ELSE IF Len(candidate.log) = Len(known)
    THEN IF known = candidate.log \/ Has("accepts another root") THEN NoError
         ELSE Contradiction("LOG_FORK", candidate)
  ELSE IF mode = "missing"
    THEN IF Has("does without evidence") THEN NoError ELSE Unavailable
  ELSE IF mode = "proof"
    THEN IF Has("never asks for a proof") THEN NoError
         ELSE IF fault = "proof-fetch" THEN FetchError
         ELSE IF ProofHolds(known, candidate.log, proof) THEN NoError
         ELSE Contradiction("LOG_INCONSISTENT", candidate)
  ELSE IF IsPrefix(known, scan) \/ Has("accepts any prefix") THEN NoError
  ELSE Contradiction("LOG_INCONSISTENT", candidate)

\* Evidence first, continuity second, the write last.
Outcome(candidate, mode, scan, proof, fault) ==
  LET continuity == ContinuityError(candidate, mode, scan, proof, fault)
      bad == BadEvidence(candidate, mode, scan) IN
  IF Has("looks at continuity first") /\ continuity # NoError THEN continuity
  ELSE IF bad THEN Invalid
  ELSE IF continuity # NoError THEN continuity
  ELSE IF fault = "write" /\ ~Has("ignores a failed write") THEN StoreError
  ELSE NoError

\* What is in the store after a verification that ended in outcome.
Advanced(candidate, outcome, fault) ==
  IF \/ outcome = NoError /\ ~Has("keeps the old checkpoint") /\ fault # "write"
     \/ outcome.class = "continuity" /\ Has("stores before it checks")
  THEN candidate.log
  ELSE store

-----------------------------------------------------------------------------
(* The adapters.                                                           *)

Init ==
  /\ adapter \in Adapters
  /\ defect \in Defects
  /\ at = 1
  /\ phase = "seed"
  /\ store = None
  /\ requests = 0
  /\ error = NoError
  /\ answer = [ok |-> FALSE]
  /\ failures = {}

\* The trusted evidence goes through the SDK as well, in scan mode and without
\* a fault; an SDK that refuses it is an adapter failure.
Seed ==
  /\ phase = "seed"
  /\ IF case.trusted = nothing
     THEN phase' = "verify" /\ UNCHANGED <<store, answer>>
     ELSE LET outcome == Outcome(case.trusted, "scan", case.trusted.log, <<>>, "none") IN
          /\ store' = Advanced(case.trusted, outcome, "none")
          /\ IF outcome = NoError
             THEN phase' = "verify" /\ UNCHANGED answer
             ELSE /\ answer' = [ok |-> FALSE, error |-> "AdapterError"]
                  /\ phase' = "judge"
  /\ UNCHANGED <<adapter, defect, at, requests, error, failures>>

VerifyCandidate ==
  /\ phase = "verify"
  /\ LET outcome == Outcome(case.candidate, case.mode, case.scan, case.proof, case.fault) IN
     /\ error' = outcome
     /\ store' = Advanced(case.candidate, outcome, case.fault)
     /\ requests' = requests + (IF AsksForProof(case.candidate, case.mode, case.fault) THEN 1 ELSE 0)
  /\ phase' = "read"
  /\ UNCHANGED <<adapter, defect, at, answer, failures>>

\* Which errors an adapter takes for the SDK's: those of its classes, whoever made
\* them, and (go, ts) those that carry the injected cause.
Recognized == error.class # "dependency" \/ (adapter \in {"go", "ts"} /\ error.cause)

\* Leaves the error's bytes as they are.
WrongWipes == FALSE

\* go and ts overwrite the root hashes of the error: an SDK that handed out the
\* bytes of its store loses them.
Wipes == adapter \in {"go", "ts"} /\ error.diagnostics # <<>>

Wiped == <<"wiped">>

\* Infers the stored checkpoint from the verdict.
WrongRead ==
  /\ phase = "read"
  /\ answer' =
       [ok |-> error = NoError,
        error |-> IF error = NoError THEN "none"
                  ELSE IF Recognized THEN "CheckpointError" ELSE "AdapterError",
        errorCategory |-> error.category,
        transient |-> error.transient,
        causePreserved |-> error.cause,
        condition |-> IF error.class = "unavailable" THEN "consistency_unavailable" ELSE "none",
        diagnostics |-> error.diagnostics,
        stored |-> IF error = NoError THEN case.candidate.log ELSE case.trusted.log,
        proofRequested |-> requests > 0]
  /\ phase' = "judge"
  /\ UNCHANGED <<adapter, defect, at, store, requests, error, failures>>

Read ==
  /\ phase = "read"
  /\ store' = IF Wipes /\ Has("hands out its store") THEN Wiped ELSE store
  /\ answer' =
       [ok |-> error = NoError,
        error |-> IF error = NoError THEN "none"
                  ELSE IF Recognized THEN "CheckpointError" ELSE "AdapterError",
        errorCategory |-> error.category,
        transient |-> error.transient,
        causePreserved |-> error.cause,
        condition |-> IF error.class = "unavailable" THEN "consistency_unavailable" ELSE "none",
        diagnostics |-> error.diagnostics,
        stored |-> store',
        proofRequested |-> requests > 0]
  /\ phase' = "judge"
  /\ UNCHANGED <<adapter, defect, at, requests, error, failures>>

\* evaluate_result on a case without markers, and on to the next case with a
\* store of its own.
Passes == \A f \in Named(case) : f \in DOMAIN answer /\ answer[f] = Values(case)[f]

Judge ==
  /\ phase = "judge"
  /\ failures' = IF Passes THEN failures ELSE failures \cup {at}
  /\ IF at < Len(Suite)
     THEN phase' = "seed" /\ at' = at + 1
     ELSE phase' = "end" /\ at' = at
  /\ store' = None
  /\ requests' = 0
  /\ error' = NoError
  /\ answer' = [ok |-> FALSE]
  /\ UNCHANGED <<adapter, defect>>

Next == Seed \/ VerifyCandidate \/ Read \/ Judge

Spec == Init /\ [][Next]_vars

-----------------------------------------------------------------------------
(* Properties.                                                             *)

\* The expectations are those of a verifier that follows design 11: such an SDK
\* passes every case through every adapter, whichever fault is injected.
CorrectSdkPasses == defect = "none" => failures = {}

\* The defects that no case shows. No case has a trusted log that is not a prefix
\* together with a proof, and each node of a proof counts for the new root, so a
\* client need not compare the old one. Python's bytes cannot be overwritten, so
\* nothing there can be handed out. And where the adapter's store raises the SDK's
\* own error, with the cause, an SDK that lets it through looks like one that
\* made it.
Unnoticed ==
  \/ Has("ignores the old root")
  \/ Has("hands out its store") /\ adapter = "py"
  \/ Leaks /\ ~Bare

\* Each defect fails some case in each adapter, except for those that do not show
\* there, and those fail none.
DefectsAreFound ==
  phase = "end" /\ defect # "none" => (failures = {} <=> Unnoticed)

\* A case that passes left the store as the verdict demands: untouched by a
\* rejected candidate, at the candidate otherwise.
PassMeansRetained ==
  phase = "judge" /\ Passes =>
    store = IF error # NoError THEN case.trusted.log ELSE case.candidate.log
=============================================================================
