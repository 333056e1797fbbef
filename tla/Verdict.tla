------------------------------ MODULE Verdict ------------------------------
(***************************************************************************)
(* What harness/run.py makes of one answer: the expectation it resolves    *)
(* for a case and an SDK, the comparison, and the status of the cell.      *)
(*                                                                         *)
(* Answers and expectations are functions from field names to strings. A   *)
(* nested field that the code compares or merges on its own (record.v) is  *)
(* a field here. The field "says" stands for the phrase error_contains     *)
(* looks for in the message.                                               *)
(*                                                                         *)
(* A case is a record                                                      *)
(*   [op, expect, uncached, override, knownBug, supported, keyChange,      *)
(*    failClosed]                                                          *)
(* where override is a function from some SDKs to the fields they deviate  *)
(* in, knownBug the SDKs marked so, supported the SDKs whose CAPABILITIES  *)
(* have the version of the record, and uncached either NoExpectation or    *)
(* the expectation for an SDK without a directory cache (none has one).    *)
(***************************************************************************)
EXTENDS TLC

Absent == "absent"

Get(fields, f) == IF f \in DOMAIN fields THEN fields[f] ELSE Absent

HarnessErrors == {"AdapterError", "ShimError"}

AdapterFailure == [ok |-> "false", error |-> "AdapterError"]

Nonconforming == [ok |-> "false", error |-> "ConformanceError"]

NoExpectation == [ok |-> Absent]

Unsupported == [ok |-> "false", error |-> "ParseError", says |-> "unsupported"]

\* What an SDK without a WBA verifier is to answer, word for word.
NotShipped == [ok |-> "false", error |-> "CapabilityMissing",
               capability |-> "wba_request_verification",
               says |-> "SDK has signing/directory serving only"]

OptionalCapabilities == {"negotiated_response_signatures", "c2sp_migration_recursion"}

-----------------------------------------------------------------------------
(* Expectations.                                                           *)

Gated(case, sdk) == sdk \notin case.supported

Kind(case, sdk) ==
  IF Gated(case, sdk) THEN "gated"
  ELSE IF case.uncached # NoExpectation THEN "uncached"
  ELSE IF sdk \in DOMAIN case.override THEN "override"
  ELSE "plain"

Expected(case, sdk) ==
  CASE Kind(case, sdk) = "gated"    -> Unsupported
    [] Kind(case, sdk) = "uncached" -> case.uncached
    [] Kind(case, sdk) = "override" -> case.override[sdk] @@ case.expect
    [] Kind(case, sdk) = "plain"    -> case.expect

-----------------------------------------------------------------------------
(* Comparison: the fields that are a problem. That an accepted publish     *)
(* profile must list its known deviations (run.py:179-184) is left out:    *)
(* no property tells it from any other field that disagrees.               *)

Disagree(expected, actual) ==
  {f \in DOMAIN expected \ {"ok"} : Get(actual, f) # expected[f]}

Problems(expected, actual) ==
  IF Get(actual, "ok") \notin {"true", "false"} THEN {"no boolean ok"}
  ELSE IF Get(actual, "error") \in HarnessErrors THEN {"adapter failure"}
  ELSE IF expected.ok = "false" /\ "error" \notin DOMAIN expected THEN {"unnamed rejection"}
  ELSE IF expected.ok # actual.ok THEN {"ok"}
  ELSE Disagree(expected, actual)

-----------------------------------------------------------------------------
(* Output of a signer is checked by the harness first: an accepted answer  *)
(* is replaced by what the check found. "signed" says whether the message  *)
(* is as the case demands and verifies under the key its keyid names.      *)

SignerRefusals == {"SigningRejected", "ArgumentError", "VerificationError"}

CheckSigned(case, actual) ==
  IF Get(actual, "ok") = "true"
  THEN IF Get(actual, "signed") = "valid" THEN [ok |-> "true"] ELSE Nonconforming
  ELSE IF Get(actual, "ok") = "false" /\ case.keyChange /\ Get(actual, "error") \in SignerRefusals
       THEN [ok |-> "true"]
       ELSE actual

CheckNegotiated(actual) ==
  IF Get(actual, "ok") = "true"
  THEN IF Get(actual, "signed") = Absent THEN AdapterFailure
       ELSE [ok |-> "true", signed |-> actual.signed]
  ELSE actual

Checked(case, actual) ==
  IF case.op = "wba_sign" THEN CheckSigned(case, actual)
  ELSE IF case.op \in {"negotiated_response_sign", "negotiated_response_prepare"}
       THEN CheckNegotiated(actual)
       ELSE actual

-----------------------------------------------------------------------------
(* The status of a cell.                                                   *)

NotExecuted(case, actual) ==
  \/ case.op = "wba_verify_request" /\ actual = NotShipped
  \/ /\ Get(actual, "error") = "CapabilityMissing"
     /\ Get(actual, "capability") \in OptionalCapabilities

FailsClosed(case, actual) ==
  case.failClosed /\ Get(actual, "ok") = "false" /\ Get(actual, "error") = "LifecycleError"

SafetyKeys == {"ok", "error", "stored", "causePreserved", "proofRequested"}

\* Looks at the verdict alone.
WrongSafetyKeys(expected) == [f \in DOMAIN expected \cap {"ok", "error"} |-> expected[f]]

OnlySafetyKeys(expected) == [f \in DOMAIN expected \cap SafetyKeys |-> expected[f]]

\* A checkpoint answer whose safety keys are off: no marker excuses it.
Unsafe(case, sdk, actual) ==
  /\ case.op = "c2sp_checkpoint_vector"
  /\ \/ Get(actual, "error") \in HarnessErrors
     \/ Problems(OnlySafetyKeys(Expected(case, sdk)), actual) # {}

\* The marker also excuses a version the SDK does not support.
WrongKnownBug(case, sdk) == sdk \in case.knownBug

KnownBug(case, sdk) == sdk \in case.knownBug /\ ~Gated(case, sdk)

\* An adapter failure hides behind the marker.
WrongExcused(case, sdk, actual) == KnownBug(case, sdk)

Excused(case, sdk, actual) ==
  KnownBug(case, sdk) /\ Get(actual, "error") \notin HarnessErrors

Matches(case, sdk, actual) ==
  FailsClosed(case, actual) \/ Problems(Expected(case, sdk), actual) = {}

Status(case, sdk, actual) ==
  IF NotExecuted(case, actual) THEN "MISSING"
  ELSE IF Unsafe(case, sdk, actual) THEN "FAIL"
  ELSE IF ~Matches(case, sdk, actual)
       THEN IF Excused(case, sdk, actual) THEN "XFAIL" ELSE "FAIL"
  ELSE IF KnownBug(case, sdk) THEN "XPASS"
  ELSE IF Gated(case, sdk) THEN "REJ"
  ELSE "PASS"

Statuses == {"PASS", "REJ", "XFAIL", "XPASS", "FAIL", "MISSING"}
=============================================================================
