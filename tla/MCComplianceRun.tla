-------------------------- MODULE MCComplianceRun --------------------------
(* Lists of up to three cases, one for each way run.py treats a case, and   *)
(* SDK selections of none to two. AnswersTo lists what the shims can return  *)
(* for the operation: the expected answer, its opposite, each special error *)
(* and one answer without a boolean ok.                                     *)
EXTENDS ComplianceRun

Case(id, op, expect) ==
  [id |-> id, op |-> op, expect |-> expect, uncached |-> NoExpectation,
   override |-> [s \in {} |-> expect], knownBug |-> {}, supported |-> {"go", "ts", "py"},
   keyChange |-> FALSE, failClosed |-> FALSE]

Accept == [ok |-> "true"]
Reject(class) == [ok |-> "false", error |-> class]

Parse == Case("parse", "parse", Accept @@ [value |-> "a"])
Draft == [Case("draft", "parse", Accept @@ [value |-> "a"])
            EXCEPT !.supported = {"go"}, !.knownBug = {"ts"}]
Deviates == [Case("deviates", "parse", Accept @@ [value |-> "a"])
               EXCEPT !.override = [s \in {"ts"} |-> [value |-> "b"]]]
Buggy == [Case("buggy", "parse", Reject("ParseError")) EXCEPT !.knownBug = {"py", "ts"}]
Verify == Case("verify", "wba_verify_request", Reject("VerificationError"))
Cached == [Case("cached", "wba_verify_request", Accept @@ [discoveryRequests |-> "1"])
             EXCEPT !.uncached = Accept @@ [discoveryRequests |-> "2"]]
Signs == Case("sign", "wba_sign", Accept)
Changed == [Case("changed", "wba_sign", Accept) EXCEPT !.keyChange = TRUE]
Responds == Case("respond", "negotiated_response_sign", Accept @@ [signed |-> "valid"])
Lifecycle == [Case("lifecycle", "lifecycle_vector", Accept) EXCEPT !.failClosed = TRUE]
Checkpoint == [Case("checkpoint", "c2sp_checkpoint_vector",
                    Reject("CheckpointError") @@ [stored |-> "trusted", condition |-> "fork"])
                 EXCEPT !.knownBug = {"py"}]
Twin == [Verify EXCEPT !.id = "twin"]
SameId == [Signs EXCEPT !.id = "verify"]

MCSuites ==
  {<<>>, <<Verify>>, <<Verify, SameId>>, <<Parse, Draft>>, <<Deviates, Buggy>>,
   <<Parse, Verify, Twin>>, <<Verify, Parse, Cached>>, <<Twin, Verify>>,
   <<Signs, Verify>>, <<Responds, Changed>>, <<Lifecycle, Checkpoint>>}

MCSelections == {<<>>, <<"go">>, <<"ts">>, <<"ts", "py">>}

AnswersTo(op) ==
  CASE op = "parse" ->
         {Accept @@ [value |-> "a"], Accept @@ [value |-> "b"], Unsupported,
          Reject("ParseError"), AdapterFailure, [value |-> "a"]}
    [] op = "wba_verify_request" ->
         {Reject("VerificationError"), Accept @@ [discoveryRequests |-> "1"],
          Accept @@ [discoveryRequests |-> "2"], NotShipped,
          Reject("NativeAdapterRequired"), AdapterFailure}
    [] op \in {"wba_sign", "negotiated_response_sign"} ->
         {Accept, Accept @@ [signed |-> "valid"], Accept @@ [signed |-> "forged"],
          Reject("SigningRejected"), AdapterFailure,
          Reject("CapabilityMissing") @@ [capability |-> "negotiated_response_signatures"]}
    [] op = "lifecycle_vector" ->
         {Accept, Reject("LifecycleError"), Reject("ShimError"), Reject("ParseError")}
    [] op = "c2sp_checkpoint_vector" ->
         {Reject("CheckpointError") @@ [stored |-> s, condition |-> c] :
            s \in {"trusted", "candidate"}, c \in {"fork", "rollback"}}
         \cup {Accept @@ [stored |-> "candidate"], AdapterFailure}

MCAnswers ==
  [op \in {"parse", "wba_verify_request", "wba_sign", "negotiated_response_sign",
           "lifecycle_vector", "c2sp_checkpoint_vector"} |-> AnswersTo(op)]
=============================================================================
