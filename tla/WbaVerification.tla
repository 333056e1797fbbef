-------------------------- MODULE WbaVerification --------------------------
(***************************************************************************)
(* One wba_verify_request case in one of the three native adapters         *)
(* (wba_adapters.py, wba-verify.mjs, wba_adapter_test.go). The adapter     *)
(* puts a clock, a directory server, a resolver of identities and a replay *)
(* store around the SDK's verifier. Where the scenario wants the verifier  *)
(* to have seen the message before, it is run twice: the first run only    *)
(* warms up.                                                               *)
(*                                                                         *)
(* The verifier is external. It proceeds as design 10 has it, except for   *)
(* one defect it may have.                                                 *)
(***************************************************************************)
EXTENDS WbaScenarios

CONSTANTS Adapters, \* among "py", "ts" and "go"
          Runs      \* the cases to run, each with what is wrong with the verifier

ASSUME RunsAssumption == \A run \in Runs : run.case.scenario \in Scenarios

VARIABLES adapter,
          defect,
          wraps,       \* the SDK turns an error of the replay store into one of its own
          case,
          phase,       \* "warm", "final" or "done": which verification is under way
          pc,          \* where the verifier is
          clock,       \* what the adapter's clock shows
          discoveries, \* requests the directory server has had
          nonceUsed,   \* the nonce is in the adapter's replay store
          known,       \* the verifier has verified this message before
          error,       \* what the verifier has raised
          answer

vars == <<adapter, defect, wraps, case, phase, pc, clock, discoveries, nonceUsed, known,
          error, answer>>

s == case.scenario
Has(d) == defect = d

NoError == [class |-> "none", transient |-> FALSE]
Error(class) == [class |-> class, transient |-> FALSE]
Invalid == Error("verification")
Unavailable == [class |-> "verification", transient |-> ~Has("calls-every-failure-permanent")]

NoAnswer == [ok |-> FALSE, error |-> "none"]
Failure == [ok |-> FALSE, error |-> "AdapterError"]

-----------------------------------------------------------------------------

Init ==
  /\ adapter \in Adapters
  /\ \E run \in Runs : case = run.case /\ defect = run.defect
  /\ wraps \in BOOLEAN
  /\ phase = IF WarmsUp(s) THEN "warm" ELSE "final"
  /\ pc = "local"
  /\ clock = s.now
  /\ discoveries = 0
  /\ nonceUsed = FALSE
  /\ known = FALSE
  /\ error = NoError
  /\ answer = NoAnswer

-----------------------------------------------------------------------------
(* What the adapter puts around the verifier.                              *)

\* The address the discovery host has: the redirect's, once there has been a
\* request.
Resolved == IF discoveries > 0 /\ s.redirect # "none" THEN s.redirect ELSE s.address

\* What the directory server does with a request.
Served ==
  CASE s.directoryTimeout                          -> "nothing"
    [] ~s.directoryTimeout /\ s.redirect # "none"  -> "redirect"
    [] OTHER                                       -> IF s.status = 200 THEN "directory" ELSE "unavailable"

\* The resolver of identities. Python and TypeScript inject one that denies
\* acceptance from the second verification on. Go has the SDK's own, on a
\* fixture that denies it from the start unless it is cached, loses the record
\* after the warm-up, and gets a denying resolver without mTLS in its place.
InjectedRaises ==
  \/ ~s.dnsidExists
  \/ ~s.acceptanceAllowed /\ phase = "final"
  \/ s.requiresMtls

FixtureRaises ==
  \/ ~s.dnsidExists /\ phase = "final"
  \/ ~s.acceptanceAllowed /\ (phase = "final" \/ ~s.cacheHit)
  \/ s.requiresMtls /\ ~(phase = "final" /\ s.cacheHit /\ ~s.acceptanceAllowed)

\* Denies what it is going to deny from the start.
WrongResolverRaises ==
  \/ ~s.dnsidExists
  \/ ~s.acceptanceAllowed
  \/ s.requiresMtls

ResolverRaises == IF adapter = "go" THEN FixtureRaises ELSE InjectedRaises

\* Rotates the key before the warm-up.
WrongCurrentKu == s.currentKu

CurrentKu == IF phase = "final" THEN s.currentKu ELSE "same"

-----------------------------------------------------------------------------
(* The SDK's verifier (external), and the adapter's callbacks it runs.     *)

\* Go hands the verifier a copy of the configuration.
Shares == adapter \in {"py", "ts"}

InTime ==
  LET window == Window(s.request)
      skew == IF Shares /\ s.skewMutated /\ Has("reads-the-caller-configuration")
              THEN Mutated ELSE Skew IN
  /\ window.created <= clock + skew \/ Has("accepts-future-requests")
  /\ clock <= window.expires + skew \/ Has("accepts-expired-requests")

Covers == s.required = "operation" => s.request = "bound"

Raise(e) == error' = e /\ pc' = "raised"
Go(to) == pc' = to /\ UNCHANGED error

Local ==
  /\ pc = "local"
  /\ IF s.required = "malformed" THEN Raise(Error("argument"))
     ELSE IF \/ s.request = "malformed"
             \/ ~Covers /\ ~Has("ignores-the-required-coverage")
                        /\ ~Has("checks-coverage-after-discovery")
             \/ ~InTime
       THEN Raise(Invalid)
     ELSE IF known /\ Has("reuses-the-directory") THEN Go("identity")
     ELSE Go("dial")
  /\ UNCHANGED <<adapter, defect, wraps, case, phase, clock, discoveries, nonceUsed, known, answer>>

Dial ==
  /\ pc = "dial"
  /\ IF \/ Resolved = "private" /\ ~Has("dials-private-addresses")
        \/ ~s.tlsValid /\ ~Has("ignores-Web-PKI")
     THEN Raise(Invalid)
     ELSE Go("get")
  /\ UNCHANGED <<adapter, defect, wraps, case, phase, clock, discoveries, nonceUsed, known, answer>>

\* Counts the requests of the verification under way only.
WrongCounted == 1

Counted == discoveries + 1

\* The one further request of an SDK that retries or follows.
Again == discoveries = 0

\* The server counts the request and moves the clock to the end of it.
Get ==
  /\ pc = "get"
  /\ discoveries' = Counted
  /\ clock' = s.finishedAt
  /\ CASE Served = "nothing"     -> IF Has("retries") /\ Again THEN Go("dial") ELSE Raise(Unavailable)
       [] Served = "redirect"    -> IF Has("follows-redirects") /\ Again THEN Go("dial") ELSE Raise(Invalid)
       [] Served = "unavailable" -> IF Has("ignores-the-status") THEN Go("directory") ELSE Raise(Unavailable)
       [] Served = "directory"   -> Go("directory")
  /\ UNCHANGED <<adapter, defect, wraps, case, phase, nonceUsed, known, answer>>

DirectoryInTime ==
  LET window == DirectoryWindow(s.directory) IN
  /\ window.created <= clock \/ Has("allows-directories-skew")
  /\ clock <= window.expires + Skew

Directory ==
  /\ pc = "directory"
  /\ IF \/ s.directory = "forged"
        \/ s.directory = "aged" /\ ~Has("ignores-the-age-of-a-directory")
        \/ ~DirectoryInTime
        \/ s.request = "forged" /\ ~Has("ignores-the-request-signature")
        \/ ~Covers /\ Has("checks-coverage-after-discovery")
     THEN Raise(Invalid)
     ELSE Go("identity")
  /\ UNCHANGED <<adapter, defect, wraps, case, phase, clock, discoveries, nonceUsed, known, answer>>

Identity ==
  /\ pc = "identity"
  /\ IF known /\ Has("reuses-the-identity") THEN Go("return")
     ELSE IF ResolverRaises
       THEN IF Has("falls-back-to-the-directory") THEN Go("return") ELSE Raise(Invalid)
     ELSE IF \/ CurrentKu = "other"
             \/ CurrentKu = "auxiliary" /\ ~Has("takes-any-key-of-the-set")
             \/ s.dnsTTL = 0 /\ Has("refuses-a-zero-TTL")
       THEN Raise(Invalid)
     ELSE Go("return")
  /\ UNCHANGED <<adapter, defect, wraps, case, phase, clock, discoveries, nonceUsed, known, answer>>

\* The adapter's replay store, asked once everything else has been verified. It
\* answers that a nonce is used; Go's raises an error for that, too.
Return ==
  /\ pc = "return"
  /\ IF ~InTime /\ ~Has("checks-the-time-once")
       THEN Raise(Invalid) /\ UNCHANGED nonceUsed
     ELSE IF ~s.replayEnabled
       THEN Go("returned") /\ UNCHANGED nonceUsed
     ELSE IF s.request = "no-nonce" /\ ~Has("accepts-a-missing-nonce")
       THEN Raise(Invalid) /\ UNCHANGED nonceUsed
     ELSE IF ~s.storeAvailable
       THEN /\ IF Has("admits-when-the-store-fails") THEN Go("returned")
               ELSE Raise(IF wraps THEN Invalid ELSE Error("store"))
            /\ UNCHANGED nonceUsed
     ELSE IF nonceUsed /\ ~Has("ignores-the-replay-store")
       THEN /\ Raise(IF adapter = "go" /\ ~wraps THEN Error("store") ELSE Invalid)
            /\ UNCHANGED nonceUsed
     ELSE Go("returned") /\ nonceUsed' = TRUE
  /\ UNCHANGED <<adapter, defect, wraps, case, phase, clock, discoveries, known, answer>>

-----------------------------------------------------------------------------
(* The adapter.                                                            *)

\* The warm-up succeeded: the scenario's changes take effect, the clock goes
\* back, and the verifier is run on the message again.
Warmed ==
  /\ pc = "returned" /\ phase = "warm"
  /\ phase' = "final"
  /\ pc' = "local"
  /\ clock' = s.now
  /\ known' = TRUE
  /\ UNCHANGED <<adapter, defect, wraps, case, discoveries, nonceUsed, error, answer>>

\* Takes a failing warm-up for the rejection.
WrongNotWarmed ==
  /\ pc = "raised" /\ phase = "warm"
  /\ answer' = [ok |-> FALSE, error |-> "ConformanceError", transient |-> error.transient,
                discoveryRequests |-> discoveries]
  /\ phase' = "done"
  /\ UNCHANGED <<adapter, defect, wraps, case, pc, clock, discoveries, nonceUsed, known, error>>

NotWarmed ==
  /\ pc = "raised" /\ phase = "warm"
  /\ answer' = Failure
  /\ phase' = "done"
  /\ UNCHANGED <<adapter, defect, wraps, case, pc, clock, discoveries, nonceUsed, known, error>>

Finish(result) ==
  /\ phase = "final"
  /\ answer' = result
  /\ phase' = "done"
  /\ UNCHANGED <<adapter, defect, wraps, case, pc, clock, discoveries, nonceUsed, known, error>>

Verified ==
  /\ pc = "returned"
  /\ Finish([ok |-> TRUE, discoveryRequests |-> discoveries])

\* Only the SDK's own errors are a rejection. TypeScript and Go also know the
\* error their replay store raised; it says nothing of being transient.
Rejected ==
  /\ pc = "raised" /\ error.class = "verification"
  /\ Finish([ok |-> FALSE, error |-> "ConformanceError", transient |-> error.transient,
             discoveryRequests |-> discoveries])

Misused ==
  /\ pc = "raised" /\ error.class = "argument"
  /\ Finish([ok |-> FALSE, error |-> "ArgumentError", discoveryRequests |-> discoveries])

StoreFailed ==
  /\ pc = "raised" /\ error.class = "store"
  /\ Finish(IF adapter = "py" THEN Failure
            ELSE [ok |-> FALSE, error |-> "ConformanceError", discoveryRequests |-> discoveries])

Next ==
  \/ Local \/ Dial \/ Get \/ Directory \/ Identity \/ Return
  \/ Warmed \/ NotWarmed \/ Verified \/ Rejected \/ Misused \/ StoreFailed

Spec == Init /\ [][Next]_vars

-----------------------------------------------------------------------------
(* Properties.                                                             *)

\* evaluate_result, on a case without markers.
Passes ==
  /\ \A f \in DOMAIN case.expect : f \in DOMAIN answer /\ answer[f] = case.expect[f]
  /\ answer.ok \/ answer.error # "AdapterError"

Done == phase = "done"

\* An error of the replay store that the Python SDK lets through is not one of
\* its errors: the adapter reports its own failure.
LetThrough == adapter = "py" /\ ~wraps /\ "store" \in Violations(s)

\* A verifier that follows design 10 passes every case of the corpus, through
\* every adapter: none needs a cache the verifier does not have, and what the
\* warm-up leaves behind (requests counted, nonce used, clock moved) is what the
\* expectation of the second verification reckons with.
CorrectVerifierPasses ==
  Done /\ case \in Corpus /\ defect = "none" /\ ~LetThrough => Passes

\* The case that is there to catch a defect.
Catches ==
  [d \in {run.defect : run \in Runs} \ {"none"} |->
     CASE d = "accepts-expired-requests"          -> "expired"
       [] d = "accepts-future-requests"           -> "future"
       [] d = "reads-the-caller-configuration"    -> "configuration-snapshot"
       [] d = "ignores-the-required-coverage"     -> "required-operation-coverage"
       [] d = "checks-coverage-after-discovery"   -> "required-operation-coverage"
       [] d = "dials-private-addresses"           -> "private-discovery-address"
       [] d = "ignores-Web-PKI"                   -> "invalid-web-pki"
       [] d = "follows-redirects"                 -> "same-host-public-redirect"
       [] d = "retries"                           -> "directory-timeout"
       [] d = "ignores-the-status"                -> "directory-503"
       [] d = "calls-every-failure-permanent"     -> "directory-503"
       [] d = "ignores-the-age-of-a-directory"    -> "directory-http-age-stale"
       [] d = "allows-directories-skew"           -> "directory-future-within-skew"
       [] d = "ignores-the-request-signature"     -> "bad-signature"
       [] d = "falls-back-to-the-directory"       -> "directory-only-no-fallback"
       [] d = "reuses-the-identity"               -> "cache-hit-acceptance-denied"
       [] d = "reuses-the-directory"              -> "cache-hit-valid"
       [] d = "takes-any-key-of-the-set"          -> "auxiliary-non-signing-key"
       [] d = "refuses-a-zero-TTL"                -> "zero-dns-ttl"
       [] d = "checks-the-time-once"              -> "expires-during-discovery"
       [] d = "accepts-a-missing-nonce"           -> "nonce-missing"
       [] d = "admits-when-the-store-fails"       -> "nonce-store-failure"
       [] d = "ignores-the-replay-store"          -> "nonce-reused"]

\* A verifier that Go hands a copy cannot show that it reads the original.
Possible == defect = "reads-the-caller-configuration" => Shares

\* Each defect fails the case that is there for it, through every adapter.
DefectsAreCaught ==
  Done /\ defect # "none" /\ Possible /\ case.name = Catches[defect] => ~Passes

\* A case that passes because the message was rejected was rejected by the
\* verification the case is about, never by the warm-up before it.
RejectionIsTheFinalOne ==
  Done /\ ~answer.ok /\ Passes =>
    pc = "raised" /\ error # NoError /\ (WarmsUp(s) => known)

\* Whatever a scenario combines, if it is coherent the three adapters build the
\* world it describes around the verifier: it accepts exactly if nothing in the
\* scenario speaks against it, and the caller's own mistake is told apart.
ScenarioIsWhatItSays ==
  Done /\ defect = "none" /\ Coherent(s) /\ ~LetThrough =>
    /\ answer.ok = (Violations(s) = {})
    /\ ~answer.ok =>
         answer.error = IF "argument" \in Violations(s) THEN "ArgumentError" ELSE "ConformanceError"
=============================================================================
