----------------------------- MODULE WbaSigning -----------------------------
(***************************************************************************)
(* One wba_sign case in one of the three adapters (PyAdapter._wba,         *)
(* handleWBA, handleWba): a fixture key provider, an SDK signer built on   *)
(* it, the adapter's classification of what the signer did, and the check  *)
(* of its output in wba_vectors.py.                                        *)
(*                                                                         *)
(* The cases of interest change something under the signer: a second key   *)
(* becomes current at the provider's first call to sign, or the caller     *)
(* changes the configuration it has handed over. The signer is external;   *)
(* how it deals with the key is its strategy.                              *)
(***************************************************************************)
EXTENDS Verdict

CONSTANT Errors \* the errors a signer may raise

Shims == {"py", "ts", "go"}

\* "trusts"   signs and hands out the message
\* "repeats"  starts over if the current key is not the advertised one
\* "refuses"  raises an error then
\* "fails"    raises an error whatever happens
\* "pins"     signs with the key it has advertised, by its id
\* "rereads"  looks into the caller's configuration again when it signs
Strategies == {"trusts", "repeats", "refuses", "fails", "pins", "rereads"}

\* The classes of the SDKs' own errors, and one that is none of theirs.
NativeErrors == {"ParseError", "ValidationError", "ArgumentError", "VerificationError"}
Runtime == "RuntimeError"

VARIABLES adapter,
          changes,    \* what the case changes: "nothing", "key" or "configuration"
          strategy,
          raises,     \* the error the signer raises when it raises one
          pc,         \* "build", "read", "sign", "check", "emit", "answer", "judge" or "end"
          configured, \* the discovery URI in the caller's configuration
          taken,      \* the one the signer was built with
          active,     \* the provider's current key
          pending,    \* the key change is still to come
          advertised, \* the key the signer has read
          signedBy,   \* the key that has signed
          answer,
          status

vars == <<adapter, changes, strategy, raises, pc, configured, taken, active, pending,
          advertised, signedBy, answer, status>>

Unset == "unset"
NoAnswer == [ok |-> Absent]

-----------------------------------------------------------------------------

Init ==
  /\ adapter \in Shims
  /\ changes \in {"nothing", "key", "configuration"}
  /\ strategy \in Strategies
  /\ raises \in Errors
  /\ pc = "build"
  /\ configured = "original" /\ taken = Unset
  /\ active = "old" /\ pending = (changes = "key")
  /\ advertised = Unset /\ signedBy = Unset
  /\ answer = NoAnswer /\ status = Absent

\* The profile is built, then the caller's configuration changes: its discovery
\* URI, the one field a case changes. Go hands over a copy of that string, so
\* there is nothing left to change (the inclusion flag would be shared).
Shares == adapter \in {"py", "ts"}

Build ==
  /\ pc = "build"
  /\ taken' = configured
  /\ configured' = IF changes = "configuration" /\ Shares THEN "changed" ELSE configured
  /\ pc' = "read"
  /\ UNCHANGED <<adapter, changes, strategy, raises, active, pending, advertised, signedBy,
                 answer, status>>

\* The provider hands out the key it was made with.
WrongReadKey ==
  /\ pc = "read"
  /\ advertised' = "old"
  /\ pc' = "sign"
  /\ UNCHANGED <<adapter, changes, strategy, raises, configured, taken, active, pending,
                 signedBy, answer, status>>

ReadKey ==
  /\ pc = "read"
  /\ advertised' = active
  /\ pc' = "sign"
  /\ UNCHANGED <<adapter, changes, strategy, raises, configured, taken, active, pending,
                 signedBy, answer, status>>

\* FixtureKeyProvider.sign: the change comes first, the signature is the new key's.
Sign ==
  /\ pc = "sign" /\ strategy # "pins"
  /\ active' = IF pending THEN "new" ELSE active
  /\ signedBy' = active'
  /\ pending' = FALSE
  /\ pc' = "check"
  /\ UNCHANGED <<adapter, changes, strategy, raises, configured, taken, advertised, answer, status>>

\* Signing by key id. TypeScript has the first key's signature and no change, Go
\* takes it for a call to sign, Python has no such method.
SignPinned ==
  /\ pc = "sign" /\ strategy = "pins"
  /\ \/ /\ adapter = "ts"
        /\ signedBy' = "old"
        /\ pc' = "emit"
        /\ UNCHANGED <<active, pending, answer>>
     \/ /\ adapter = "go"
        /\ active' = IF pending THEN "new" ELSE active
        /\ signedBy' = active'
        /\ pending' = FALSE
        /\ pc' = "emit"
        /\ UNCHANGED answer
     \/ /\ adapter = "py"
        /\ answer' = AdapterFailure
        /\ pc' = "judge"
        /\ UNCHANGED <<active, pending, signedBy>>
  /\ UNCHANGED <<adapter, changes, strategy, raises, configured, taken, advertised, status>>

Stale == advertised # active

\* The signer looks at what it has got.
Look ==
  /\ pc = "check"
  /\ pc' = IF strategy = "fails" \/ (strategy = "refuses" /\ Stale) THEN "answer"
           ELSE IF strategy = "repeats" /\ Stale THEN "read"
           ELSE "emit"
  /\ UNCHANGED <<adapter, changes, strategy, raises, configured, taken, active, pending,
                 advertised, signedBy, answer, status>>

-----------------------------------------------------------------------------
(* The adapter and the check.                                              *)

Uri == IF strategy = "rereads" THEN configured ELSE taken

\* Looks up the key the signature is of.
WrongSound == Uri = "original"

\* The signature verifies under the key its keyid names, the old or the new one,
\* and the message is what the original configuration asks for.
Sound == signedBy = advertised /\ Uri = "original"

Emit ==
  /\ pc = "emit"
  /\ answer' = [ok |-> "true", signed |-> IF Sound THEN "valid" ELSE "invalid"]
  /\ pc' = "judge"
  /\ UNCHANGED <<adapter, changes, strategy, raises, configured, taken, active, pending,
                 advertised, signedBy, status>>

\* errJSON, and its counterparts.
Named ==
  CASE adapter = "py" -> IF raises \in NativeErrors THEN raises ELSE "AdapterError"
    [] adapter = "ts" -> IF raises \in NativeErrors THEN raises ELSE "AdapterError"
    [] adapter = "go" -> IF raises \in NativeErrors \ {"VerificationError"} THEN raises
                         ELSE "AdapterError"

\* Go does not know its signer's errors and takes any for a refusal.
Label == IF adapter = "go" /\ changes = "key" THEN "SigningRejected" ELSE Named

RaiseError ==
  /\ pc = "answer"
  /\ answer' = [ok |-> "false", error |-> Label]
  /\ pc' = "judge"
  /\ UNCHANGED <<adapter, changes, strategy, raises, configured, taken, active, pending,
                 advertised, signedBy, status>>

Case ==
  [op |-> "wba_sign", expect |-> [ok |-> "true"], uncached |-> NoExpectation,
   override |-> [x \in {} |-> NoExpectation], knownBug |-> {}, supported |-> Shims,
   keyChange |-> changes = "key", failClosed |-> FALSE]

Judge ==
  /\ pc = "judge"
  /\ status' = Status(Case, adapter, Checked(Case, answer))
  /\ pc' = "end"
  /\ UNCHANGED <<adapter, changes, strategy, raises, configured, taken, active, pending,
                 advertised, signedBy, answer>>

Next == Build \/ ReadKey \/ Sign \/ SignPinned \/ Look \/ Emit \/ RaiseError \/ Judge

Spec == Init /\ [][Next]_vars /\ WF_vars(Next)

-----------------------------------------------------------------------------
(* Properties.                                                             *)

\* Types: the profile's own configuration is the original one throughout.
TypeOK ==
  /\ adapter \in Shims /\ strategy \in Strategies /\ raises \in Errors
  /\ changes \in {"nothing", "key", "configuration"}
  /\ pc \in {"build", "read", "sign", "check", "emit", "answer", "judge", "end"}
  /\ configured \in {"original", "changed"} /\ taken \in {Unset, "original"}
  /\ active \in {"old", "new"} /\ pending \in BOOLEAN
  /\ advertised \in {Unset, "old", "new"} /\ signedBy \in {Unset, "old", "new"}
  /\ status \in {Absent, "PASS", "FAIL"}

Passed == status = "PASS"

\* A signer whose message passes has advertised the key that signed and kept to
\* the configuration it was built with, whatever changed in between.
PassedMessageVerifies ==
  Passed /\ answer.ok = "true" => signedBy = advertised /\ Uri = "original"

\* A signer that starts over when the key has changed, or says that it will not
\* sign in an error of its own that the check knows, passes in every adapter.
CarefulSignerPasses ==
  status # Absent =>
    /\ strategy = "repeats" => Passed
    /\ strategy = "refuses" /\ raises \in {"ArgumentError", "VerificationError"} => Passed

\* What docs/sdk-design/conformance/README.md:147 says of the key change: "Only
\* recognized native rejection types pass this safety check; adapter/runtime
\* errors and unsupported methods still fail."
OnlyNativeRejectionsPass ==
  Passed /\ answer.ok = "false" => raises \in NativeErrors

\* The signer that starts over does so once: every case is judged.
EveryCaseIsJudged == <>(pc = "end")
=============================================================================
