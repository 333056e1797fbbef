-------------------------- MODULE WbaSigningProofs --------------------------
(***************************************************************************)
(* WbaSigning for every strategy and every set of errors: what a message   *)
(* that passes has been signed with, and that a careful signer passes.     *)
(***************************************************************************)
EXTENDS WbaSigning, TLAPS

Valid == [ok |-> "true", signed |-> "valid"]
Invalid == [ok |-> "true", signed |-> "invalid"]

-----------------------------------------------------------------------------
(* The status of a wba_sign case. It carries no marker, so a cell passes   *)
(* if what the check has made of the answer is [ok |-> "true"].            *)

LEMMA PlainCase ==
  ASSUME adapter \in Shims
  PROVE  /\ Expected(Case, adapter) = [ok |-> "true"]
         /\ ~KnownBug(Case, adapter) /\ ~Gated(Case, adapter)
         /\ Case.op = "wba_sign" /\ ~Case.failClosed
         /\ Case.keyChange <=> changes = "key"
<1>1. /\ Case.op = "wba_sign" /\ ~Case.failClosed
      /\ Case.keyChange <=> changes = "key"
      /\ Case.supported = Shims /\ Case.knownBug = {}
      /\ Case.uncached = NoExpectation /\ Case.expect = [ok |-> "true"]
      /\ DOMAIN Case.override = {}
  BY DEF Case
<1>2. ~Gated(Case, adapter) /\ ~KnownBug(Case, adapter)
  BY <1>1 DEF Gated, KnownBug
<1>3. Kind(Case, adapter) = "plain"
  BY <1>1, <1>2 DEF Kind
<1> QED BY <1>1, <1>2, <1>3 DEF Expected

LEMMA StatusOf ==
  ASSUME adapter \in Shims, NEW actual,
         Get(actual, "error") # "CapabilityMissing"
  PROVE  Status(Case, adapter, actual) =
           IF Problems([ok |-> "true"], actual) = {} THEN "PASS" ELSE "FAIL"
<1>1. ~NotExecuted(Case, actual)
  BY PlainCase DEF NotExecuted
<1>2. ~Unsafe(Case, adapter, actual)
  BY PlainCase DEF Unsafe
<1>3. Matches(Case, adapter, actual) <=> Problems([ok |-> "true"], actual) = {}
  BY PlainCase DEF Matches, FailsClosed
<1> QED BY <1>1, <1>2, <1>3, PlainCase DEF Status, Excused

\* An acceptance passes, a rejection does not.
LEMMA PassesIffTrue ==
  ASSUME adapter \in Shims
  PROVE  /\ Status(Case, adapter, [ok |-> "true"]) = "PASS"
         /\ \A e : e # "CapabilityMissing" =>
              Status(Case, adapter, [ok |-> "false", error |-> e]) = "FAIL"
<1>1. Status(Case, adapter, [ok |-> "true"]) = "PASS"
  <2>1. /\ Get([ok |-> "true"], "error") = Absent
        /\ Get([ok |-> "true"], "ok") = "true"
    BY DEF Get
  <2>2. Disagree([ok |-> "true"], [ok |-> "true"]) = {}
    BY DEF Disagree
  <2>3. Problems([ok |-> "true"], [ok |-> "true"]) = {}
    BY <2>1, <2>2 DEF Problems, HarnessErrors, Absent
  <2> QED BY <2>1, <2>3, StatusOf DEF Absent
<1>2. ASSUME NEW e, e # "CapabilityMissing"
      PROVE  Status(Case, adapter, [ok |-> "false", error |-> e]) = "FAIL"
  <2> DEFINE a == [ok |-> "false", error |-> e]
  <2>1. Get(a, "error") = e /\ Get(a, "ok") = "false" /\ a.ok = "false"
    BY DEF Get
  <2>2. Problems([ok |-> "true"], a) # {}
    BY <2>1 DEF Problems
  <2> HIDE DEF a
  <2>3. Status(Case, adapter, a) = "FAIL"
    BY <1>2, <2>1, <2>2, StatusOf
  <2> QED BY <2>3 DEF a
<1> QED BY <1>1, <1>2

LEMMA CheckedAnswers ==
  ASSUME adapter \in Shims
  PROVE  /\ Checked(Case, Valid) = [ok |-> "true"]
         /\ Checked(Case, Invalid) = Nonconforming
         /\ \A e : Checked(Case, [ok |-> "false", error |-> e]) =
                     IF changes = "key" /\ e \in SignerRefusals THEN [ok |-> "true"]
                     ELSE [ok |-> "false", error |-> e]
<1>1. \A actual : Checked(Case, actual) = CheckSigned(Case, actual)
  BY PlainCase DEF Checked
<1>2. Get(Valid, "ok") = "true" /\ Get(Valid, "signed") = "valid"
  BY DEF Get, Valid
<1>3. Get(Invalid, "ok") = "true" /\ Get(Invalid, "signed") = "invalid"
  BY DEF Get, Invalid
<1>4. ASSUME NEW e
      PROVE  CheckSigned(Case, [ok |-> "false", error |-> e]) =
               IF changes = "key" /\ e \in SignerRefusals THEN [ok |-> "true"]
               ELSE [ok |-> "false", error |-> e]
  <2> DEFINE a == [ok |-> "false", error |-> e]
  <2>1. Get(a, "ok") = "false" /\ Get(a, "error") = e
    BY DEF Get
  <2> HIDE DEF a
  <2>2. CheckSigned(Case, a) = IF changes = "key" /\ e \in SignerRefusals THEN [ok |-> "true"] ELSE a
    BY <2>1, PlainCase DEF CheckSigned
  <2> QED BY <2>2 DEF a
<1> QED BY <1>1, <1>2, <1>3, <1>4 DEF CheckSigned

-----------------------------------------------------------------------------
(* What is known at each step.                                             *)

Keys ==
  /\ active \in {"old", "new"} /\ pending \in BOOLEAN
  /\ pending => changes = "key"
  /\ active = "new" => changes = "key"
  /\ pc \in {"sign", "check"} => advertised = "old" \/ changes = "key"
  /\ pc = "check" => signedBy = active

Profile ==
  /\ adapter \in Shims /\ strategy \in Strategies
  /\ pc \in {"build", "read", "sign", "check", "emit", "answer", "judge", "end"}
  /\ pc = "build" => configured = "original"
  /\ pc # "build" => taken = "original"

Output ==
  /\ pc = "emit" /\ strategy \in {"repeats", "refuses"} => signedBy = advertised
  /\ pc = "emit" => strategy # "fails"
  /\ pc = "answer" => \/ strategy = "fails"
                      \/ strategy = "refuses" /\ changes = "key"
  /\ pc \in {"judge", "end"} =>
       \/ answer = Valid /\ Sound /\ strategy # "fails"
       \/ answer = Invalid /\ ~Sound /\ strategy \notin {"repeats", "refuses"}
       \/ answer = AdapterFailure /\ strategy = "pins"
       \/ /\ answer = [ok |-> "false", error |-> Label]
          /\ strategy = "fails" \/ (strategy = "refuses" /\ changes = "key")
  /\ pc # "end" => status = Absent
  /\ pc = "end" => status = Status(Case, adapter, Checked(Case, answer))

IInv == Keys /\ Profile /\ Output

LEMMA InitInv == Init => IInv
BY DEF Init, IInv, Keys, Profile, Output

LEMMA StepInv ==
  ASSUME IInv, [Next]_vars
  PROVE  IInv'
<1>1. Keys'
  <2>1. CASE UNCHANGED vars
    BY <2>1 DEF vars, IInv, Keys
  <2>2. CASE Build
    BY <2>2 DEF Build, IInv, Keys
  <2>3. CASE ReadKey
    BY <2>3 DEF ReadKey, IInv, Keys
  <2>4. CASE Sign
    BY <2>4 DEF Sign, IInv, Keys
  <2>5. CASE SignPinned
    <3>1. pc' \notin {"sign", "check"} /\ changes' = changes
      BY <2>5 DEF SignPinned
    <3>2. \/ UNCHANGED <<active, pending>>
          \/ active' = (IF pending THEN "new" ELSE active) /\ pending' = FALSE
      BY <2>5 DEF SignPinned
    <3>3. CASE UNCHANGED <<active, pending>>
      BY <3>1, <3>3 DEF IInv, Keys
    <3>4. CASE active' = (IF pending THEN "new" ELSE active) /\ pending' = FALSE
      <4>1. (active' = "new" /\ changes = "key") \/ active' = active
        BY <3>4 DEF IInv, Keys
      <4> QED BY <3>1, <3>4, <4>1 DEF IInv, Keys
    <3> QED BY <3>2, <3>3, <3>4
  <2>6. CASE Look
    BY <2>6 DEF Look, IInv, Keys
  <2>7. CASE Emit \/ RaiseError \/ Judge
    BY <2>7 DEF Emit, RaiseError, Judge, IInv, Keys
  <2> QED BY <2>1, <2>2, <2>3, <2>4, <2>5, <2>6, <2>7 DEF Next
<1>2. Profile'
  <2>1. CASE UNCHANGED vars
    BY <2>1 DEF vars, IInv, Profile
  <2>2. CASE Build \/ ReadKey \/ Sign \/ SignPinned
    BY <2>2 DEF Build, ReadKey, Sign, SignPinned, IInv, Profile
  <2>3. CASE Look \/ Emit \/ RaiseError \/ Judge
    BY <2>3 DEF Look, Emit, RaiseError, Judge, IInv, Profile
  <2> QED BY <2>1, <2>2, <2>3 DEF Next
<1>3. Output'
  <2>1. CASE UNCHANGED vars
    BY <2>1 DEF vars, IInv, Output, Sound, Uri, Label, Named, Case
  <2>2. CASE Build
    BY <2>2 DEF Build, IInv, Output
  <2>3. CASE ReadKey
    BY <2>3 DEF ReadKey, IInv, Output
  <2>4. CASE Sign
    BY <2>4 DEF Sign, IInv, Output
  <2>5. CASE SignPinned
    BY <2>5 DEF SignPinned, IInv, Output
  <2>6. CASE Look
    <3>1. strategy = "refuses" /\ Stale => changes = "key"
      BY <2>6 DEF Look, Stale, IInv, Keys
    <3>2. ~Stale => signedBy = advertised
      BY <2>6 DEF Look, Stale, IInv, Keys
    <3> QED BY <2>6, <3>1, <3>2 DEF Look, IInv, Output
  <2>7. CASE Emit
    <3>1. pc' = "judge" /\ UNCHANGED <<strategy, configured, taken, advertised, signedBy, status>>
      BY <2>7 DEF Emit
    <3>2. Sound' <=> Sound
      BY <3>1 DEF Sound, Uri
    <3>3. answer' = IF Sound THEN Valid ELSE Invalid
      BY <2>7 DEF Emit, Valid, Invalid
    <3>4. strategy \in {"repeats", "refuses"} => Sound
      BY <2>7 DEF Emit, IInv, Output, Profile, Sound, Uri
    <3>5. strategy # "fails" /\ status = Absent
      BY <2>7 DEF Emit, IInv, Output
    <3> QED BY <3>1, <3>2, <3>3, <3>4, <3>5 DEF Output
  <2>8. CASE RaiseError
    <3>1. /\ pc' = "judge" /\ UNCHANGED <<adapter, changes, strategy, raises, status>>
          /\ answer' = [ok |-> "false", error |-> Label]
      BY <2>8 DEF RaiseError
    <3>2. Label' = Label
      BY <3>1 DEF Label, Named
    <3>3. /\ strategy = "fails" \/ (strategy = "refuses" /\ changes = "key")
          /\ status = Absent
      BY <2>8 DEF RaiseError, IInv, Output
    <3> QED BY <3>1, <3>2, <3>3 DEF Output
  <2>9. CASE Judge
    <3>1. /\ pc = "judge" /\ pc' = "end"
          /\ status' = Status(Case, adapter, Checked(Case, answer))
          /\ UNCHANGED <<adapter, changes, strategy, raises, configured, taken, advertised, signedBy, answer>>
      BY <2>9 DEF Judge
    <3>2. Label' = Label /\ (Sound' <=> Sound) /\ Case' = Case
      BY <3>1 DEF Label, Named, Sound, Uri, Case
    <3>3. status' = Status(Case, adapter, Checked(Case, answer))'
      BY <3>1, <3>2
    <3> QED BY <3>1, <3>2, <3>3 DEF IInv, Output
  <2> QED BY <2>1, <2>2, <2>3, <2>4, <2>5, <2>6, <2>7, <2>8, <2>9 DEF Next
<1> QED BY <1>1, <1>2, <1>3 DEF IInv

\* What a step of the signer or the adapter has to go by.
THEOREM Invariance == Spec => []IInv
BY InitInv, StepInv, PTL DEF Spec

-----------------------------------------------------------------------------

\* What the harness makes of the answers there may be.
LEMMA Judgement ==
  ASSUME IInv, pc = "end"
  PROVE  /\ answer = Valid => Passed
         /\ answer = Invalid \/ answer = AdapterFailure => ~Passed
         /\ \A e : /\ answer = [ok |-> "false", error |-> e]
                   /\ changes = "key" /\ e \in SignerRefusals
                   => Passed
<1>1. adapter \in Shims /\ status = Status(Case, adapter, Checked(Case, answer))
  BY DEF IInv, Profile, Output
<1>2. CASE answer = Valid
  BY <1>1, <1>2, CheckedAnswers, PassesIffTrue DEF Passed, Valid, Invalid, AdapterFailure
<1>3. CASE answer = Invalid
  BY <1>1, <1>3, CheckedAnswers, PassesIffTrue DEF Passed, Nonconforming, Valid, Invalid
<1>4. CASE answer = AdapterFailure
  BY <1>1, <1>4, CheckedAnswers, PassesIffTrue DEF Passed, AdapterFailure, SignerRefusals, Valid
<1>5. ASSUME NEW e, answer = [ok |-> "false", error |-> e],
             changes = "key", e \in SignerRefusals
      PROVE  Passed
  BY <1>1, <1>5, CheckedAnswers, PassesIffTrue DEF Passed
<1> QED BY <1>2, <1>3, <1>4, <1>5

LEMMA AcceptedIsSound == IInv => PassedMessageVerifies
<1> SUFFICES ASSUME IInv, Passed, answer.ok = "true" PROVE Sound
  BY DEF PassedMessageVerifies, Sound
<1>1. pc = "end"
  BY DEF IInv, Output, Passed, Absent
<1>2. answer # Invalid
  BY <1>1, Judgement
<1>3. answer = Valid => Sound
  BY <1>1 DEF IInv, Output, Valid, Invalid, AdapterFailure
<1> QED BY <1>1, <1>2, <1>3 DEF IInv, Output, AdapterFailure

\* No signer gets a message past the check that another key signed than the
\* one it names, or that is not what it was asked for when it was built.
THEOREM PassedMessageVerifiesAlways == Spec => []PassedMessageVerifies
BY Invariance, AcceptedIsSound, PTL

LEMMA CarefulPasses == IInv => CarefulSignerPasses
<1> SUFFICES ASSUME IInv, status # Absent
             PROVE  /\ strategy = "repeats" => Passed
                    /\ strategy = "refuses" /\ raises \in {"ArgumentError", "VerificationError"} => Passed
  BY DEF CarefulSignerPasses
<1>1. pc = "end"
  BY DEF IInv, Output
<1>2. CASE strategy = "repeats"
  BY <1>1, <1>2, Judgement DEF IInv, Output
<1>3. CASE strategy = "refuses" /\ raises \in {"ArgumentError", "VerificationError"}
  <2>1. \/ answer = Valid
        \/ answer = [ok |-> "false", error |-> Label] /\ changes = "key"
    BY <1>1, <1>3 DEF IInv, Output
  <2>2. changes = "key" => Label \in SignerRefusals
    BY <1>3 DEF Shims, IInv, Profile, Label, Named, NativeErrors, SignerRefusals
  <2> QED BY <1>1, <2>1, <2>2, Judgement
<1> QED BY <1>2, <1>3

\* Whatever happens to the key, a signer that starts over, or refuses in an
\* error of its own, passes in each of the adapters.
THEOREM CarefulSignerPassesAlways == Spec => []CarefulSignerPasses
BY Invariance, CarefulPasses, PTL

=============================================================================
