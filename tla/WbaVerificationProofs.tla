----------------------- MODULE WbaVerificationProofs ------------------------
(***************************************************************************)
(* WbaVerification for every set of scenarios and of defects: a rejection  *)
(* that passes is the verdict of the second verification, not a warm-up    *)
(* that failed. And for any combination of what a scenario may say, at any *)
(* times: what the adapters build around the verifier is what it says.     *)
(***************************************************************************)
EXTENDS WbaVerification, TLAPS

\* The warm-up is gone through where the scenario asks for it, and an adapter
\* that is done was refused by the final verification, or has failed.
Staged ==
  /\ phase = "final" /\ WarmsUp(s) => known
  /\ phase = "done" => pc \in {"returned", "raised"}
  /\ phase = "done" =>
       \/ answer = Failure
       \/ answer.ok = TRUE
       \/ pc = "raised" /\ error # NoError /\ (WarmsUp(s) => known)

LEMMA StagedStep ==
  ASSUME Staged, [Next]_vars
  PROVE  Staged'
<1> USE DEF Staged
<1>1. CASE UNCHANGED vars
  BY <1>1 DEF vars, s, Failure, NoError
<1>2. CASE Local \/ Dial \/ Get \/ Directory \/ Identity \/ Return
  <2>1. UNCHANGED <<case, phase, known>> /\ pc \notin {"returned", "raised"}
    BY <1>2 DEF Local, Dial, Get, Directory, Identity, Return
  <2> QED BY <2>1 DEF s
<1>3. CASE Warmed \/ NotWarmed
  BY <1>3 DEF Warmed, NotWarmed, s, Failure
<1>4. CASE Verified
  BY <1>4 DEF Verified, Finish
<1>5. CASE Rejected \/ Misused \/ StoreFailed
  BY <1>5 DEF Rejected, Misused, StoreFailed, Finish, s, NoError, Failure
<1> QED BY <1>1, <1>2, <1>3, <1>4, <1>5 DEF Next

\* A rejection that passes comes from the second of two verifications where
\* there are two: a warm-up that is refused never passes for one.
THEOREM RejectionIsTheFinalOneAlways == Spec => []RejectionIsTheFinalOne
<1>1. Init => Staged
  BY DEF Init, Staged
<1>2. Staged /\ [Next]_vars => Staged'
  BY StagedStep
<1>3. Staged => RejectionIsTheFinalOne
  <2> SUFFICES ASSUME Staged, Done, ~answer.ok, Passes
               PROVE  pc = "raised" /\ error # NoError /\ (WarmsUp(s) => known)
    BY DEF RejectionIsTheFinalOne
  <2>1. answer # Failure
    BY DEF Passes, Failure
  <2> QED BY <2>1 DEF Staged, Done
<1> QED BY <1>1, <1>2, <1>3, PTL DEF Spec

-----------------------------------------------------------------------------
(* The world around the verifier.                                          *)

\* What has to be right for each part of a verification to go on.
LocalOK(x) ==
  /\ x.required # "malformed" /\ x.request # "malformed"
  /\ x.required = "operation" => x.request = "bound"
  /\ Lives(Window(x.request), Skew, x.now)

DialOK(x) == x.address # "private" /\ x.tlsValid

GetOK(x) == ~x.directoryTimeout /\ x.redirect = "none" /\ x.status = 200

DirectoryOK(x) ==
  /\ x.directory \notin {"aged", "forged"} /\ x.request # "forged"
  /\ Lives(DirectoryWindow(x.directory), 0, x.finishedAt)

IdentityOK(x) ==
  x.dnsidExists /\ x.acceptanceAllowed /\ ~x.requiresMtls /\ x.currentKu = "same"

ReturnOK(x) ==
  /\ Lives(Window(x.request), Skew, x.finishedAt)
  /\ x.replayEnabled => x.request # "no-nonce" /\ x.storeAvailable /\ ~x.nonceSeen

\* A scenario without violations is one where every part is right.
LEMMA Clean ==
  ASSUME NEW x \in Scenarios
  PROVE  Violations(x) = {} <=> /\ LocalOK(x) /\ DialOK(x) /\ GetOK(x)
                                /\ DirectoryOK(x) /\ IdentityOK(x) /\ ReturnOK(x)
<1> DEFINE time == \E at \in {x.now, x.finishedAt} : ~Lives(Window(x.request), Skew, at)
           stale == ~Lives(DirectoryWindow(x.directory), 0, x.finishedAt)
<1>1. time <=> ~Lives(Window(x.request), Skew, x.now) \/ ~Lives(Window(x.request), Skew, x.finishedAt)
  OBVIOUS
<1>2. Violations(x) = {} <=>
        /\ x.required # "malformed" /\ x.request # "malformed"
        /\ ~(x.required = "operation" /\ x.request # "bound")
        /\ ~time
        /\ x.address # "private" /\ x.tlsValid /\ x.redirect = "none"
        /\ ~x.directoryTimeout /\ x.status = 200
        /\ x.directory \notin {"aged", "forged"} /\ ~stale
        /\ x.request # "forged"
        /\ x.dnsidExists /\ x.acceptanceAllowed /\ ~x.requiresMtls /\ x.currentKu = "same"
        /\ ~(x.replayEnabled /\ x.request = "no-nonce")
        /\ ~(x.replayEnabled /\ ~x.storeAvailable)
        /\ ~(x.replayEnabled /\ x.nonceSeen)
  BY DEF Violations
<1> HIDE DEF time, stale
<1> QED
  BY <1>1, <1>2 DEF LocalOK, DialOK, GetOK, DirectoryOK, IdentityOK, ReturnOK, stale

\* What coherence says of a scenario that is verified twice.
LEMMA WarmIsClean ==
  ASSUME NEW x \in Scenarios, Coherent(x), WarmsUp(x)
  PROVE  /\ LocalOK(x) /\ DialOK(x) /\ GetOK(x) /\ DirectoryOK(x)
         /\ x.dnsidExists /\ ~x.requiresMtls /\ (~x.acceptanceAllowed => x.cacheHit)
         /\ Lives(Window(x.request), Skew, x.finishedAt)
         /\ x.replayEnabled => x.request # "no-nonce" /\ x.storeAvailable /\ x.nonceSeen
<1> DEFINE time == \E at \in {x.now, x.finishedAt} : ~Lives(Window(x.request), Skew, at)
           stale == ~Lives(DirectoryWindow(x.directory), 0, x.finishedAt)
<1>1. time <=> ~Lives(Window(x.request), Skew, x.now) \/ ~Lives(Window(x.request), Skew, x.finishedAt)
  OBVIOUS
<1>2. Violations(x) \subseteq {"acceptance", "key", "replay"}
  BY DEF Coherent
<1>3. /\ x.required # "malformed" /\ x.request # "malformed"
      /\ ~(x.required = "operation" /\ x.request # "bound")
      /\ ~time
      /\ x.address # "private" /\ x.tlsValid /\ x.redirect = "none"
      /\ ~x.directoryTimeout /\ x.status = 200
      /\ x.directory \notin {"aged", "forged"} /\ ~stale
      /\ x.request # "forged"
      /\ x.dnsidExists /\ ~x.requiresMtls
      /\ ~(x.replayEnabled /\ x.request = "no-nonce")
      /\ ~(x.replayEnabled /\ ~x.storeAvailable)
  BY <1>2 DEF Violations
<1> HIDE DEF time, stale
<1> QED
  BY <1>1, <1>3 DEF LocalOK, DialOK, GetOK, DirectoryOK, Coherent, stale

\* A verifier without a defect in a coherent scenario, and no error of the
\* store that comes through as the adapter's own failure.
Sound == defect = "none" /\ Coherent(s) /\ ~LetThrough

\* It does not do any of what a defect does.
LEMMA NoDefect ==
  ASSUME Sound
  PROVE  /\ ~Has("calls-every-failure-permanent") /\ ~Has("reads-the-caller-configuration")
         /\ ~Has("accepts-future-requests") /\ ~Has("accepts-expired-requests")
         /\ ~Has("ignores-the-required-coverage") /\ ~Has("checks-coverage-after-discovery")
         /\ ~Has("reuses-the-directory") /\ ~Has("dials-private-addresses")
         /\ ~Has("ignores-Web-PKI") /\ ~Has("retries") /\ ~Has("follows-redirects")
         /\ ~Has("ignores-the-status") /\ ~Has("allows-directories-skew")
         /\ ~Has("ignores-the-age-of-a-directory") /\ ~Has("ignores-the-request-signature")
         /\ ~Has("reuses-the-identity") /\ ~Has("falls-back-to-the-directory")
         /\ ~Has("takes-any-key-of-the-set") /\ ~Has("refuses-a-zero-TTL")
         /\ ~Has("checks-the-time-once") /\ ~Has("accepts-a-missing-nonce")
         /\ ~Has("admits-when-the-store-fails") /\ ~Has("ignores-the-replay-store")
BY DEF Sound, Has

\* How far a verification has come says what is right in the scenario; only
\* the final one looks at what the adapter withdraws after a warm-up.
Passed ==
  /\ pc = "local" => clock = s.now
  /\ pc \in {"dial", "get", "directory", "identity", "return", "returned"} => LocalOK(s)
  /\ pc \in {"get", "directory", "identity", "return", "returned"} => DialOK(s)
  /\ pc \in {"directory", "identity", "return", "returned"} => GetOK(s) /\ clock = s.finishedAt
  /\ pc \in {"identity", "return", "returned"} => DirectoryOK(s)
  /\ pc \in {"return", "returned"} /\ phase # "warm" => IdentityOK(s)
  /\ pc = "returned" /\ phase # "warm" => ReturnOK(s)

\* A warm-up never fails; what it leaves behind is a used nonce and a request.
Stages ==
  /\ phase \in {"warm", "final", "done"}
  /\ pc \in {"local", "dial", "get", "directory", "identity", "return", "returned", "raised"}
  /\ discoveries \in Nat
  /\ phase = "warm" => WarmsUp(s) /\ pc # "raised"
  /\ phase = "warm" => (nonceUsed <=> pc = "returned" /\ s.replayEnabled)
  /\ phase = "final" /\ pc \notin {"returned", "raised"} =>
       (nonceUsed <=> s.replayEnabled /\ s.nonceSeen)
  /\ discoveries > 0 /\ pc \in {"local", "dial", "get"} => s.redirect = "none"

\* An error has its reason in the scenario.
Reasons ==
  pc = "raised" =>
    /\ Violations(s) # {}
    /\ error.class \in {"verification", "argument", "store"}
    /\ error.class = "argument" <=> s.required = "malformed"
    /\ error.class = "store" => adapter # "py"

Tells ==
  phase = "done" =>
    \/ answer.ok = TRUE /\ Violations(s) = {}
    \/ /\ answer.ok = FALSE /\ Violations(s) # {}
       /\ answer.error = IF s.required = "malformed" THEN "ArgumentError" ELSE "ConformanceError"

Faithful == Sound => Passed /\ Stages /\ Reasons /\ Tells

\* A rejection needs a reason: which part of the scenario is wrong.
LEMMA NotClean ==
  ASSUME NEW x \in Scenarios,
         \/ ~LocalOK(x) \/ ~DialOK(x) \/ ~GetOK(x)
         \/ ~DirectoryOK(x) \/ ~IdentityOK(x) \/ ~ReturnOK(x)
  PROVE  Violations(x) # {}
BY Clean

\* The caller's mistake is one whatever else is wrong.
LEMMA ArgumentViolation ==
  ASSUME NEW x
  PROVE  "argument" \in Violations(x) <=> x.required = "malformed"
BY DEF Violations

\* The time is checked the same way on both ends of the discovery.
LEMMA InTimeSays ==
  ASSUME Sound, s \in Scenarios
  PROVE  InTime <=> Lives(Window(s.request), Skew, clock)
BY NoDefect DEF InTime, Lives

\* The verifier's own parts: they stop at what is wrong, and only there.
LEMMA LocalStep ==
  ASSUME Sound, s \in Scenarios, Passed, Stages, Reasons, Local, phase # "done",
         s' = s, Sound'
  PROVE  Passed' /\ Stages' /\ Reasons'
<1>0. UNCHANGED <<adapter, case, phase, clock, discoveries, nonceUsed>> /\ pc = "local"
  BY DEF Local
<1>1. InTime <=> Lives(Window(s.request), Skew, s.now)
  BY <1>0, InTimeSays DEF Passed
<1>2. CASE s.required = "malformed"
  <2>1. pc' = "raised" /\ error'.class = "argument" /\ ~LocalOK(s)
    BY <1>2 DEF Local, Raise, Error, LocalOK
  <2>2. Violations(s) # {}
    BY <2>1, NotClean
  <2>3. phase # "warm"
    BY <1>0, <2>1, WarmIsClean DEF Stages, Sound
  <2> QED
    BY <1>0, <1>2, <2>1, <2>2, <2>3 DEF Passed, Stages, Reasons
<1>3. CASE s.required # "malformed" /\ ~LocalOK(s)
  <2>1. pc' = "raised" /\ error'.class = "verification"
    BY <1>1, <1>3, NoDefect DEF Local, Raise, Invalid, Error, LocalOK, Covers
  <2>2. Violations(s) # {}
    BY <1>3, NotClean
  <2>3. phase # "warm"
    BY <1>0, <1>3, WarmIsClean DEF Stages, Sound
  <2> QED
    BY <1>0, <1>3, <2>1, <2>2, <2>3 DEF Passed, Stages, Reasons
<1>4. CASE LocalOK(s)
  <2>1. pc' = "dial"
    BY <1>1, <1>4, NoDefect DEF Local, Go, LocalOK, Covers
  <2> QED
    BY <1>0, <1>4, <2>1 DEF Passed, Stages, Reasons
<1> QED
  BY <1>2, <1>3, <1>4

LEMMA DialStep ==
  ASSUME Sound, s \in Scenarios, Passed, Stages, Reasons, Dial, phase # "done",
         s' = s, Sound'
  PROVE  Passed' /\ Stages' /\ Reasons'
<1>0. UNCHANGED <<adapter, case, phase, clock, discoveries, nonceUsed>> /\ pc = "dial"
  BY DEF Dial
<1>1. LocalOK(s) /\ Resolved = s.address
  BY <1>0 DEF Passed, Stages, Resolved
<1>2. CASE ~DialOK(s)
  <2>1. pc' = "raised" /\ error'.class = "verification"
    BY <1>1, <1>2, NoDefect DEF Dial, Raise, Invalid, Error, DialOK
  <2>2. Violations(s) # {}
    BY <1>2, NotClean
  <2>3. phase # "warm"
    BY <1>0, <1>2, WarmIsClean DEF Stages, Sound
  <2> QED
    BY <1>0, <1>1, <2>1, <2>2, <2>3 DEF Passed, Stages, Reasons, LocalOK
<1>3. CASE DialOK(s)
  <2>1. pc' = "get"
    BY <1>1, <1>3, NoDefect DEF Dial, Go, DialOK
  <2> QED
    BY <1>0, <1>1, <1>3, <2>1 DEF Passed, Stages, Reasons
<1> QED
  BY <1>2, <1>3

LEMMA GetStep ==
  ASSUME Sound, s \in Scenarios, Passed, Stages, Reasons, Get, phase # "done",
         s' = s, Sound'
  PROVE  Passed' /\ Stages' /\ Reasons'
<1>0. /\ UNCHANGED <<adapter, case, phase, nonceUsed>> /\ pc = "get"
      /\ clock' = s.finishedAt /\ discoveries' \in Nat
  BY DEF Get, Counted, Stages
<1>1. LocalOK(s) /\ DialOK(s)
  BY <1>0 DEF Passed
<1>2. CASE ~GetOK(s)
  <2>1. pc' = "raised" /\ error'.class = "verification"
    <3>1. s.status \in Nat /\ s.directoryTimeout \in BOOLEAN
      BY DEF Scenarios
    <3>2. Served # "directory" /\ Served \in {"nothing", "redirect", "unavailable"}
      BY <1>2, <3>1 DEF Served, GetOK
    <3>3. Raise(Unavailable) \/ Raise(Invalid)
      <4>1. CASE Served = "nothing"
        BY <4>1, NoDefect DEF Get
      <4>2. CASE Served = "redirect"
        BY <4>2, NoDefect DEF Get
      <4>3. CASE Served = "unavailable"
        BY <4>3, NoDefect DEF Get
      <4> QED
        BY <3>2, <4>1, <4>2, <4>3
    <3> QED
      BY <3>3 DEF Raise, Invalid, Unavailable, Error
  <2>2. Violations(s) # {}
    BY <1>2, NotClean
  <2>3. phase # "warm"
    BY <1>0, <1>2, WarmIsClean DEF Stages, Sound
  <2> QED
    BY <1>0, <1>1, <2>1, <2>2, <2>3 DEF Passed, Stages, Reasons, LocalOK
<1>3. CASE GetOK(s)
  <2>1. Served = "directory"
    BY <1>3 DEF Served, GetOK
  <2>2. pc' = "directory"
    BY <2>1, NoDefect DEF Get, Go
  <2> QED
    BY <1>0, <1>1, <1>3, <2>2 DEF Passed, Stages, Reasons
<1> QED
  BY <1>2, <1>3

LEMMA DirectoryStep ==
  ASSUME Sound, s \in Scenarios, Passed, Stages, Reasons, Directory, phase # "done",
         s' = s, Sound'
  PROVE  Passed' /\ Stages' /\ Reasons'
<1>0. UNCHANGED <<adapter, case, phase, clock, discoveries, nonceUsed>> /\ pc = "directory"
  BY DEF Directory
<1>1. LocalOK(s) /\ DialOK(s) /\ GetOK(s) /\ clock = s.finishedAt
  BY <1>0 DEF Passed
<1>2. DirectoryInTime <=> Lives(DirectoryWindow(s.directory), 0, s.finishedAt)
  <2>1. /\ DirectoryWindow(s.directory).created \in Int
        /\ DirectoryWindow(s.directory).expires \in Int
    BY DEF DirectoryWindow
  <2>2. s.finishedAt \in Int
    BY DEF Scenarios
  <2> QED
    BY <1>1, <2>1, <2>2, NoDefect DEF DirectoryInTime, Lives, Skew
<1>3. CASE ~DirectoryOK(s)
  <2>1. pc' = "raised" /\ error'.class = "verification"
    BY <1>2, <1>3, NoDefect DEF Directory, Raise, Invalid, Error, DirectoryOK
  <2>2. Violations(s) # {}
    BY <1>3, NotClean
  <2>3. phase # "warm"
    BY <1>0, <1>3, WarmIsClean DEF Stages, Sound
  <2> QED
    BY <1>0, <1>1, <2>1, <2>2, <2>3 DEF Passed, Stages, Reasons, LocalOK
<1>4. CASE DirectoryOK(s)
  <2>1. pc' = "identity"
    BY <1>2, <1>4, NoDefect DEF Directory, Go, DirectoryOK
  <2> QED
    BY <1>0, <1>1, <1>4, <2>1 DEF Passed, Stages, Reasons
<1> QED
  BY <1>3, <1>4

\* The three resolvers deny, in the end, exactly what the scenario denies, and
\* nothing in a warm-up.
LEMMA ResolverSays ==
  ASSUME Sound, s \in Scenarios, Stages, phase # "done"
  PROVE  /\ phase = "warm" => ~ResolverRaises /\ CurrentKu = "same"
         /\ phase = "final" =>
              /\ ResolverRaises <=> ~s.dnsidExists \/ ~s.acceptanceAllowed \/ s.requiresMtls
              /\ CurrentKu = s.currentKu
<1>1. phase = "warm" => s.dnsidExists /\ ~s.requiresMtls /\ (~s.acceptanceAllowed => s.cacheHit)
  BY WarmIsClean DEF Stages, Sound
<1>2. /\ s.dnsidExists \in BOOLEAN /\ s.requiresMtls \in BOOLEAN
      /\ s.acceptanceAllowed \in BOOLEAN /\ s.cacheHit \in BOOLEAN
  BY DEF Scenarios
<1> QED
  BY <1>1, <1>2 DEF ResolverRaises, FixtureRaises, InjectedRaises, CurrentKu

LEMMA IdentityStep ==
  ASSUME Sound, s \in Scenarios, Passed, Stages, Reasons, Identity, phase # "done",
         s' = s, Sound'
  PROVE  Passed' /\ Stages' /\ Reasons'
<1>0. UNCHANGED <<adapter, case, phase, clock, discoveries, nonceUsed>> /\ pc = "identity"
  BY DEF Identity
<1>1. LocalOK(s) /\ DialOK(s) /\ GetOK(s) /\ DirectoryOK(s) /\ clock = s.finishedAt
  BY <1>0 DEF Passed
<1>2. s.currentKu \in {"same", "other", "auxiliary"}
  BY DEF Scenarios
<1>3. CASE phase = "final" /\ ~IdentityOK(s)
  <2>1. pc' = "raised" /\ error'.class = "verification"
    BY <1>2, <1>3, NoDefect, ResolverSays DEF Identity, Raise, Invalid, Error, IdentityOK
  <2>2. Violations(s) # {}
    BY <1>3, NotClean
  <2> QED
    BY <1>0, <1>1, <1>3, <2>1, <2>2 DEF Passed, Stages, Reasons, LocalOK
<1>4. CASE phase = "warm" \/ IdentityOK(s)
  <2>1. pc' = "return"
    BY <1>4, NoDefect, ResolverSays DEF Identity, Go, IdentityOK, Stages
  <2> QED
    BY <1>0, <1>1, <1>4, <2>1 DEF Passed, Stages, Reasons
<1> QED
  BY <1>3, <1>4 DEF Stages

LEMMA ReturnStep ==
  ASSUME Sound, s \in Scenarios, Passed, Stages, Reasons, Return, phase # "done",
         s' = s, Sound'
  PROVE  Passed' /\ Stages' /\ Reasons'
<1>0. UNCHANGED <<adapter, case, phase, clock, discoveries>> /\ pc = "return"
  BY DEF Return
<1>1. /\ LocalOK(s) /\ DialOK(s) /\ GetOK(s) /\ DirectoryOK(s) /\ clock = s.finishedAt
      /\ phase = "final" => IdentityOK(s)
  BY <1>0 DEF Passed
<1>2. InTime <=> Lives(Window(s.request), Skew, s.finishedAt)
  BY <1>1, InTimeSays
<1>3. /\ s.replayEnabled \in BOOLEAN /\ s.storeAvailable \in BOOLEAN /\ s.nonceSeen \in BOOLEAN
  BY DEF Scenarios
<1>4. CASE phase = "warm"
  <2>1. /\ Lives(Window(s.request), Skew, s.finishedAt) /\ ~nonceUsed
        /\ s.replayEnabled => s.request # "no-nonce" /\ s.storeAvailable /\ s.nonceSeen
    BY <1>0, <1>4, WarmIsClean DEF Stages, Sound
  <2>2. pc' = "returned" /\ (nonceUsed' <=> s.replayEnabled)
    BY <1>2, <1>3, <1>4, <2>1, NoDefect DEF Return, Go, Stages
  <2> QED
    BY <1>0, <1>1, <1>4, <2>2 DEF Passed, Stages, Reasons
<1>5. CASE phase = "final" /\ ~ReturnOK(s)
  <2>1. /\ pc' = "raised" /\ error'.class \in {"verification", "store"}
        /\ error'.class = "store" => adapter # "py"
    <3>1. nonceUsed <=> s.replayEnabled /\ s.nonceSeen
      BY <1>0, <1>5 DEF Stages
    <3>2. s.replayEnabled /\ ~s.storeAvailable => "store" \in Violations(s)
      BY DEF Violations
    <3>3. adapter = "py" /\ s.replayEnabled /\ ~s.storeAvailable => wraps
      BY <3>2 DEF Sound, LetThrough
    <3> QED
      BY <1>2, <1>3, <1>5, <3>1, <3>3, NoDefect DEF Return, Raise, Invalid, Error, ReturnOK
  <2>2. Violations(s) # {}
    BY <1>5, NotClean
  <2> QED
    BY <1>0, <1>1, <1>5, <2>1, <2>2 DEF Passed, Stages, Reasons, LocalOK
<1>6. CASE phase = "final" /\ ReturnOK(s)
  <2>1. nonceUsed <=> s.replayEnabled /\ s.nonceSeen
    BY <1>0, <1>6 DEF Stages
  <2>2. pc' = "returned"
    BY <1>2, <1>3, <1>6, <2>1, NoDefect DEF Return, Go, ReturnOK
  <2> QED
    BY <1>0, <1>1, <1>6, <2>2 DEF Passed, Stages, Reasons
<1> QED
  BY <1>4, <1>5, <1>6 DEF Stages

\* The adapter's own steps: the second verification starts where the first did,
\* but for the nonce, and the answer says what the verifier did.
LEMMA WarmedStep ==
  ASSUME Sound, s \in Scenarios, Passed, Stages, Reasons, Warmed, s' = s
  PROVE  Passed' /\ Stages' /\ Reasons'
<1>1. /\ phase = "warm" /\ pc = "returned"
      /\ phase' = "final" /\ pc' = "local" /\ clock' = s.now
      /\ UNCHANGED <<discoveries, nonceUsed>>
  BY DEF Warmed
<1>2. WarmsUp(s) /\ GetOK(s) /\ (nonceUsed <=> s.replayEnabled)
  BY <1>1 DEF Passed, Stages
<1>3. s.replayEnabled => s.nonceSeen
  BY <1>2, WarmIsClean DEF Sound
<1> QED
  BY <1>1, <1>2, <1>3 DEF Passed, Stages, Reasons, GetOK

LEMMA FinishStep ==
  ASSUME Sound, s \in Scenarios, Passed, Stages, Reasons, s' = s,
         Verified \/ Rejected \/ Misused \/ StoreFailed
  PROVE  Passed' /\ Stages' /\ Reasons' /\ Tells'
<1>1. /\ phase = "final" /\ phase' = "done" /\ pc \in {"returned", "raised"}
      /\ UNCHANGED <<adapter, pc, clock, discoveries, nonceUsed, error>>
  BY DEF Verified, Rejected, Misused, StoreFailed, Finish
<1>2. Passed' /\ Stages' /\ Reasons'
  BY <1>1 DEF Passed, Stages, Reasons
<1>3. CASE Verified
  <2>1. /\ LocalOK(s) /\ DialOK(s) /\ GetOK(s) /\ DirectoryOK(s) /\ IdentityOK(s) /\ ReturnOK(s)
    BY <1>1, <1>3 DEF Verified, Passed
  <2>2. Violations(s) = {}
    BY <2>1, Clean
  <2>3. answer'.ok = TRUE
    BY <1>3 DEF Verified, Finish
  <2> QED
    BY <1>2, <2>2, <2>3 DEF Tells
<1>4. CASE Rejected \/ Misused \/ StoreFailed
  <2>1. /\ Violations(s) # {}
        /\ error.class = "argument" <=> s.required = "malformed"
        /\ error.class = "store" => adapter # "py"
    BY <1>1, <1>4 DEF Rejected, Misused, StoreFailed, Reasons
  <2>2. /\ answer'.ok = FALSE
        /\ answer'.error = IF s.required = "malformed" THEN "ArgumentError" ELSE "ConformanceError"
    BY <1>4, <2>1 DEF Rejected, Misused, StoreFailed, Finish
  <2> QED
    BY <1>2, <2>1, <2>2 DEF Tells
<1> QED
  BY <1>3, <1>4

\* The case is one of the runs, and done is done.
Typed ==
  /\ s \in Scenarios
  /\ phase = "done" => pc \in {"returned", "raised"}

LEMMA FaithfulStep ==
  ASSUME Typed, Faithful, [Next]_vars
  PROVE  Typed' /\ Faithful'
<1>1. UNCHANGED <<adapter, defect, wraps, case>>
  BY DEF Next, vars, Local, Dial, Get, Directory, Identity, Return, Warmed, NotWarmed,
         Verified, Rejected, Misused, StoreFailed, Finish
<1>2. s' = s /\ (Sound' <=> Sound)
  BY <1>1 DEF s, Sound, LetThrough
<1>3. Typed'
  BY <1>2 DEF Typed, Next, vars, Local, Dial, Get, Directory, Identity, Return, Warmed,
              NotWarmed, Verified, Rejected, Misused, StoreFailed, Finish
<1>4. ASSUME Sound PROVE Passed' /\ Stages' /\ Reasons' /\ Tells'
  <2>1. s \in Scenarios /\ Passed /\ Stages /\ Reasons /\ Tells /\ Sound'
    BY <1>2, <1>4 DEF Typed, Faithful
  <2>2. CASE UNCHANGED vars
    BY <1>2, <2>1, <2>2 DEF vars, Passed, Stages, Reasons, Tells
  <2>3. CASE Local \/ Dial \/ Get \/ Directory \/ Identity \/ Return
    <3>1. phase # "done" /\ phase' = phase
      BY <2>3 DEF Typed, Local, Dial, Get, Directory, Identity, Return
    <3>2. Passed' /\ Stages' /\ Reasons'
      BY <1>2, <1>4, <2>1, <2>3, <3>1, LocalStep, DialStep, GetStep, DirectoryStep,
         IdentityStep, ReturnStep
    <3> QED
      BY <3>1, <3>2 DEF Tells
  <2>4. CASE Warmed
    <3>1. Tells'
      BY <2>4 DEF Warmed, Tells
    <3> QED
      BY <1>2, <1>4, <2>1, <2>4, <3>1, WarmedStep
  <2>5. CASE NotWarmed
    BY <2>1, <2>5 DEF NotWarmed, Stages
  <2>6. CASE Verified \/ Rejected \/ Misused \/ StoreFailed
    BY <1>2, <1>4, <2>1, <2>6, FinishStep
  <2> QED
    BY <2>2, <2>3, <2>4, <2>5, <2>6 DEF Next
<1> QED
  BY <1>2, <1>3, <1>4 DEF Faithful

LEMMA FaithfulAtFirst == Init => Typed /\ Faithful
<1> SUFFICES ASSUME Init PROVE Typed /\ Faithful
  OBVIOUS
<1>1. Typed
  BY RunsAssumption DEF Init, Typed, s
<1>2. /\ pc = "local" /\ clock = s.now /\ discoveries = 0 /\ nonceUsed = FALSE
      /\ phase = IF WarmsUp(s) THEN "warm" ELSE "final"
  BY DEF Init
<1>3. ~WarmsUp(s) => ~s.nonceSeen
  BY DEF WarmsUp
<1> QED
  BY <1>1, <1>2, <1>3 DEF Faithful, Passed, Stages, Reasons, Tells

\* Whatever a coherent scenario combines, at any times, the three adapters show
\* the verifier what it says: a verifier without a defect accepts exactly if the
\* scenario holds nothing against the message.
THEOREM ScenarioIsWhatItSaysAlways == Spec => []ScenarioIsWhatItSays
<1>1. Init => Typed /\ Faithful
  BY FaithfulAtFirst
<1>2. Typed /\ Faithful /\ [Next]_vars => Typed' /\ Faithful'
  BY FaithfulStep
<1>3. Typed /\ Faithful => ScenarioIsWhatItSays
  <2> SUFFICES ASSUME Typed, Faithful, Done, defect = "none", Coherent(s), ~LetThrough
               PROVE  /\ answer.ok = (Violations(s) = {})
                      /\ ~answer.ok =>
                           answer.error = IF "argument" \in Violations(s) THEN "ArgumentError"
                                          ELSE "ConformanceError"
    BY DEF ScenarioIsWhatItSays
  <2>1. Tells
    BY DEF Faithful, Sound
  <2> QED
    BY <2>1, ArgumentViolation DEF Tells, Done
<1> QED
  BY <1>1, <1>2, <1>3, PTL DEF Spec
=============================================================================
