---------------------------- MODULE WbaScenarios ----------------------------
(***************************************************************************)
(* The verification cases of the web-bot-auth corpus, as                   *)
(* harness/generate_wba_fixtures.py writes them: a scenario says what the  *)
(* world around one WBA verifier is like, an expectation what the verifier *)
(* is to say. Messages are one of a few kinds; cases that differ only in   *)
(* the bytes of a message are one case here. Times are seconds after the   *)
(* corpus' NOW.                                                            *)
(***************************************************************************)
EXTENDS Integers, TLC

\* verificationDefaults, with the request and the directory of the case.
Default ==
  [request |-> "valid", directory |-> "valid", required |-> "none",
   now |-> 0, finishedAt |-> 0, skewMutated |-> FALSE,
   dnsidExists |-> TRUE, acceptanceAllowed |-> TRUE, requiresMtls |-> FALSE,
   currentKu |-> "same", dnsTTL |-> 300,
   cacheHit |-> FALSE, address |-> "public", redirect |-> "none", tlsValid |-> TRUE,
   status |-> 200, directoryTimeout |-> FALSE,
   replayEnabled |-> FALSE, nonceSeen |-> FALSE, storeAvailable |-> TRUE]

\* What a scenario may say, for a message and a directory of one of the kinds.
Scenarios ==
  [request : {"valid", "bound", "malformed", "forged", "expired", "future", "nearly", "no-nonce"},
   directory : {"valid", "aged", "expired", "nearly", "short", "forged"},
   required : {"none", "operation", "malformed"},
   now : Int, finishedAt : Int, skewMutated : BOOLEAN,
   dnsidExists : BOOLEAN, acceptanceAllowed : BOOLEAN, requiresMtls : BOOLEAN,
   currentKu : {"same", "other", "auxiliary"}, dnsTTL : Nat,
   cacheHit : BOOLEAN, address : {"public", "private"},
   redirect : {"none", "public", "private"}, tlsValid : BOOLEAN,
   status : Nat, directoryTimeout : BOOLEAN,
   replayEnabled : BOOLEAN, nonceSeen : BOOLEAN, storeAvailable : BOOLEAN]

Skew == 5
Mutated == 86400

Window(request) ==
  CASE request = "expired"      -> [created |-> -100, expires |-> -40]
    [] request = "future"       -> [created |-> 60, expires |-> 120]
    [] request = "nearly"       -> [created |-> 1, expires |-> 61]
    [] OTHER                    -> [created |-> 0, expires |-> 60]

\* The directories' created is not allowed any skew.
DirectoryWindow(directory) ==
  CASE directory = "expired"    -> [created |-> -400, expires |-> -100]
    [] directory = "nearly"     -> [created |-> 1, expires |-> 301]
    [] directory = "short"      -> [created |-> -61, expires |-> 239]
    [] OTHER                    -> [created |-> 0, expires |-> 300]

-----------------------------------------------------------------------------
(* The corpus.                                                             *)

Case(name, changes, expect) ==
  [name |-> name, scenario |-> changes @@ Default, expect |-> expect]

\* Where a scenario asks for a cache hit and no SDK has a cache, the harness
\* expects the directory to be fetched for the second time.
Accepted(name, changes) ==
  Case(name, changes,
       IF "cacheHit" \in DOMAIN changes THEN [ok |-> TRUE, discoveryRequests |-> 2] ELSE [ok |-> TRUE])

Refused(name, changes, more) ==
  Case(name, changes, more @@ [ok |-> FALSE, error |-> "ConformanceError"])

Simply == [ok |-> FALSE]
Offline == [discoveryRequests |-> 0]
Once == [discoveryRequests |-> 1]
Transient == [transient |-> TRUE]
Permanent == [transient |-> FALSE]

RequestCases ==
  {Accepted("valid", [request |-> "valid"]),
   Accepted("optional-operation-binding", [request |-> "bound"]),
   Accepted("future-within-skew", [request |-> "nearly"]),
   Refused("missing-signature-agent", [request |-> "malformed"], Offline),
   Refused("bad-signature", [request |-> "forged"], Simply),
   Refused("expired", [request |-> "expired"], Simply),
   Refused("future", [request |-> "future"], Simply),
   Refused("configuration-snapshot", [request |-> "expired", skewMutated |-> TRUE], Offline),
   Refused("required-operation-coverage", [required |-> "operation"], Offline),
   Accepted("required-operation-coverage-present", [request |-> "bound", required |-> "operation"]),
   Refused("malformed-required-coverage", [required |-> "malformed"],
           [error |-> "ArgumentError"] @@ Offline)}

DirectoryCases ==
  {Refused("directory-http-age-stale", [directory |-> "aged"], Simply),
   Refused("directory-expired", [directory |-> "expired"], Simply),
   Refused("directory-future-within-skew", [directory |-> "nearly"], Simply),
   Refused("directory-bad-signature", [directory |-> "forged"], Simply),
   Refused("directory-503", [status |-> 503], Transient),
   Refused("directory-timeout", [directoryTimeout |-> TRUE], Transient @@ Once),
   Refused("private-discovery-address", [address |-> "private"], Permanent),
   Refused("private-redirect-address", [redirect |-> "private"], Permanent),
   Refused("same-host-public-redirect", [redirect |-> "public"], Once),
   Refused("invalid-web-pki", [tlsValid |-> FALSE], Permanent),
   Refused("expires-during-discovery", [finishedAt |-> 66], Simply)}

IdentityCases ==
  {Accepted("zero-dns-ttl", [dnsTTL |-> 0]),
   Accepted("zero-dns-ttl-next-invocation", [dnsTTL |-> 0, cacheHit |-> TRUE]),
   Refused("directory-only-no-fallback", [dnsidExists |-> FALSE], Simply),
   Refused("acceptance-denied-no-fallback", [acceptanceAllowed |-> FALSE], Permanent),
   Accepted("cache-hit-valid", [cacheHit |-> TRUE]),
   Accepted("cache-hit-http-stale", [cacheHit |-> TRUE, directory |-> "short"]),
   Refused("cache-hit-acceptance-denied", [cacheHit |-> TRUE, acceptanceAllowed |-> FALSE], Simply),
   Refused("auxiliary-non-signing-key", [currentKu |-> "auxiliary"], Simply),
   Refused("cache-hit-key-rotation", [cacheHit |-> TRUE, currentKu |-> "other"], Simply),
   Refused("mtls-missing-current-peer", [requiresMtls |-> TRUE], Simply),
   Accepted("nonce-first-use", [replayEnabled |-> TRUE]),
   Refused("nonce-reused", [replayEnabled |-> TRUE, nonceSeen |-> TRUE], Simply),
   Refused("nonce-store-failure", [replayEnabled |-> TRUE, storeAvailable |-> FALSE], Simply),
   Refused("nonce-missing", [request |-> "no-nonce", replayEnabled |-> TRUE], Simply)}

Corpus == RequestCases \cup DirectoryCases \cup IdentityCases

-----------------------------------------------------------------------------
(* What a scenario means, whoever runs it: the demands of design 10 that   *)
(* the message or the world around it does not meet. "argument" is the     *)
(* caller's own mistake.                                                   *)

Lives(window, skew, at) == window.created <= at + skew /\ at <= window.expires + Skew

Violations(s) ==
  {v \in {"argument", "form", "coverage", "time", "address", "pki", "redirect", "unavailable",
          "directory", "signature", "identity", "acceptance", "peer", "key", "nonce", "store",
          "replay"} :
     \/ v = "argument" /\ s.required = "malformed"
     \/ v = "form" /\ s.request = "malformed"
     \/ v = "coverage" /\ s.required = "operation" /\ s.request # "bound"
     \/ v = "time" /\ \E at \in {s.now, s.finishedAt} : ~Lives(Window(s.request), Skew, at)
     \/ v = "address" /\ s.address = "private"
     \/ v = "pki" /\ ~s.tlsValid
     \/ v = "redirect" /\ s.redirect # "none"
     \/ v = "unavailable" /\ (s.directoryTimeout \/ s.status # 200)
     \/ v = "directory" /\ (s.directory \in {"aged", "forged"}
                              \/ ~Lives(DirectoryWindow(s.directory), 0, s.finishedAt))
     \/ v = "signature" /\ s.request = "forged"
     \/ v = "identity" /\ ~s.dnsidExists
     \/ v = "acceptance" /\ ~s.acceptanceAllowed
     \/ v = "peer" /\ s.requiresMtls
     \/ v = "key" /\ s.currentKu # "same"
     \/ v = "nonce" /\ s.replayEnabled /\ s.request = "no-nonce"
     \/ v = "store" /\ s.replayEnabled /\ ~s.storeAvailable
     \/ v = "replay" /\ s.replayEnabled /\ s.nonceSeen}

WarmsUp(s) == s.cacheHit \/ s.nonceSeen

\* A scenario that is verified twice has a first verification that is to
\* succeed: only what may change between the two can be wrong with it, the
\* nonce is used by the first one, and acceptance is withdrawn for cached
\* identities.
Coherent(s) ==
  WarmsUp(s) =>
    /\ Violations(s) \subseteq {"acceptance", "key", "replay"}
    /\ s.replayEnabled => s.nonceSeen
    /\ ~s.acceptanceAllowed => s.cacheHit
=============================================================================
