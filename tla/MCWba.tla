------------------------------- MODULE MCWba -------------------------------
(* The adapters' WBA cases: an adapter answers one case at a time, of        *)
(* verification or of signing, and the other component is idle meanwhile.    *)
(*                                                                           *)
(* Verification: the whole corpus with every defect, and, for a verifier     *)
(* without one, every scenario that differs from the default in up to two    *)
(* respects. Signing: every strategy, and an error of each kind the check    *)
(* tells apart: a class of the SDK it accepts, one it does not, one Go does  *)
(* not know, and an error that is none of the SDK's.                         *)
EXTENDS WbaVerification

Changes ==
  {[request |-> r] : r \in {"bound", "malformed", "forged", "expired", "future", "nearly", "no-nonce"}}
  \cup {[directory |-> d] : d \in {"aged", "expired", "nearly", "short", "forged"}}
  \cup {[required |-> r] : r \in {"operation", "malformed"}}
  \cup {[currentKu |-> k] : k \in {"other", "auxiliary"}}
  \cup {[redirect |-> r] : r \in {"public", "private"}}
  \cup {[dnsidExists |-> FALSE], [acceptanceAllowed |-> FALSE], [requiresMtls |-> TRUE],
        [skewMutated |-> TRUE], [finishedAt |-> 66], [dnsTTL |-> 0], [cacheHit |-> TRUE],
        [address |-> "private"], [tlsValid |-> FALSE], [status |-> 503], [directoryTimeout |-> TRUE],
        [replayEnabled |-> TRUE], [replayEnabled |-> TRUE, nonceSeen |-> TRUE],
        [replayEnabled |-> TRUE, storeAvailable |-> FALSE], [nonceSeen |-> TRUE]}

MadeUp ==
  {Case("made-up", x @@ y @@ z, [ok |-> FALSE]) :
     x \in Changes, y \in Changes, z \in {[cacheHit |-> TRUE], [cacheHit |-> FALSE]}}

Defects ==
  {"none", "accepts-expired-requests", "accepts-future-requests",
   "reads-the-caller-configuration", "ignores-the-required-coverage",
   "checks-coverage-after-discovery", "dials-private-addresses", "ignores-Web-PKI",
   "follows-redirects", "retries", "ignores-the-status", "calls-every-failure-permanent",
   "ignores-the-age-of-a-directory", "allows-directories-skew", "ignores-the-request-signature",
   "falls-back-to-the-directory", "reuses-the-identity", "reuses-the-directory",
   "takes-any-key-of-the-set", "refuses-a-zero-TTL", "checks-the-time-once",
   "accepts-a-missing-nonce", "admits-when-the-store-fails", "ignores-the-replay-store"}

MCAdapters == {"py", "ts", "go"}

MCRuns ==
  [case : Corpus, defect : Defects] \cup [case : MadeUp, defect : {"none"}]

-----------------------------------------------------------------------------

VARIABLES signer,    \* WbaSigning's adapter
          changed,   \* and the rest of its state, under its names where they are free
          strategy, raises, at, configured, taken, active, pending, advertised, signedBy,
          given, status

Signing ==
  INSTANCE WbaSigning WITH Errors <- {"ArgumentError", "ParseError", "VerificationError", "RuntimeError"},
                           adapter <- signer, changes <- changed, pc <- at, answer <- given

signing == <<signer, changed, strategy, raises, at, configured, taken, active, pending,
             advertised, signedBy, given, status>>

\* No case of signing.
Unsigned == at = "idle"

VerificationCase ==
  /\ Init
  /\ at = "idle"
  /\ signer = "none" /\ changed = "none" /\ strategy = "none" /\ raises = "none"
  /\ configured = "none" /\ taken = "none" /\ active = "none" /\ pending = FALSE
  /\ advertised = "none" /\ signedBy = "none" /\ given = "none" /\ status = "none"

SigningCase ==
  /\ Signing!Init
  /\ phase = "idle" /\ pc = "idle"
  /\ adapter = "none" /\ defect = "none" /\ wraps = FALSE /\ case = "none"
  /\ clock = 0 /\ discoveries = 0 /\ nonceUsed = FALSE /\ known = FALSE
  /\ error = NoError /\ answer = NoAnswer

MCInit == VerificationCase \/ SigningCase

Verifies == Next /\ UNCHANGED signing
Signs == Signing!Next /\ UNCHANGED vars
MCNext == Verifies \/ Signs

MCSpec == MCInit /\ [][MCNext]_<<vars, signing>> /\ WF_<<vars, signing>>(Signs)

-----------------------------------------------------------------------------

\* WbaSigning's properties: what passes verifies under the advertised key and the
\* original configuration.
PassedMessageVerifies == ~Unsigned => Signing!PassedMessageVerifies

\* A signer that starts over or refuses with an error of its own passes.
CarefulSignerPasses == ~Unsigned => Signing!CarefulSignerPasses

\* Every case of signing is judged.
EveryCaseIsJudged == ~Unsigned ~> at = "end"
=============================================================================
