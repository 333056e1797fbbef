# A TLA+ model of the DNSid cross-SDK compliance kit

The repository runs one set of specification-derived cases against three SDKs
(Go, TypeScript, Python), reports what each did, and gates the SDKs' pull
requests on the result. Its own hazards are those of a judge: a verdict formed
on the wrong answer, a lost answer taken for a rejection, a case that a broken
SDK passes, an expectation a correct SDK cannot meet, a gate that compares the
wrong reports. This directory models the kit's reference algorithms, its runner,
its adapters and its gate, model-checks them with TLC, and proves the central
safety properties with TLAPS.

File and line references are to the repository (`src/…`). `PROJECT.json` maps
every definition to the lines it models and lists components, hazards, runs,
theorems and the deviations found.

## 1. Inventory

### 1.1 How the system works

    fixture generators ──► suites (JSON, signed logs, checkpoints, messages)
                               │
     harness/run.py  load ─────┤  one child process per SDK (py: in-process)
        │   requests ──────────► shims/go, shims/ts, harness/py_adapter.py
        │                          each wraps one SDK; wba_verify_request goes to
        │                          wba_adapters.py / wba-verify.mjs / a `go test`
        │   answers ◄──────────    that run.py starts in a second pass (bridge)
        ▼
     evaluate_result per (case, SDK) ─► report.md, exit code
        ▼
     ci/run-one.sh + .github/workflows/sdk-compliance.yaml
        head run, base run, gate on the two reports, comment

There are no threads of the kit's own. What interleaves are processes and
callbacks: child processes that answer or die, an SDK that calls back into an
adapter's clock, directory server, key provider or store in the middle of an
operation, readers that ask one another, and the steps of the workflow that
leave files behind for each other.

### 1.2 Components

| Component (source) | State | Operations | What makes it correct |
|---|---|---|---|
| Candidate selection reference, `harness/c2sp_event_identity_check.py` `reduce` | `seen`, `last`, `state`, cursor | one candidate at a time: copy, noise, apply, fatal | applied events are one authorized, linear chain; revocation is final; no signed contradiction is skipped |
| Enumerated oracle, `harness/selection_enumeration.py` `expect` | fold over a word | the same selection, stated without keys and hashes | agrees with `reduce` |
| Candidate reporting, `c2sp_lifecycle_vector` and `lifecycle_vector` in three adapters | match cursor, prefix | map an SDK's events and errors back to candidates of the log, or rebuild a domain log from a list of events | names the candidates that took effect and the one refused |
| Case verdicts, `harness/run.py` `evaluate_result` | none | merge expectations, compare, markers, capability, fail-closed | no combination of markers hides a loss or a safety key |
| Compliance run, `harness/run.py` | batches, slots, cells, exit code | load, ask, child failure, bridge, evaluate | each cell judged on its own answer; green means conformant |
| Pull-request check, `ci/run-one.sh`, `sdk-compliance.yaml` | workspace files, step outputs, the pull request's comments | naming, build, run (head/base), gate, verdict, upload, comment | green introduces no failing case, red has a reason, one comment per pull request |
| WBA verification adapters (py, ts, go) and corpus | clock, request count, nonce store, resolver | warm-up, verification, naming of errors | the world built is the one the scenario describes; each defect fails its case |
| WBA signing adapters | active/pending key, configuration | key change at the first signature, configuration change | a message that passes verifies; only native refusals pass |
| Negotiated response signatures | none | prepare, sign, verify | the produced signature is itself verified |
| Checkpoint continuity suite, consistency vectors, and adapters | store, injected fault | seed, verify, read back | verdict, cause and store agree; every expectation is one a correct client meets |
| C2SP generation and verification matrix, `harness/c2sp_matrix.py` | streams written, results | write, compare, hand over, accept, reject | three SDKs write the golden stream, and each rejects every mutation for its reason |
| Suite loading and fixture generators, `semantic_vectors.py`, `wba_vectors.py`, `generate_*_fixtures.py` | semantic source, generators, generated files | edit, generate, `--check`, load | no SDK sees evidence for another meaning of a case; no vector file is left out |
| Migration chains | readers, depth, questions | rebuild, key age, state, before-genesis, cut-off | answers are those of the chain of logs |
| Context chains, nested revocations, record/key/DNS operations, readiness report, cross-SDK workflow | — | see 5. | — |

The SDKs themselves are not in the repository. Wherever an adapter's behaviour
depends on one, the SDK is an *external* definition: either any answer at all
(`ComplianceRun`), or a verifier, signer or reader that follows the design
documents except for one named defect. The latter makes the question "would the
suite notice?" a property.

### 1.3 What is hard here

* An SDK calls back while it works: the directory server advances the clock
  between two checks of a verifier, the key provider swaps keys between reading
  and signing, the caller changes the configuration after handing it over.
* A child process crashes, answers short, or prints something else; the Go
  bridge overwrites answers of a first pass; slots are filled out of order.
* The same log holds copies, forgeries, forks and unproven entries, and an
  answer must say *which* candidate took effect or was refused.
* Two verifications, five questions, or fifteen cases run one after the other
  on shared objects: what one leaves behind must not answer the next.
* Injected faults (load, fetch, write) strike one step of several, and error,
  cause, transience and stored state must be consistent afterwards.
* Head and base run in one workspace, and the gate reads their reports as text.
  Nothing serialises two executions for one pull request: both look for the comment.
* Two independent statements of the same selection can drift apart.
* Evidence is signed ahead of time for a source that people go on editing, file by
  file, by programs that can be interrupted.

`PROJECT.json` ("hazards") lists each at its line with the properties aimed at
it, and says why where no property covers it.

## 2. Modules

| Module | Models | Uses |
|---|---|---|
| `Lifecycle` | abstract specification: an identity is issued once, rotated while active, ended by a revocation | – |
| `EventReduce` | `reduce`, one action per way through the loop body | refines `Lifecycle` |
| `SelectionOracle` | `expect` as a fold | – |
| `SelectionAgreement` | both on one log | `EventReduce`, `SelectionOracle` |
| `DomainLog` | what an SDK rebuilds from a list of events (external) | – |
| `CandidateReport` | `c2sp_lifecycle_vector` and `lifecycle_vector` of the three adapters | `SelectionOracle`, `DomainLog` |
| `Verdict` | `resolve_expectation`, `compare`, `evaluate_result`, checks of signed output | – |
| `ComplianceRun` | `run.py` from load to exit code | `Verdict` |
| `ComparisonGate` | `run-one.sh` and the workflow, with a second execution | – |
| `MerkleProofs` | RFC 6962 trees, proofs and their verification, as recursive functions | – |
| `CheckpointContinuity` | suites, adapters, external verifier | `MerkleProofs` |
| `C2spMatrix` | `c2sp_matrix.py`, external writers and verifiers | – |
| `WbaScenarios` | the verification corpus | – |
| `WbaVerification` | the three native verification adapters, external verifier | `WbaScenarios` |
| `WbaSigning` | the signing adapters, external signer | `Verdict` |
| `MigrationChains` | corpus, adapters' five questions, external readers | – |
| `FixtureProvenance` | generators, their checks and the loading, between edits and interruptions | – |
| `…Proofs` | theorems about the module of that name (eight modules, see 4.) | |

Each `MC…` module instantiates one of these for TLC; each `.cfg` gives the
constants. An operator named `Wrong…` is a plausible faulty form of the
definition below it. It is used by no specification: it is there so that one can
put it in the definition's place and see the property that guards it fail.

### 2.1 Selection: `EventReduce`, `SelectionOracle`, `SelectionAgreement`

`reduce` reads a log once. The variables are its locals: `seen` (applied
identity → state it led to), `last`, `state`, the cursor `next`, and `outcome`
for the exception or the return. Hashes are collision free, so an identity
stands for its payload (`Payload`) and a state hash for the state; a signature
is the key it verifies under, or `BadSig`. The order of the code's tests is the
order in which the actions' guards exclude each other: copy, noise, terminal,
second issuance, broken chain, then the three that apply. A copy of an applied
event is skipped *before* its signatures are looked at, and authority is that of
the *named predecessor* when it was applied (`Authority`), which is why an event
signed by a retired key is an error rather than noise when it forks the chain.

`SelectionOracle` is the second statement in the repository, a fold over
candidate kinds. Nothing in the harness runs the two on one log;
`SelectionAgreement` extends `EventReduce` by the words of the alphabet and by
what the oracle expects of them.

### 2.2 Reporting: `CandidateReport`, `DomainLog`

For a log, Python asks the SDK for indexes. TypeScript drops unproven entries and
finds the refused candidate as the first prefix that fails *in the same
category*. Go keeps all entries, matches the SDK's events to candidates by type
and signature values with a moving cursor (`MatchEvent`), and blames the first
prefix that fails *at all* (`Blames`). For a lifecycle vector each adapter first
makes a log of the request's events and asks for the state at a time; a failing
rebuild is located by shortening the list. The SDK selects what `SelectionOracle`
expects and rebuilds what `DomainLog` says.

### 2.3 The run: `Verdict`, `ComplianceRun`

Answers and expectations are functions from field names to strings. A slot of
`results` remembers which request its answer was to (`to`), which the code does
not store: this is what lets `OwnAnswer` say that positions never slip. A child
may give any member of `Answers` for each request, or fail; failing ends the run
except for the one-case children of TypeScript (`Alone`). The bridge replaces
exactly the answers that asked for it. Evaluation is deterministic.

### 2.4 The gate: `ComparisonGate`

An SDK revision is its behaviour on each case (meets, deviates, breaks the
adapter, lacks the capability). A report is what the gate's text search can see:
a summary row, failure headings, XPASS lines, possibly truncated. Every step can
fail; files, the shim binary and step outputs persist, which is how a stale one
could be compared. The comment job looks for a marked comment and later edits or
posts one; a look-up that fails counts as one that found nothing (`|| true`).
A second execution for the same pull request may look and write in between.

### 2.5 The suites that test an SDK under a fault

`CheckpointContinuity`, `C2spMatrix`, `WbaVerification`, `WbaSigning` and
`MigrationChains` have one shape: the adapter's steps, the external SDK's steps
with one defect, and the case's judgement. The steps of SDK and adapter alternate as the callbacks
do. In `WbaVerification` the verifier runs twice when the scenario wants the
message to have been seen before; the traces of the warm-up (`clock`,
`discoveries`, `nonceUsed`, `known`) are variables that survive into the second
run. The three adapters differ where their code does: Go hands over a copy of
the configuration (`Shares`), denies acceptance from the start (`FixtureRaises`),
and in signing and migration takes any error for a native one.

A log in `CheckpointContinuity` is the sequence of its leaves, and a hash is what
it hashes: different trees have different hashes, and a leaf's is never a node's.
`MerkleProofs` has the tree as the nested pairs of its leaves (`Tree`), audit paths
and consistency proofs as the RFC builds them (`AuditPath`, `Subproof`), recursive
functions on all logs over `Leaves` of up to `MaxSize` entries, and the verification
as RFC 9162 does it, bit by bit (`Climb`, `Follow`; `Climbing` is the state after each
node), so that the generator's and the clients' two algorithms are compared by running
one on the other's output. `MaxSize` is `MAX_SIZE` of `consistency_vectors.py`;
`Fillers` are the entries that follow the issuance in its logs and are not DNSid's.
`C2spMatrix` lets any set of the SDKs share a defect:
what three SDKs agree on is still compared with the golden bundle.

### 2.6 Where the cases come from: `FixtureProvenance`

`c2sp-lifecycle-selection.json` says what a case means, `generate_c2sp_fixtures.py`
signs evidence for it and records the digest of the source, and
`semantic_vectors.py` refuses evidence with another digest. `suite` and `version`
are contents of the source and of the programs: a digest is what it digests, and
of a generator only what its output depends on is kept (which event it signs for
which candidate, whether the historical inputs and the golden messages hold), of the
loading only which files' cases it loads (`loads`). A candidate's definition has the
fields the generator reads, type, domain and effect id, and `claims` for those it does
not (valid, authenticated, failureScope, completeEntryIdentical,
signedPayloadIdentical, direction): no program of the kit reads them, but they are part
of the bytes that are digested. `HandListed` are the three files that
`load_semantic_suites` adds to the ones it has loaded without looking.
`disk` has each generated file with who wrote it last. `Steps` is the order in
which the two generators, `make run`, `run-one.sh` and `run.py` do things;
`Compute`, `Write`, `Check`, `Load` are those things, and `Interrupt` may come
between any two or in the middle of a write. In between people edit the source, the
programs, the directory or a generated file. One command runs at a time and
nobody edits while it does. `checked` and `fresh` only remember what has happened.

## 3. Runs

All runs but one check safety. Only `fixture_provenance` checks for
deadlock: every other component is a sequential program that ends, and its terminal
state has no step.

| Run | Distinct states | Bounds |
|---|---|---|
| `event_reduce` | 606,574 | logs of ≤ 4 over the 17 candidates `main` builds; words of ≤ 5 over the 7 enumerated candidates |
| `candidate_report` | 426,761 | Go: the 399 enumerated words (≤ 3); py, ts: all curated logs of ≤ 4 over 10 candidates; all: the lists of events of the lifecycle vectors |
| `compliance_run` | 411,823 | eleven case lists of ≤ 3 cases, one or two SDKs, every answer |
| `lone_verifier` | until violated | a TypeScript verifier case alone |
| `comparison_gate` | 1,470,872 | two cases, every behaviour of head and base, every marker set, truncated reports, two executions |
| `stale_marker` | until violated | the same |
| `checkpoint_continuity` | 253,437 | the 15 sequences and the 903 consistency cases (sizes ≤ 17) × 3 adapters × (no defect + 22 defects) |
| `c2sp_matrix` | 4,735 | no defect, and 21 defects in every non-empty set of SDKs, × 3 golden bundles |
| `wba` | 74,078 | verification: the corpus × (no defect + 23 defects), and every scenario of ≤ 2 changes; signing: 6 strategies × 4 errors × 3 changes × 3 adapters |
| `go_signing_failure` | until violated | signing alone |
| `fixture_provenance` | 842,065 | thirteen sources, nine versions of the programs, three edits or interruptions in all |
| `migration_chains` | 242,498 | the corpus × (no defect + 10 defects), and all worlds of three logs of ≤ 3 entries |

### 3.1 What they show

**event_reduce.** `LinearHistory`, `AuthorizedHistory`, `TerminalIsFinal`,
`NoSignedForkOmitted` and the refinement `ImplementsLifecycle`. Four candidates
suffice for genesis, rotation, revocation and one intruder in any position, or
for an event, its copy, its successor and a fork; every error of `reduce` is
raised in some log. The loop compares with the last event only, so linearity is
a consequence of several steps: `seen` could in principle branch through the
historical authority of a predecessor. `AuthorizedHistory` compares each applied
event with the entries of the log as they are and with the state before it,
not with what `Authority` said at the time.

`SelectionsAgree`: on words two longer than the suite contains, `reduce` and
`expect` accept alike with the same history and final status, or refuse alike,
at the same candidate and for the same reason. (Proved for words of every length, see 4.)

**candidate_report.** On the logs each adapter is given today, all three report
what the oracle expects (`ReportsSelection`, `ReportsRefusal`), and for a list of
events the state that the list leads to. Both are proved for logs of every length;
`RequestsAssumption` says what the proof needs of the logs Go is given.

**compliance_run.** Every way `run.py` treats a case occurs in some list: the
isolated verifier cases before, between and after ordinary ones, duplicate ids,
overrides, known bugs with and without support for the version, fail-closed
cases, key change, signed output and checkpoint safety keys. With one to three
cases every order of batches, bridge and slots exists; answers of different cases
are independent after that. `LossIsVisible`, `CheckpointSafetyIsNeverExcused` and
`GreenMeansConformant` range over all of them; `AnswersAreKept` is an action
property: a later crash never takes an earlier answer away. *lone_verifier*: run.py:67
isolates verifier children only when there is more than one request, so a filter
that selects a single TypeScript verifier case lets its crash abort the run,
against src/README.md:129 (`VerifierCrashIsPerCase`).

**comparison_gate.** Two cases are what it takes to fix one and break the other,
the situation a comparison of counts gets wrong. `GreenIsNoRegression` needs the
*head's* report to be whole, and only that: a base report that was cut off names
fewer failures and excuses fewer. With a truncated head report it is false,
since run-one.sh:43 takes any report that is not empty. `RedHasAReason` is the
converse and needs the base's; it allows both reasons the workflow has, a new failure
and a marker that is no longer needed. `ReportsAreOwn`: no failing step, in whatever
order, lets the gate see a report of the other revision or of an earlier build.
`SecondCommentIsARace`: a pull request gets a second comment only when a look-up
failed or both executions looked before either wrote. Both do happen.
*stale_marker*: the second of the gate's reasons is not in src/README.md:237, "The check
goes red only if the PR introduces a newly failing case" (`RedOnlyForNewFailures`). The
counterexample has no failing case at all: both revisions meet both expectations, one
case has a known_bug marker, so both reports have its XPASS line, the lists of failures
are empty, and `stale` alone fails the job. A pull request that changes nothing is red
until the marker is deleted, in this repository. CONTRIBUTING.md:42 and the workflow's
message (line 163) say so; the README does not.

**checkpoint_continuity.** `CorrectSdkPasses`: the expectations ask nothing a
verifier following design 11 does not do, under any fault, and for every pair of
sizes up to the 17 of the code. That it is so for *every* size is proved (4.): the
"32 adds ~2,700 cases and finds nothing new" of consistency_vectors.py:20 is
right of a correct SDK, and of any larger number. `DefectsAreFound`: a defect fails
some case in an adapter exactly if it is not one of those that cannot show there
(`Unnoticed`), of which there are three. A client that does not compare the old root: no
case has a trusted log that is not a prefix *and* a proof, and every node of a proof
counts for the new root, too; no larger suite of this kind would find it
(`OldRootIsNeverTested`, 4.). Handing out the store's bytes: Python's are immutable. And
letting the error of the store or the proof source through: the adapters inject
different things. Go's store and proof source raise errors of the adapter, which have no
category; Python's raise the SDK's own classes from the injected cause
(checkpoint_adapter.py:41, 44, 54), TypeScript's too where the SDK exports its store
error (checkpoint-verify.mjs:12-14, 31). An SDK that lets such an error through gives the
same answer as one that raised it, so the defect shows in Go, and in TypeScript only
in an SDK that does not export the class; and only by the store's errors, since that of
the proof source is transient and has its cause in Go as well, which is all its case asks. `PassMeansRetained`: whatever passes left
the store as the verdict demands.

**c2sp_matrix.** `CorrectSdksPass`: whatever order a verifier looks at the rules
in, each mutation breaks the rule it is about and no other that could be reported.
`DefectsAreCaught`: also a defect that two or all three SDKs share fails the
matrix, except for those its inputs cannot tell (`Unnoticed`): all mutations are
re-signed, so a verifier that skips the bundle's signature passes, as do one
that skips inclusion or the entries, a writer that accepts an incomplete entry,
another error class in Go or TypeScript, whose rejections are an exit code and a
phrase (c2sp_matrix.py:300), and hand-over defects in other directions than
Python to TypeScript. `NamesTheFaulty`: a failure that names an SDK names a
faulty one, unless Python's stream, with which the others are compared, is the
wrong one.

**wba.** Verification: `CorrectVerifierPasses`, `DefectsAreCaught` (each defect by
the case that is there for it), `RejectionIsTheFinalOne` (never the warm-up's)
and `ScenarioIsWhatItSays`, which leaves the corpus: for every coherent scenario
of up to two changes, the world an adapter builds contains exactly the
violations the scenario describes. `Coherent` excludes scenarios that ask for a
warm-up and at the same time for something that makes the warm-up itself fail;
there the adapters differ (Go denies acceptance from the start, Python and
TypeScript only after the warm-up) and the corpus has no such case. Python's SDK may or may not wrap an error of the replay store (`wraps`);
if not, the adapter reports its own failure, and the properties exempt that
(`LetThrough`).

Signing, in the same run, since an adapter answers one case at a time and `MCWba` leaves
the other component idle meanwhile: a message that passes was signed by the key it advertises under
the original configuration (`PassedMessageVerifies`); a signer that starts over,
or refuses with an error of its own, passes in every adapter
(`CarefulSignerPasses`); and every case is judged
(`EveryCaseIsJudged`), because the key changes once. *go_signing_failure* shows
that Go renames any error in a key-change case to `SigningRejected`
(wba.go:106, 124), against src/docs/sdk-design/conformance/README.md:147.

**migration_chains.** `CorrectReaderPasses`, `DefectsAreCaught`, and
`AnswersAreTheChains`: the walk from reader to reader is compared with a
definition that does not walk (`Chains`, `Intact`, `Imported`: an injective path
of logs), over all worlds of three logs that issue, migrate to each other at
either of two positions, forge, or revoke, with and without a depth limit.
Three logs contain chains of up to two migrations, cycles of two and of three logs
with and without a lead-in, and cut-offs beyond the end of the source. The bound on `depth` in `TypeOK` is what shows that
the walk ends.

**fixture_provenance.** The sources differ from the committed one in each way a
digest must notice (order, candidates, flags, ids, definitions, claims, domain) and the
programs in each way a generation or the loading can fail or change; three changes are enough for an
edit, a regeneration that is broken off and a further edit, with any number of
commands before, between and after. `DigestCertifiesWire`: evidence agrees with
the source whose digest it carries in candidate order, scenario flags and wire
definitions (src/README.md:328). It agrees in nothing else: a source whose claims about a
candidate were edited is regenerated without complaint, and the new digest is put on the
same evidence (`ClaimsAreNotCertified`, 4.; 5.1). `RunUsesCurrentEvidence` holds even for `run.py` without the
checks; what it does not protect from is a hand-made change of a generated file
under the right digest, or a checkpoint suite of an older generator, and that is what the
checks before it are for (`CheckedRunIsReproducible`), in whichever of the two
orders. `EveryVectorFileIsUsed`: no file of the directory goes unused, neither a
new one nor one whose loading was dropped from `load_semantic_suites`; the event
identities, listed as handled elsewhere (semantic_vectors.py:134), have passed their own
check unless `run.py` is called directly. The other two listed files are excepted by
name: nothing notices when their loader is no longer called (5.1). `OneRegenerationSuffices`: no generator reads back what it or an
interrupted predecessor wrote. Duplicate ids are excluded from `DigestCertifiesWire`,
for the later case takes the evidence of both; the run refuses them (run.py:270), and
`RunUsesCurrentEvidence`, which has no such exception, depends on that.

Two runs check a type invariant: that of `EventReduce`, on which its proofs build,
and that of `MigrationChains`, whose bound on the depth is a claim of its own. That of
the gate is proved (4.). The other modules state none: their properties read the
values they are about, and TLC stops at one it cannot evaluate.

### 3.2 Fairness

Only `WbaSigning` has a fairness condition, `WF_vars(Next)` (in `MCWba`: on its steps): provider, signer and
adapter are one sequential process in one call stack, and nothing in it waits.
It says only that this process goes on running. Nothing is assumed of `run.py`'s
children, which are started without a timeout (run.py:81, wba_adapters.py:258);
that a run ends is therefore not claimed.

## 4. Proofs

TLAPS proves 10,267 obligations in eight modules, for all values of the constants.

**`EventReduceProofs`** assumes what `EventReduce` states of its constants:
`NamesAssumption` (the special values are distinct from the ordinary ones),
`PayloadAssumption` (payloads have the fields of an event), `InputsAssumption`
(logs are sequences of entries). `StepMoves` reduces `Next` to three shapes: the
history is left alone, started (`Starts`) or extended (`Extends`).

* `TypeCorrect`: `TypeOK` is inductive.
* `HistoryIsLinear`: inductive with `TypeOK`. `HistoryExtends` is the core: the
  new event is one above `last`, and `last` is the largest sequence number, so it
  collides with none.
* `RevocationIsFinal`: needs linearity, because `state = seen[last]` is what makes
  the status test look at the right event.
* `HistoryIsAuthorized`: `OldSigsUnchanged` (a later event never changes what an
  earlier one owed its signatures to) and `NewSigsHistorical` (what
  `Authority` demanded is what the history records).
* `NothingSignedIsOmitted`: the inductive form `NoneOmittedYet` is about the
  entries read so far. `SkippedForAReason` says the cursor passes a candidate that
  is not applied only for a copy or for missing authority,
  `SignedForksAreAuthentic` that a fork signed by its predecessor's keys does
  not lack it. That the predecessor precedes the fork is what keeps the
  invariant when an event is applied: it can only be the predecessor of later ones.
* `SelectionsAlwaysAgree`: for the words of every length over every alphabet of one
  lifecycle (`AlphabetAssumption`: each candidate is the one genesis, continues it,
  or is a migration that nobody signed, as `_alphabet` asserts and builds them), the
  loop of `reduce` and the fold of `expect` stay in step. `AgreementInvariance` relates the two after every candidate:
  what has been applied, the last event and the state, or which candidate was refused
  and why.
* `ReduceImplementsLifecycle`: under `length = Payload[last].seq + 1`, each
  starting or extending step is an `Issue`, `Rotate` or `Revoke`, every other a
  stutter.

**`ComplianceRunProofs`** holds for every list of cases, every selection of SDKs,
the empty one included, and every function `Answers`. `ListsAssumption` says that a
suite is a sequence and that an SDK is selected once. The inductive
invariant `IInv` has three parts: every SDK has one slot per case (`Slots`), each
slot holds an answer to its own request or one the harness made up (`OwnAnswer`),
and the cells and the exit code of a judged run are computed from the slots
(`Verdicts`). `Slots` is needed because a batch is placed by position;
`PlacedAnswers` shows that this keeps replies with their requests. `Verdicts`
carries the judgement from the step that made it to all later states. From it
follow, by case analysis of `Verdict` alone, `LossIsVisibleHolds`,
`CheckpointSafetyHolds` and `GreenMeansConformantHolds`.

`AnswersAreKeptHolds`, the action property, needs to know that no batch asks for a
position that an earlier one has filled. `InOrderLists` (a list kept in order holds
its set and nothing twice, by induction) makes the batches of one SDK apart from
each other (`BatchesApart`); the invariant `AskInv` adds that what is still to be
asked has an empty slot.

**`ComparisonGateProofs`** assumes that there are finitely many cases
(`CasesAssumption`), since a gate without a base looks at their number. A report
`Describes` a revision if its lists are part of the revision's, all of them when
it is whole, and its count is the true one; `FilesDescribe` shows it of all
that a run may leave behind. The invariant says which reports there are at each
step and of which build the shim is (`Workspace`), and that the gate's outputs
are what it found in the reports, for good (`Gated`). Steps that leave files,
shim and gate alone share one lemma (`QuietStep`). `ObjectionsAreCases` turns the
gate's three outputs into statements about cases; `GreenIsNoRegressionAlways` and
`RedHasAReasonAlways` are its two halves. `SecondCommentIsARaceAlways` has an
invariant of its own (`Posted`): as long as no look-up fails, an execution that
has found nothing and not yet written, beside a comment, was overtaken by a writer
that had found nothing either. `TypeOKAlways` needs both.

**`WbaSigningProofs`** holds for every set of errors a signer may raise, the three
adapters and the six strategies. The invariant: before the profile is built the configuration is the original and
afterwards what was taken is (`Profile`); a key is new only in a case that changes
it (`Keys`); and the answer to be judged is one of four, each with what is known
of the signer that gave it (`Output`). `PassesIffTrue` and `CheckedAnswers` follow
the four through `Verdict`.

**`WbaVerificationProofs`** shows `RejectionIsTheFinalOneAlways` from `Staged`: the
final verification follows a warm-up that succeeded where the scenario asks for
one, and whoever is done without having accepted or failed was refused by it.
`ScenarioIsWhatItSaysAlways` holds for every scenario whose cases are coherent, with
any number of changes at once; `RunsAssumption` says only that a run is a scenario
of the schema, one of the three adapters and one of the named defects. `Clean` says
that a scenario has no violation exactly when every part of a verification finds
things right (`LocalOK`, `DialOK`, ...), `WarmIsClean` what coherence says of a
scenario that is verified twice. The invariant `Faithful`: how far a verification has
come says which parts are right (`Passed`), a warm-up never fails and leaves a used
nonce and one discovery (`Stages`), and an error has its reason in the scenario
(`Reasons`).

**`CheckpointContinuityProofs`** assumes that logs may have two entries or more
(`SizeAssumption`), that a log may hold the three entries of the signed sequences
(`EntriesAssumption`), and that there are enough others to fill one
(`FillersAssumption`). Nothing bounds `MaxSize`, and the fillers may repeat.

* The Merkle part relates two algorithms that have nothing in common, one that halves
  the log and one that halves an index. `TreeExists`, `PathsExists`,
  `ProofsExists`, `OddExists` and `ClimbingExists` first show that the recursive
  functions are solutions of their equations (by induction on the length, or on the
  position). The core is that a climb in one half of a log and the climb in the whole
  go side by side: in the left half `fn` is the same and `sn` is further up
  (`LeftStep`, `ClimbLeft`), in the right half both lack the bit of the split
  (`RightStep`, `ClimbRight`), until the half is used up and one node is left, which is
  the other half's (`LeftWhole`, `RightWhole`). Audit paths and consistency proofs are
  built in that way, so `AuditPathsInclude` and `ConsistencyProofsLead` follow by
  induction on the length. The case apart is a prefix that is a whole subtree of the size
  of a power of two: its root is not in the proof (`PowerSkipsOdd`, `NoPower`).
* `MutilatedProofsRefused`: a climb needs exactly as many nodes as the proof has
  (`ShortRefused`, `LongRefused`), and two climbs that are apart at one node stay
  apart, whatever follows, because a node contains what was below (`StayApart`,
  `ChangedRefused`). It is the *new* root that goes wrong each time.
* `CorrectSdkPassesAlways`: `ContinuingRight` and `CasesRight` go through the signed
  sequences one by one and through the consistency cases by the theorems above, and find
  that the verdict of design 11 is what the case expects; `OutcomeIsVerdict` says that
  an SDK without a defect gives it. The invariant `Correct` has, for each phase of a case,
  what is true of store, requests and error on the way there (`Underway`). `OwnErrors`: an
  SDK that lets nothing through raises the same error whatever the adapter injects.
* `OldRootIsNeverTested` is the same invariant for an SDK that ignores the old root:
  `ContinuingTold` and `CasesTold` show that no case of any size tells it from a
  correct one.
* `PassMeansRetainedAlways` holds for every defect and every fault: an answer that names
  a stored checkpoint has read it after the verdict it names (`ReadBack`), and a case
  names both in every expectation.

**`FixtureProvenanceProofs`** assumes only that cases are numbered
(`SuitesAssumption`). The invariant speaks of the disk (`Signed`: evidence by a
generator was made from *some* source that *some* generator supported), of the
generator under way (`Generating`: what it has written is what it would write
now, since nobody edits meanwhile), and of the command under way (`Checking`,
`Passed`, `LoadedAll`: what it has passed still holds). `EvidenceMatches` is the
theorem about the generator's loop: what it signs for a source it supports has the
domain, flags, candidates, effect ids and wire definitions of that source, whatever the
source. `DigestCertifiesWireAlways` and
`RunUsesCurrentEvidenceAlways` follow from it and `Signed`, without any reference
to how the file came to be where it is; the others from the table of steps (`Places`).
`ClaimsAreNotCertified` is the limit of the first: two sources that differ in nothing but
the claims (`SameButClaims`) are supported by the same generators and get the same
cases, so whatever digest the evidence has says nothing of them.

**`CandidateReportProofs`** shows `ReportsSelectionAlways` and `ReportsRefusalAlways`
for logs of every length. `RequestsAssumption` says of the requests what the suites
guarantee: among the candidates of a log given to Go, signature values tell candidates
apart, and a log that is refused begins with an issuance that is proven and
authentic (5.1 says what happens otherwise); an issuance in a list of events given to
Python states its own thumbprints, which Python does not pass on. The
argument is that what an SDK rebuilds, and what each adapter makes of it, does not
depend on the detours:

* `LocalsStep`, `EventsStep`, `KeptsStep` give the recursive functions of the models
  one candidate at a time. From them, leaving out unproven entries changes the
  positions of what is applied and nothing else (`Dropped`, `SameButPlaced`), and a
  prefix of a log decides the state that the prefix leads to (`SameReadings`,
  `SameEvents`).
* `FirstFailure`: the first prefix that fails ends with the candidate that is refused.
  `SettledAlways`: so the adapters' searches, one prefix after the other, by category in
  TypeScript and by any failure in Go, blame that candidate.
* `FirstCopies`, `FoundAgain`: a candidate is applied at its first proven copy, so Go's
  search by type and signature values, from the last match on, finds the one applied.
* `ReportInv` ties the four stages together: what was requested (`Requested`), the
  matches so far (`Matching`), the prefixes tried so far (`Searching`), and the
  answer (`Answered`).

**Only model-checked:** `DefectsAreFound` of `CheckpointContinuity`, the three
properties of `C2spMatrix`, and `CorrectVerifierPasses` and `DefectsAreCaught` of
`WbaVerification`, which are about a fixed corpus and a fixed list of defects that the
runs go through completely (`DefectsAreFound` for the sizes the code has); and the four properties of
`MigrationChains`, for worlds of three logs. **Beyond TLAPS here:** liveness
(`EveryCaseIsJudged`) and ENABLED. The induction theorems of the library take an
operator as a parameter and cannot be used; the proofs go by the least element of a
set of naturals instead (`LeastNumber`, `Inductive`, from the theorems on
well-founded relations). No module declares a RECURSIVE operator.

## 5. What is not modelled

* Bytes: canonical JSON, Ed25519/ES256, digests, HTTP message syntax. They are
  identities of model values.
* Cloning, building and caching in the workflow beyond their success or failure.
* The text of reports beyond what the gate reads.
* Time limits: run.py:81 starts children without one, so a child that hangs hangs
  the run. There is nothing a step of the kit does about it that could be stated.
* That an accepted publish profile lists its known deviations (run.py:179-184): one
  more field that may disagree, and no property of `Verdict` tells them apart.
* Context-chain and nested-revocation cases: a fixed list of signed logs, each with
  an expectation that `EventReduce` and `Verdict` (`failClosed`) already cover; what
  is left is JSON encoding.
* Record, key and DNS operations of the shims: one call of an SDK each, no state.
* The readiness report and the cross-SDK workflow: shell around `run.py`.
* The components whose status in `PROJECT.json` is `not_modelled`, each with its reason.

### 5.1 Divergences noticed while modelling

These are not runs; each is a statement about text and one condition.

* `selection_enumeration.py:77` calls any later issuance `CHAIN_CONTINUITY`, where
  `reduce` and the curated selection cases say `DUPLICATE_ISSUANCE`. The alphabet
  has one issuance, so no enumerated case tells.
* Go's search for the refused candidate takes the first prefix whose rebuild fails
  for any reason (main.go:659); noise alone fails, too, so `[forged migration,
  issuance, second issuance]` is reported as refused at 0. No suite gives it such a
  log: give `candidate_report` the second issuance for Go and `ReportsRefusal` fails.
* src/README.md:257 says a crash aborts the run; run.py:78 isolates that of a verifier
  case.
* A byte-identical copy with a bad inclusion proof is matched in Go before the proven
  entry that took effect (main.go:673), although the comment at main.go:594 says
  signature values tell copies apart. No suite contains such a log.
* Python's adapter does not pass the issuance's key thumbprints on (py_adapter.py:393),
  the other two do.
* A failed look-up of the comment (`|| true`) posts a second one.
* src/README.md:328-330 says that mismatched wire definitions fail "rather than
  certifying old evidence with a new source hash". The generator compares type and domain
  (generate_c2sp_fixtures.py:228-233); what the source says of a candidate's validity,
  authentication, failure scope, direction, or of what it is identical to is compared
  with nothing, so that after such an edit and a regeneration the old evidence does have
  a new hash (`ClaimsAreNotCertified`).
* `semantic_vectors.py:136,138` counts the WBA and the negotiated vectors as loaded
  without looking: were their loader no longer called, no error would say so.
* Python's checkpoint adapter, and TypeScript's when it can, injects the SDK's own
  error class, so an SDK that passes a store's error on is found in Go alone, and one that
  passes on a proof source's error in none of the three.
* The gate compares FAIL headings: an XPASS that becomes XFAIL is not seen.
* No adapter reads `cachedAt`; cache-hit cases require two discoveries of an SDK
  without a cache.
* TypeScript's and Go's adapters recognise an error of their own replay store
  (wba-verify.mjs:118, wba_adapter_test.go:255), Python's does not.
* Go's `SignKey(kid)` activates the pending key (main.go:137), TypeScript's
  `signKey` does not, Python has none. The configuration-snapshot cases cannot
  fail in Go: the discovery URI and the clock skew are copied with the
  configuration (wba.go:82, wba_adapter_test.go:130); only the inclusion flag is
  behind a pointer (wba.go:79), and no case changes it.
* The migration corpus' cycle case also exceeds the depth limit, so it cannot tell
  cycle detection from the limit; its cut-off question is about a one-entry log
  and so equals the whole. Go takes any error as `LifecycleError` (migration.go:95).

## 6. Plan

The modules were written in this order: the selection reference and its abstract
specification first, since every signed suite is derived from it; then the run and
its verdicts, on which all results depend; then the gate; then the suites whose
adapters do most (checkpoint, WBA, migration, matrix); last the fixtures they are
made of. What remains, in this order:

1. **Error naming** as one module: the same failure through the three adapters'
   classifications, for negotiated signatures, managed trust and records.
2. **Context-chain vectors** as logs of `EventReduce` with the signed context as a field.
3. **Proofs**: the type invariant of `MigrationChains`, whose bound on `depth` needs
   that the walk never sees a log twice; `AnswersAreTheChains` for any number of logs;
   `NamesTheFaulty` from the lemma that an SDK without the defect behaves as `Nobody`.
