------------------------- MODULE FixtureProvenance -------------------------
(***************************************************************************)
(* Where the cases of a run come from. c2sp-lifecycle-selection.json says  *)
(* what each selection case means; generate_c2sp_fixtures.py signs the     *)
(* evidence for it and three further files; generate_wba_fixtures.py       *)
(* writes the WBA corpus; run.py loads what it finds. People edit sources, *)
(* generators and generated files, regenerate or forget to, and interrupt. *)
(*                                                                         *)
(* A digest is what it digests, a generator is what its output depends on: *)
(* which event it signs for a candidate of a case, whether its historical  *)
(* inputs are intact, whether its golden messages hold. What the source    *)
(* claims of a candidate beyond type, domain and effect id (valid,         *)
(* authenticated, failureScope, completeEntryIdentical,                    *)
(* signedPayloadIdentical, direction) no program reads. One command runs   *)
(* at a time, and nobody edits while it does.                              *)
(***************************************************************************)
EXTENDS Naturals, Sequences

CONSTANTS Suites,     \* contents of the semantic source: [domain, cases, definitions]
          Versions,   \* programs: generators [recipes, intact, golden], and what is loaded
          Template,   \* the case whose evidence the in-memory suites start from
          MaxChanges  \* bound on edits and interruptions

ASSUME SuitesAssumption == \A s \in Suites : DOMAIN s.cases \subseteq Nat
ASSUME ChangesAssumption == MaxChanges \in Nat

Generators == {"c2sp", "wba"}
FilesOf == [c2sp |-> {"evidence", "bundle", "corpus", "checkpoints"},
            wba |-> {"cert", "key", "vectors"}]
Files == FilesOf["c2sp"] \cup FilesOf["wba"]

\* The conformance directory: the files whose cases are loaded, and one that a
\* check of its own reads.
Read == {"http-message-signatures", "lifecycle-transitions", "c2sp-lifecycle-selection",
         "c2sp-managed-trust-selection", "web-bot-auth", "negotiated-response-signatures"}
Identity == "c2sp-event-identity"
\* The files load_semantic_suites takes to be read elsewhere, without looking.
HandListed == {Identity, "web-bot-auth", "negotiated-response-signatures"}
HandWritten == (Read \ {"web-bot-auth"}) \cup {Identity}

\* The pull-request check goes by the WBA corpus alone.
WrongRunOne == <<"check_wba", "unittest", "identity", "load", "SDKs">>

RunOne == <<"check_wba", "unittest", "check_c2sp", "identity", "load", "SDKs">>

\* The commands: the two generators, the Makefile's run, ci/run-one.sh, and
\* run.py by itself.
Steps ==
  [c2sp |-> <<"compute", "evidence", "bundle", "corpus", "checkpoints">>,
   wba |-> <<"compute", "cert", "key", "vectors">>,
   make |-> <<"check_c2sp", "check_wba", "unittest", "identity", "load", "SDKs">>,
   run_one |-> RunOne,
   run_py |-> <<"load", "SDKs">>]

VARIABLES suite,     \* what c2sp-lifecycle-selection.json says
          version,   \* the generators and the loaders
          directory, \* the files of the conformance directory
          disk,      \* the generated files
          command,   \* the command under way, "none" if there is none
          pos,       \* position of its next step
          outputs,   \* what the generator under way has computed
          checked,   \* the checks this command has passed
          fresh,     \* the generators that have completed since the last change
          changes    \* edits and interruptions so far

sources == <<suite, version, directory>>
vars == <<suite, version, directory, disk, command, pos, outputs, checked, fresh, changes>>

-----------------------------------------------------------------------------
(* generate_c2sp_fixtures.py and generate_wba_fixtures.py                  *)

Positions(s) == DOMAIN s.cases
Ids(s) == {s.cases[i].id : i \in Positions(s)}
Unique(s) == \A i, j \in Positions(s) : s.cases[i].id = s.cases[j].id => i = j

\* The wire definition: a candidate without a type is not compared with its event.
Fits(event, definition) ==
  definition.type # "none" => event.type = definition.type /\ event.domain = definition.domain

\* Does not compare the event with the definition.
WrongHasEvent(s, v, id, c) == c \in DOMAIN v.recipes[id] /\ c \in DOMAIN s.definitions

HasEvent(s, v, id, c) ==
  /\ c \in DOMAIN v.recipes[id]
  /\ c \in DOMAIN s.definitions
  /\ Fits(v.recipes[id][c], s.definitions[c])

\* The generator knows exactly the suite's cases, and has an event as defined
\* for each candidate.
Supported(s, v) ==
  /\ v.intact
  /\ Ids(s) = DOMAIN v.recipes
  /\ \A i \in Positions(s) : \A k \in DOMAIN s.cases[i].candidates :
       HasEvent(s, v, s.cases[i].id, s.cases[i].candidates[k])

Entries(s, v, case) ==
  [k \in DOMAIN case.candidates |->
     [event |-> v.recipes[case.id][case.candidates[k]],
      effect |-> s.definitions[case.candidates[k]].effect]]

\* Of two cases with one id the later one stays.
LastWith(s, id) ==
  CHOOSE i \in Positions(s) : /\ s.cases[i].id = id
                              /\ \A j \in Positions(s) : s.cases[j].id = id => j <= i

EvidenceOf(s, v, case) ==
  [domain |-> s.domain, flags |-> case.flags, entries |-> Entries(s, v, case)]

EvidenceFrom(s, v) ==
  [digest |-> s,
   cases |-> [id \in Ids(s) |-> EvidenceOf(s, v, s.cases[LastWith(s, id)])]]

ByGenerator(content) == [by |-> "generator", content |-> content]
Partial == [by |-> "interrupted_generator"]

BundleFrom(v) == [signed |-> <<v.recipes, v.intact, v.golden>>]
CheckpointsFrom(bundle) == [histories |-> bundle]

\* What a generator would write to a file.
Made(f) ==
  ByGenerator(CASE f = "evidence" -> EvidenceFrom(suite, version)
                [] f = "checkpoints" -> CheckpointsFrom(BundleFrom(version))
                [] OTHER -> BundleFrom(version))

Makes(g) ==
  IF g = "c2sp" THEN "c2sp-lifecycle-selection" \in directory /\ Supported(suite, version)
  ELSE version.golden

\* Takes the bundle for the checkpoints from the file that is to be replaced.
WrongOutputsOf(g) ==
  [f \in FilesOf[g] |->
     IF f = "checkpoints" /\ disk["bundle"] # Partial
     THEN ByGenerator(CheckpointsFrom(disk["bundle"].content)) ELSE Made(f)]

OutputsOf(g) == [f \in FilesOf[g] |-> Made(f)]

Reproducible(g) == Makes(g) /\ \A f \in FilesOf[g] : disk[f] = Made(f)

-----------------------------------------------------------------------------

Init ==
  /\ suite \in Suites
  /\ version \in Versions
  /\ version.golden /\ Supported(suite, version) /\ version.loads = Read
  /\ directory = HandWritten \cup {"web-bot-auth"}
  /\ disk = [f \in Files |-> Made(f)]
  /\ command = "none"
  /\ pos = 0
  /\ outputs = <<>>
  /\ checked = {}
  /\ fresh = {}
  /\ changes = 0

Change ==
  /\ changes < MaxChanges
  /\ changes' = changes + 1

Edit ==
  /\ command = "none"
  /\ Change
  /\ fresh' = {}
  /\ UNCHANGED <<command, pos, outputs, checked>>

EditSemantics ==
  /\ Edit
  /\ suite' \in Suites
  /\ UNCHANGED <<version, directory, disk>>

EditPrograms ==
  /\ Edit
  /\ version' \in Versions
  /\ UNCHANGED <<suite, directory, disk>>

EditDirectory ==
  /\ Edit
  /\ \/ directory' = directory \cup {"new_vectors"}
     \/ \E f \in HandWritten : directory' = directory \ {f}
  /\ UNCHANGED <<suite, version, disk>>

\* A generated file is changed by hand, such that its golden messages still
\* hold or such that they do not.
EditGenerated ==
  /\ Edit
  /\ \E f \in Files, by \in {"hand", "careless_hand"} :
       /\ disk[f] # Partial
       /\ disk' = [disk EXCEPT ![f].by = by]
  /\ UNCHANGED sources

Start ==
  /\ command = "none"
  /\ command' \in DOMAIN Steps
  /\ pos' = 1
  /\ checked' = {}
  /\ UNCHANGED <<suite, version, directory, disk, outputs, fresh, changes>>

Now(s) == command # "none" /\ pos \in DOMAIN Steps[command] /\ Steps[command][pos] = s
Advance == pos' = pos + 1 /\ UNCHANGED command
Stop == command' = "none" /\ pos' = 0

\* All outputs are computed before the first is written.
Compute ==
  /\ Now("compute")
  /\ \/ Makes(command) /\ Advance /\ outputs' = OutputsOf(command)
     \/ ~Makes(command) /\ Stop /\ outputs' = outputs
  /\ UNCHANGED <<suite, version, directory, disk, checked, fresh, changes>>

Write ==
  /\ \E f \in Files : Now(f) /\ disk' = [disk EXCEPT ![f] = outputs[f]]
  /\ Advance
  /\ UNCHANGED <<suite, version, directory, outputs, checked, fresh, changes>>

CheckName == [c2sp |-> "check_c2sp", wba |-> "check_wba"]

\* The generator with --check.
Check(g) ==
  /\ Now(CheckName[g])
  /\ \/ Reproducible(g) /\ Advance /\ checked' = checked \cup {g}
     \/ ~Reproducible(g) /\ Stop /\ UNCHANGED checked
  /\ UNCHANGED <<suite, version, directory, disk, outputs, fresh, changes>>

UnitTests ==
  /\ Now("unittest")
  /\ Advance \/ Stop
  /\ UNCHANGED <<suite, version, directory, disk, outputs, checked, fresh, changes>>

EventIdentity ==
  /\ Now("identity")
  /\ \/ Identity \in directory /\ Advance /\ checked' = checked \cup {Identity}
     \/ Stop /\ UNCHANGED checked
  /\ UNCHANGED <<suite, version, directory, disk, outputs, fresh, changes>>

\* Goes by the ids of the cases.
WrongCurrent(evidence) == DOMAIN evidence.content.cases = Ids(suite)

Current(evidence) ==
  /\ evidence.content.digest = suite
  /\ DOMAIN evidence.content.cases = Ids(suite)

\* Loads the files it knows and asks for no others.
WrongHandled == version.loads \subseteq directory

\* What is loaded is read off the suites, or listed.
Handled == directory = (version.loads \ HandListed) \cup HandListed

Loadable ==
  /\ version.loads \subseteq directory
  /\ disk["evidence"] # Partial
  /\ Current(disk["evidence"])
  /\ Template \in DOMAIN disk["evidence"].content.cases
  /\ Handled
  /\ disk["vectors"] # Partial
  /\ disk["vectors"].by # "careless_hand"
  /\ Unique(suite)

\* What a hand or an interruption left of a file may not parse, or what it left
\* of a YAML file may.
Load ==
  /\ Now("load")
  /\ \/ Loadable /\ Advance
     \/ (~Loadable \/ \E f \in {"evidence", "checkpoints", "vectors"} : disk[f].by # "generator")
        /\ Stop
  /\ UNCHANGED <<suite, version, directory, disk, outputs, checked, fresh, changes>>

RunSdks ==
  /\ Now("SDKs")
  /\ Advance
  /\ UNCHANGED <<suite, version, directory, disk, outputs, checked, fresh, changes>>

Completed == {command} \cap Generators

End ==
  /\ command # "none"
  /\ pos \notin DOMAIN Steps[command]
  /\ Stop
  /\ fresh' = fresh \cup Completed
  /\ outputs' = <<>>
  /\ UNCHANGED <<suite, version, directory, disk, checked, changes>>

\* Interrupted while it writes, a generator leaves a part of the file.
Interrupt ==
  /\ command # "none"
  /\ Change
  /\ Stop
  /\ \/ UNCHANGED disk /\ UNCHANGED fresh
     \/ \E f \in Files : /\ Now(f)
                         /\ disk' = [disk EXCEPT ![f] = Partial]
                         /\ fresh' = fresh \ {command}
  /\ outputs' = <<>>
  /\ UNCHANGED <<suite, version, directory, checked>>

Next ==
  \/ EditSemantics \/ EditPrograms \/ EditDirectory \/ EditGenerated
  \/ Start \/ Compute \/ Write
  \/ \E g \in Generators : Check(g)
  \/ UnitTests \/ EventIdentity \/ Load \/ RunSdks \/ End \/ Interrupt

Spec == Init /\ [][Next]_vars

-----------------------------------------------------------------------------

Started == Now("SDKs")

\* Each case of s has evidence of the domain, the flags and the candidates that s
\* asks for, in their order, each with its effect id and an event of its type and
\* domain. What s claims of a candidate besides is not looked at.
Matches(evidence, s) ==
  \A i \in Positions(s) :
    LET case == s.cases[i]
        made == evidence.cases[case.id]
    IN /\ case.id \in DOMAIN evidence.cases
       /\ made.domain = s.domain
       /\ made.flags = case.flags
       /\ DOMAIN made.entries = DOMAIN case.candidates
       /\ \A k \in DOMAIN case.candidates :
            /\ made.entries[k].effect = s.definitions[case.candidates[k]].effect
            /\ Fits(made.entries[k].event, s.definitions[case.candidates[k]])

\* A generated evidence file agrees with the source whose digest it carries in
\* candidate order, scenario flags and wire definitions, whatever was edited and
\* wherever regeneration was broken off: unsupported candidates and mismatched wire
\* definitions fail (src/README.md:328). A digest says no more than that: what the
\* source claims of a candidate besides may be edited, and the same evidence gets
\* the new digest (the theorem ClaimsAreNotCertified).
DigestCertifiesWire ==
  LET evidence == disk["evidence"]
  IN evidence.by = "generator" /\ Unique(evidence.content.digest)
       => Matches(evidence.content, evidence.content.digest)

\* No SDK sees evidence for semantics that have changed since, not even when
\* run.py is called directly, without the checks of the Makefile
\* (src/README.md:328); what somebody forges under the right digest aside.
RunUsesCurrentEvidence ==
  Started /\ disk["evidence"].by = "generator" => Matches(disk["evidence"].content, suite)

\* Behind the checks of make run and run-one.sh, which order them differently,
\* every generated file is what the generators make of the sources, so that
\* neither a forgotten or half-done regeneration nor a hand edit reaches an SDK.
CheckedRunIsReproducible ==
  Started /\ command # "run_py" => \A g \in Generators : Reproducible(g)

\* No file of the conformance directory is left out of a run: its cases are
\* loaded, or, unless run.py is called directly, its own check has passed. Two of
\* the listed files are taken on trust: nothing notices when the loader of the WBA
\* or of the negotiated vectors is no longer called.
EveryVectorFileIsUsed ==
  Started =>
    directory \ (HandListed \ {Identity})
      \subseteq version.loads \cup (IF command = "run_py" THEN {Identity} ELSE checked)

\* A generator's files do not feed each other through the disk: one completed
\* regeneration makes them reproducible, also after an interrupted one.
OneRegenerationSuffices == \A g \in fresh : Reproducible(g)
=============================================================================
