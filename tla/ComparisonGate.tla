--------------------------- MODULE ComparisonGate ---------------------------
(***************************************************************************)
(* The check an SDK's pull request runs: .github/workflows/                *)
(* sdk-compliance.yaml with ci/run-one.sh. The suite runs on the head and, *)
(* if a base is given, on the base, with the same fixtures and markers;    *)
(* the gate greps the two reports; a failed gate still leaves a comment,   *)
(* as another execution for the same pull request may do at the same time. *)
(*                                                                         *)
(* An SDK revision is what it does on each case: it meets the expectation, *)
(* deviates from it, breaks the adapter, or lacks the capability.          *)
(***************************************************************************)
EXTENDS Naturals, Sequences, FiniteSets

CONSTANTS Cases,   \* case identifiers
          Sdks     \* the SDK revisions: functions from Cases to Behaviours

ASSUME CasesAssumption == IsFiniteSet(Cases)

Behaviours == {"meets", "deviates", "breaks", "lacks"}

Refs == {"head", "base"}
Executions == {"this", "another"}

VARIABLES sdk,      \* ref -> SDK revision
          marked,   \* the cases with a known_bug marker
          compares, \* a base ref was given
          pr,       \* a pull request number was given
          step,     \* next step of the job, "end" when it is over
          ok,       \* no step of the job has failed
          shim,     \* the ref the shim was last built from
          report,   \* ref -> the report file in the workspace
          gate,     \* outputs of the gate step
          look,     \* execution -> what its look-up of the comment returned
          wrote,    \* the executions that have written their comment
          comments  \* the pull request's comments with the marker: who wrote each last

inputs == <<sdk, marked, compares, pr>>
vars == <<sdk, marked, compares, pr, step, ok, shim, report, gate, look, wrote, comments>>
remote == <<look, wrote, comments>>

\* A report is a file: which revision it describes, whether it was written to
\* the end, whether its summary row is there, the failures that row counts, and
\* the failure headings and XPASS lines.
NoFile == [of |-> "nothing", whole |-> FALSE, counted |-> FALSE, fails |-> 0,
           failing |-> {}, xpassing |-> {}]

NoGate == [ran |-> FALSE, regressed |-> FALSE, strict |-> FALSE, stale |-> FALSE]

-----------------------------------------------------------------------------
(* evaluate_result and render_report, as far as the gate can tell.         *)

Status(ref, c) ==
  CASE sdk[ref][c] = "lacks" -> "MISSING"
    [] sdk[ref][c] = "breaks" -> "FAIL"
    [] sdk[ref][c] = "deviates" -> IF c \in marked THEN "XFAIL" ELSE "FAIL"
    [] sdk[ref][c] = "meets" -> IF c \in marked THEN "XPASS" ELSE "PASS"

With(ref, status) == {c \in Cases : Status(ref, c) = status}

Complete ==
  [of |-> shim, whole |-> TRUE, counted |-> TRUE, fails |-> Cardinality(With(shim, "FAIL")),
   failing |-> With(shim, "FAIL"), xpassing |-> With(shim, "XPASS")]

\* What is left of a report that could not be written to the end: the summary
\* comes first, then the failures, then the known bugs.
Truncated ==
  {[NoFile EXCEPT !.of = shim]}
  \cup {[Complete EXCEPT !.whole = FALSE, !.failing = f, !.xpassing = {}] :
          f \in SUBSET Complete.failing}
  \cup {[Complete EXCEPT !.whole = FALSE, !.xpassing = x] : x \in SUBSET Complete.xpassing}

-----------------------------------------------------------------------------

Init ==
  /\ sdk \in [Refs -> Sdks]
  /\ marked \in SUBSET Cases
  /\ compares \in BOOLEAN
  /\ pr \in BOOLEAN
  /\ step = "naming"
  /\ ok = TRUE
  /\ shim = "nothing"
  /\ report = [ref \in Refs |-> NoFile]
  /\ gate = NoGate
  /\ look = [e \in Executions |-> "not yet"]
  /\ wrote = {}
  /\ comments \in {<<>>, <<"another">>}

BuildOf == [ref \in Refs |-> IF ref = "head" THEN "build head" ELSE "build base"]
RunOf == [ref \in Refs |-> IF ref = "head" THEN "run head" ELSE "run base"]

\* A step that fails: what follows is skipped, up to the steps with always().
Fails ==
  /\ ok' = FALSE
  /\ step' = "upload"

CheckNaming ==
  /\ step = "naming"
  /\ \/ step' = "build head" /\ UNCHANGED ok
     \/ Fails
  /\ UNCHANGED <<inputs, shim, report, gate, remote>>

\* Keeps a shim that is already there.
WrongBuild(ref) ==
  /\ step = BuildOf[ref]
  /\ \/ /\ shim' = IF shim = "nothing" THEN ref ELSE shim
        /\ step' = RunOf[ref]
        /\ UNCHANGED ok
     \/ Fails /\ UNCHANGED shim
  /\ UNCHANGED <<inputs, report, gate, remote>>

\* run-one.sh up to the harness: virtual environment, fixture and unit checks,
\* and the build of the shim against this checkout.
Build(ref) ==
  /\ step = BuildOf[ref]
  /\ \/ /\ shim' = ref
        /\ step' = RunOf[ref]
        /\ UNCHANGED ok
     \/ Fails /\ UNCHANGED shim
  /\ UNCHANGED <<inputs, report, gate, remote>>

AfterRun(ref) == IF ref = "head" /\ compares THEN "build base" ELSE "gate"

\* run-one.sh removes the old report, runs the harness and succeeds if there is
\* a report that is not empty, whatever the harness' exit code.
Run(ref) ==
  /\ step = RunOf[ref]
  /\ \E file \in {NoFile, Complete} \cup Truncated :
       /\ report' = [report EXCEPT ![ref] = file]
       /\ IF file = NoFile THEN Fails
          ELSE step' = AfterRun(ref) /\ UNCHANGED ok
  /\ UNCHANGED <<inputs, shim, gate, remote>>

\* Lists what only one of the reports has, whichever it is.
WrongComm ==
  (report["head"].failing \ report["base"].failing) \cup (report["base"].failing \ report["head"].failing)

\* Compares the number of failures, as the summary row has them.
WrongNewFailures == IF report["head"].fails > report["base"].fails THEN report["head"].failing ELSE {}

NewFailures == report["head"].failing \ report["base"].failing

\* Reports without a summary row stop the gate script; the base is compared
\* when its report exists.
Gate ==
  /\ step = "gate"
  /\ LET base == report["base"] # NoFile
         head == report["head"] IN
     IF ~head.counted \/ (base /\ ~report["base"].counted)
     THEN Fails /\ UNCHANGED gate
     ELSE /\ gate' = [ran |-> TRUE,
                      regressed |-> base /\ NewFailures # {},
                      strict |-> ~base /\ head.fails > 0,
                      stale |-> head.xpassing # {}]
          /\ step' = "verdict"
          /\ UNCHANGED ok
  /\ UNCHANGED <<inputs, shim, report, remote>>

\* Without a base only the failure count is looked at.
WrongVerdict ==
  /\ step = "verdict"
  /\ IF gate.regressed \/ gate.strict THEN Fails
     ELSE step' = "upload" /\ UNCHANGED ok
  /\ UNCHANGED <<inputs, shim, report, gate, remote>>

Verdict ==
  /\ step = "verdict"
  /\ IF gate.regressed \/ gate.strict \/ gate.stale THEN Fails
     ELSE step' = "upload" /\ UNCHANGED ok
  /\ UNCHANGED <<inputs, shim, report, gate, remote>>

\* Both uploads run whatever happened before; the comment only when the gate
\* step succeeded for a pull request.
Upload ==
  /\ step = "upload"
  /\ step' = IF gate.ran /\ pr THEN "look" ELSE "end"
  /\ UNCHANGED <<inputs, ok, shim, report, gate, remote>>

\* The comment job looks for a marked comment. A look-up that fails is taken
\* for one that finds nothing.
LookUp(e) ==
  /\ look[e] = "not yet"
  /\ \E outcome \in {"failed", IF comments = <<>> THEN "nothing" ELSE "found"} :
       look' = [look EXCEPT ![e] = outcome]
  /\ UNCHANGED <<wrote, comments>>

\* Posts even if there is a comment to edit.
WrongWrite(e) ==
  /\ look[e] # "not yet" /\ e \notin wrote
  /\ comments' = Append(comments, e)
  /\ wrote' = wrote \cup {e}
  /\ UNCHANGED look

\* Edits the first comment found, or posts one.
Write(e) ==
  /\ look[e] # "not yet" /\ e \notin wrote
  /\ comments' = IF look[e] = "found" THEN [comments EXCEPT ![1] = e] ELSE Append(comments, e)
  /\ wrote' = wrote \cup {e}
  /\ UNCHANGED look

Look ==
  /\ step = "look"
  /\ LookUp("this")
  /\ step' = "comment"
  /\ UNCHANGED <<inputs, ok, shim, report, gate>>

\* The errors of the job are ignored.
Comment ==
  /\ step = "comment"
  /\ Write("this") \/ UNCHANGED remote
  /\ step' = "end"
  /\ UNCHANGED <<inputs, ok, shim, report, gate>>

\* The other execution, which nothing keeps apart from this one. What it did
\* earlier is among the comments this one begins with.
Another ==
  /\ step \in {"look", "comment"}
  /\ LookUp("another") \/ Write("another")
  /\ UNCHANGED <<inputs, step, ok, shim, report, gate>>

Next ==
  \/ CheckNaming
  \/ \E ref \in Refs : Build(ref) \/ Run(ref)
  \/ Gate \/ Verdict \/ Upload \/ Look \/ Comment \/ Another

Spec == Init /\ [][Next]_vars

-----------------------------------------------------------------------------
(* Properties.                                                             *)

TypeOK ==
  /\ sdk \in [Refs -> Sdks]
  /\ marked \subseteq Cases
  /\ ok \in BOOLEAN
  /\ shim \in Refs \cup {"nothing"}
  /\ \A ref \in Refs :
       /\ report[ref].of \in Refs \cup {"nothing"}
       /\ report[ref].failing \subseteq Cases
       /\ report[ref].xpassing \subseteq Cases
       /\ report[ref].whole => report[ref].counted
       /\ gate.ran /\ report[ref] # NoFile => report[ref].counted
  /\ gate \in [ran : BOOLEAN, regressed : BOOLEAN, strict : BOOLEAN, stale : BOOLEAN]
  /\ look \in [Executions -> {"not yet", "nothing", "found", "failed"}]
  /\ comments \in Seq(Executions)

Green == step = "end" /\ ok
Red == step = "end" /\ ~ok
Compared == {ref \in Refs : ref = "head" \/ compares}

\* Failing cases a pull request is allowed to have: those of the base.
Known == IF compares THEN With("base", "FAIL") ELSE {}

\* A green check introduces no failing case and leaves no stale marker: whatever
\* fails on the head fails on the base too, provided the head's report was
\* written whole. The base's may be cut off: it only ever hides failures that
\* would have been excused. Without a base nothing is excused.
GreenIsNoRegression ==
  Green /\ report["head"].whole =>
    With("head", "FAIL") \subseteq Known /\ With("head", "XPASS") = {}

\* A gate that turns the check red does so for a failing case that the base does
\* not have, or for a marker that the head no longer needs, provided the base's
\* report was written whole: unchanged failures do not block. The second reason is
\* the workflow's own; README.md promises less, see RedOnlyForNewFailures.
RedHasAReason ==
  Red /\ gate.ran /\ (compares => report["base"].whole) =>
    ~(With("head", "FAIL") \subseteq Known) \/ With("head", "XPASS") # {}

\* What README.md:237 says of a check that compares with a base: it "goes red only
\* if the PR introduces a newly failing case". A pull request that fixes a case with
\* a known_bug marker is red, too, without any failing case (XPASS).
RedOnlyForNewFailures ==
  Red /\ gate.ran /\ compares /\ report["base"].whole =>
    ~(With("head", "FAIL") \subseteq Known)

\* What the gate compares was written in this execution by a build of the
\* revision it is taken for, not by the shim of the other revision.
ReportsAreOwn ==
  gate.ran => \A ref \in Compared : report[ref].of = ref

\* The pull request gets a second comment only when a look-up failed, or when
\* two executions had both looked before either had posted.
SecondCommentIsARace ==
  Len(comments) > 1 =>
    \/ \E e \in Executions : look[e] = "failed"
    \/ \A e \in Executions : look[e] = "nothing"
=============================================================================
