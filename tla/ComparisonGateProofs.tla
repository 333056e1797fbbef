------------------------ MODULE ComparisonGateProofs ------------------------
(***************************************************************************)
(* ComparisonGate for every finite set of cases and all SDK revisions: the *)
(* compared reports are their own revision's, green introduces no failure, *)
(* red by the gate has a reason, and a second comment needs a race.        *)
(***************************************************************************)
EXTENDS ComparisonGate, FiniteSetTheorems, SequenceTheorems, TLAPS

\* What a report file may hold of a revision: parts of its lists, all of them
\* if it was written to the end, and the true count if the count is there.
Describes(file, ref) ==
  /\ file.of = ref
  /\ file.whole \in BOOLEAN
  /\ file.counted \in BOOLEAN
  /\ file.failing \subseteq With(ref, "FAIL")
  /\ file.xpassing \subseteq With(ref, "XPASS")
  /\ file.counted => file.fails = Cardinality(With(ref, "FAIL"))
  /\ file.whole => /\ file.counted
                   /\ file.failing = With(ref, "FAIL")
                   /\ file.xpassing = With(ref, "XPASS")

Early == {"naming", "build head", "run head"}
Late == {"upload", "look", "comment", "end"}
Steps == Early \cup {"build base", "run base", "gate", "verdict"} \cup Late

\* The reports there are at a step, and the revision the shim is of.
Headed == Describes(report["head"], "head")
Based == IF compares THEN Describes(report["base"], "base") ELSE report["base"] = NoFile

Workspace ==
  /\ step \in Steps
  /\ step = "run head" => shim = "head"
  /\ step \in {"build base", "run base"} => compares
  /\ step = "run base" => shim = "base"
  /\ step \in Early => report["head"] = NoFile
  /\ step \in Early \cup {"build base", "run base"} => report["base"] = NoFile
  /\ step \in {"build base", "run base", "gate", "verdict"} => Headed
  /\ step \in {"gate", "verdict"} => Based

\* What the gate step found, for good.
Found ==
  gate = [ran |-> TRUE,
          regressed |-> report["base"] # NoFile /\ NewFailures # {},
          strict |-> report["base"] = NoFile /\ report["head"].fails > 0,
          stale |-> report["head"].xpassing # {}]

Objects == gate.regressed \/ gate.strict \/ gate.stale

Gated ==
  /\ gate.ran \/ gate = NoGate
  /\ gate.ran => /\ step \in Late \cup {"verdict"}
                 /\ Headed /\ Based /\ Found
                 /\ report["head"].counted
                 /\ compares => report["base"].counted
  /\ step = "verdict" => gate.ran
  /\ step \notin Late => ok = TRUE
  /\ step \in Late => /\ ok \in BOOLEAN
                      /\ ok = TRUE => gate.ran /\ ~Objects
                      /\ ok = FALSE /\ gate.ran => Objects

IInv == DOMAIN report = Refs /\ Workspace /\ Gated

LEMMA NothingIsNoRef ==
  ASSUME NEW ref \in Refs, NEW file, Describes(file, ref)
  PROVE  file # NoFile
BY DEF Describes, NoFile, Refs

\* Whatever the harness leaves behind describes the revision its shim is of.
LEMMA FilesDescribe ==
  ASSUME NEW file \in {Complete} \cup Truncated
  PROVE  Describes(file, shim)
<1>1. Describes(Complete, shim)
  BY DEF Describes, Complete
<1>2. Describes([NoFile EXCEPT !.of = shim], shim)
  BY DEF Describes, NoFile
<1>3. ASSUME NEW f \in SUBSET Complete.failing
      PROVE  Describes([Complete EXCEPT !.whole = FALSE, !.failing = f, !.xpassing = {}], shim)
  BY DEF Describes, Complete
<1>4. ASSUME NEW x \in SUBSET Complete.xpassing
      PROVE  Describes([Complete EXCEPT !.whole = FALSE, !.xpassing = x], shim)
  BY DEF Describes, Complete
<1> QED BY <1>1, <1>2, <1>3, <1>4 DEF Truncated

LEMMA InitInv == Init => IInv
<1> SUFFICES ASSUME Init PROVE IInv
  OBVIOUS
<1>1. DOMAIN report = Refs /\ \A ref \in Refs : report[ref] = NoFile
  BY DEF Init
<1>2. Workspace
  BY <1>1 DEF Init, Workspace, Steps, Early, Refs
<1>3. ~gate.ran
  BY DEF Init, NoGate
<1>4. Gated
  BY <1>3 DEF Init, Gated, Late
<1> QED BY <1>1, <1>2, <1>4 DEF IInv

\* Revisions and markers are inputs: what they amount to does not change.
LEMMA Fixed ==
  ASSUME UNCHANGED inputs
  PROVE  /\ compares' = compares
         /\ \A ref, status : With(ref, status)' = With(ref, status)
         /\ \A file, ref : Describes(file, ref)' <=> Describes(file, ref)
BY DEF inputs, With, Status, Describes

\* A step of the job that leaves the reports, the shim and the gate alone.
LEMMA QuietStep ==
  ASSUME IInv, UNCHANGED <<inputs, shim, report, gate>>,
         step' \in Steps,
         step' \in Steps \ (Late \cup {"build head"}) => step' = step,
         step' = "build head" => step \in Early,
         step \in Late => step' \in Late /\ ok' = ok,
         step' \notin Late => ok' = TRUE,
         step \notin Late /\ step' \in Late =>
           /\ ok' \in BOOLEAN
           /\ ok' = TRUE => gate.ran /\ ~Objects
           /\ ok' = FALSE /\ gate.ran => Objects
  PROVE  IInv'
<1>1. /\ compares' = compares
      /\ Headed' <=> Headed
      /\ Based' <=> Based
      /\ Found' <=> Found
      /\ Objects' <=> Objects
  <2>1. compares' = compares /\ \A file, ref : Describes(file, ref)' <=> Describes(file, ref)
    BY Fixed
  <2> QED BY <2>1 DEF Headed, Based, Found, NewFailures, Objects
<1>2. Workspace'
  BY <1>1 DEF IInv, Workspace, Steps, Early, Late
<1>3. gate.ran' => step' \in Late \cup {"verdict"}
  BY DEF IInv, Gated, Steps, Early, Late
<1>4. Gated'
  <2>1. gate.ran \/ gate = NoGate
    BY DEF IInv, Gated
  <2>2. gate.ran => Headed /\ Based /\ Found /\ report["head"].counted
                    /\ (compares => report["base"].counted)
    BY DEF IInv, Gated
  <2>3. step' = "verdict" => gate.ran
    BY DEF IInv, Gated, Steps, Late
  <2>4. step' \in Late => /\ ok' \in BOOLEAN
                          /\ ok' = TRUE => gate.ran /\ ~Objects
                          /\ ok' = FALSE /\ gate.ran => Objects
    BY DEF IInv, Gated
  <2> QED BY <1>1, <1>3, <2>1, <2>2, <2>3, <2>4 DEF Gated
<1> QED BY <1>2, <1>4 DEF IInv

LEMMA StepInv ==
  ASSUME IInv, [Next]_vars
  PROVE  IInv'
<1>1. CASE UNCHANGED vars
  <2>1. UNCHANGED <<inputs, shim, report, gate, step, ok>>
    BY <1>1 DEF vars, inputs
  <2>2. step \in Steps /\ (step \notin Late => ok = TRUE)
    BY DEF IInv, Workspace, Gated
  <2> QED BY <2>1, <2>2, QuietStep DEF Early
<1>2. CASE CheckNaming
  <2>1. UNCHANGED <<inputs, shim, report, gate>> /\ step = "naming" /\ ok = TRUE /\ ~gate.ran
    BY <1>2 DEF CheckNaming, IInv, Gated, Late
  <2>2. CASE step' = "build head" /\ UNCHANGED ok
    BY <2>1, <2>2, QuietStep DEF Steps, Early, Late
  <2>3. CASE Fails
    BY <2>1, <2>3, QuietStep DEF Fails, Steps, Early, Late
  <2> QED BY <1>2, <2>2, <2>3 DEF CheckNaming
<1>3. ASSUME NEW ref \in Refs, Build(ref)
      PROVE  IInv'
  <2>1. /\ UNCHANGED <<inputs, report, gate>>
        /\ step = BuildOf[ref]
        /\ \/ shim' = ref /\ step' = RunOf[ref] /\ UNCHANGED ok
           \/ Fails /\ UNCHANGED shim
    BY <1>3 DEF Build
  <2>2. \/ ref = "head" /\ step = "build head" /\ RunOf[ref] = "run head"
        \/ ref = "base" /\ step = "build base" /\ RunOf[ref] = "run base"
    BY <2>1 DEF BuildOf, RunOf, Refs
  <2>3. ok = TRUE /\ ~gate.ran
    BY <2>2 DEF IInv, Gated, Late
  <2>4. /\ compares' = compares
        /\ Headed' <=> Headed
    BY <2>1, Fixed DEF Headed
  <2>5. CASE shim' = ref /\ step' = RunOf[ref] /\ UNCHANGED ok
    <3>1. Workspace'
      BY <2>1, <2>2, <2>4, <2>5 DEF IInv, Workspace, Steps, Early, Late
    <3>2. gate' = gate /\ step' \notin Late \cup {"verdict"} /\ ok' = TRUE
      BY <2>1, <2>2, <2>3, <2>5 DEF Late
    <3>3. Gated'
      BY <2>3, <3>2 DEF IInv, Gated
    <3> QED BY <2>1, <3>1, <3>3 DEF IInv
  <2>6. CASE Fails /\ UNCHANGED shim
    BY <2>1, <2>2, <2>3, <2>6, QuietStep DEF Fails, Steps, Early, Late
  <2> QED BY <2>1, <2>5, <2>6
<1>4. ASSUME NEW ref \in Refs, Run(ref)
      PROVE  IInv'
  <2>1. /\ UNCHANGED <<inputs, shim, gate>>
        /\ ref = "head" => step = "run head"
        /\ ref = "base" => step = "run base"
        /\ ok = TRUE /\ ~gate.ran
        /\ shim = ref /\ DOMAIN report = Refs
    <3>1. UNCHANGED <<inputs, shim, gate>> /\ step = RunOf[ref]
      BY <1>4 DEF Run
    <3>2. \/ ref = "head" /\ step = "run head"
          \/ ref = "base" /\ step = "run base"
      BY <3>1 DEF RunOf, Refs
    <3> QED BY <3>1, <3>2 DEF IInv, Gated, Workspace, Late
  <2>2. PICK file \in {NoFile, Complete} \cup Truncated :
          /\ report' = [report EXCEPT ![ref] = file]
          /\ IF file = NoFile THEN Fails
             ELSE step' = AfterRun(ref) /\ UNCHANGED ok
    BY <1>4 DEF Run
  <2>3. compares' = compares /\ \A f, r : Describes(f, r)' <=> Describes(f, r)
    BY <2>1, Fixed
  <2>4. DOMAIN report' = Refs /\ report'[ref] = file
        /\ \A r \in Refs \ {ref} : report'[r] = report[r]
    BY <2>1, <2>2
  <2>5. CASE file = NoFile
    BY <2>1, <2>2, <2>4, <2>5 DEF IInv, Workspace, Gated, Fails, Steps, Early, Late, RunOf, Refs
  <2>6. CASE file # NoFile
    <3>1. Describes(file, ref)
      BY <2>1, <2>2, <2>6, FilesDescribe
    <3>2. step' = AfterRun(ref) /\ ok' = TRUE
      BY <2>1, <2>2, <2>6
    <3>3. CASE ref = "head"
      <4>1. Headed' /\ report'["base"] = NoFile
        BY <2>1, <2>3, <2>4, <3>1, <3>3 DEF Headed, IInv, Workspace, Early, RunOf, Refs
      <4> QED BY <2>1, <2>3, <2>4, <3>2, <3>3, <4>1
              DEF AfterRun, IInv, Workspace, Gated, Based, Steps, Early, Late
    <3>4. CASE ref = "base"
      <4>1. compares /\ Headed
        BY <2>1, <3>4 DEF IInv, Workspace, RunOf
      <4>2. Headed' /\ Based'
        BY <2>3, <2>4, <3>1, <3>4, <4>1 DEF Headed, Based, Refs
      <4> QED BY <2>1, <2>3, <2>4, <3>2, <3>4, <4>2
              DEF AfterRun, IInv, Workspace, Gated, Steps, Early, Late
    <3> QED BY <3>3, <3>4 DEF Refs
  <2> QED BY <2>5, <2>6
<1>5. CASE Gate
  <2>1. /\ UNCHANGED <<inputs, shim, report>>
        /\ step = "gate" /\ ok = TRUE /\ ~gate.ran /\ Headed /\ Based
    BY <1>5 DEF Gate, IInv, Gated, Workspace, Late
  <2>2. CASE Fails /\ UNCHANGED gate
    BY <2>1, <2>2, QuietStep DEF Fails, Steps, Early, Late
  <2>3. CASE /\ report["head"].counted
             /\ report["base"] # NoFile => report["base"].counted
             /\ Found' /\ step' = "verdict" /\ UNCHANGED ok
    <3>1. /\ compares' = compares
          /\ Headed' <=> Headed
          /\ Based' <=> Based
      BY <2>1, Fixed DEF Headed, Based
    <3>2. compares => report["base"].counted
      BY <2>1, <2>3, NothingIsNoRef DEF Based, Refs
    <3>3. gate'.ran
      BY <2>3 DEF Found
    <3>4. Workspace'
      BY <2>1, <2>3, <3>1 DEF IInv, Workspace, Steps, Early, Late
    <3>5. Gated'
      BY <2>1, <2>3, <3>1, <3>2, <3>3 DEF Gated, Late
    <3> QED BY <2>1, <3>4, <3>5 DEF IInv
  <2> QED BY <1>5, <2>2, <2>3 DEF Gate, Found, NewFailures
<1>6. CASE Verdict
  <2>1. /\ UNCHANGED <<inputs, shim, report, gate>>
        /\ step = "verdict" /\ ok = TRUE /\ gate.ran
    BY <1>6 DEF Verdict, IInv, Gated, Late
  <2>2. CASE Objects /\ Fails
    BY <2>1, <2>2, QuietStep DEF Fails, Steps, Early, Late
  <2>3. CASE ~Objects /\ step' = "upload" /\ UNCHANGED ok
    BY <2>1, <2>3, QuietStep DEF Steps, Early, Late
  <2> QED BY <1>6, <2>2, <2>3 DEF Verdict, Objects
<1>7. CASE Upload \/ Look \/ Comment \/ Another
  <2>1. /\ UNCHANGED <<inputs, shim, report, gate, ok>>
        /\ step \in Late /\ step' \in Late
    BY <1>7 DEF Upload, Look, Comment, Another, Late
  <2> QED BY <2>1, QuietStep DEF Steps, Early, Late
<1> QED BY <1>1, <1>2, <1>3, <1>4, <1>5, <1>6, <1>7 DEF Next

\* The workspace holds what the step says, and the gate what it found.
THEOREM Invariance == Spec => []IInv
<1>1. Init => IInv
  BY InitInv
<1>2. IInv /\ [Next]_vars => IInv'
  BY StepInv
<1> QED BY <1>1, <1>2, PTL DEF Spec

\* What the gate compared was written by a build of the revision it names.
LEMMA OwnReports == IInv => ReportsAreOwn
<1> SUFFICES ASSUME IInv, gate.ran, NEW ref \in Compared
             PROVE  report[ref].of = ref
  BY DEF ReportsAreOwn
<1>1. Headed /\ Based
  BY DEF IInv, Gated
<1>2. CASE ref = "head"
  BY <1>1, <1>2 DEF Headed, Describes
<1>3. CASE ref = "base" /\ compares
  BY <1>1, <1>3 DEF Based, Describes
<1> QED BY <1>2, <1>3 DEF Compared, Refs

THEOREM ReportsAreOwnAlways == Spec => []ReportsAreOwn
BY Invariance, OwnReports, PTL

LEMMA CountOfNone ==
  ASSUME NEW ref
  PROVE  /\ IsFiniteSet(With(ref, "FAIL"))
         /\ Cardinality(With(ref, "FAIL")) \in Nat
         /\ Cardinality(With(ref, "FAIL")) = 0 <=> With(ref, "FAIL") = {}
<1>1. With(ref, "FAIL") \subseteq Cases
  BY DEF With
<1>2. IsFiniteSet(With(ref, "FAIL"))
  BY <1>1, CasesAssumption, FS_Subset
<1> QED BY <1>2, FS_EmptySet, FS_CardinalityType

\* What the gate objects to, in terms of the cases themselves. The lists may be
\* short: the head's then names fewer failures, the base's excuses fewer.
LEMMA ObjectionsAreCases ==
  ASSUME IInv, gate.ran
  PROVE  /\ report["head"].whole /\ ~Objects =>
              With("head", "FAIL") \subseteq Known /\ With("head", "XPASS") = {}
         /\ Objects /\ (compares => report["base"].whole) =>
              ~(With("head", "FAIL") \subseteq Known) \/ With("head", "XPASS") # {}
<1>1. /\ Headed /\ Based /\ Found
      /\ report["head"].counted
  BY DEF IInv, Gated
<1>2. /\ gate.stale <=> report["head"].xpassing # {}
      /\ gate.regressed <=> report["base"] # NoFile /\ NewFailures # {}
      /\ gate.strict <=> report["base"] = NoFile /\ report["head"].fails > 0
  BY <1>1 DEF Found
<1>3. /\ report["head"].xpassing \subseteq With("head", "XPASS")
      /\ report["head"].failing \subseteq With("head", "FAIL")
      /\ report["head"].whole => /\ report["head"].xpassing = With("head", "XPASS")
                                 /\ report["head"].failing = With("head", "FAIL")
      /\ report["head"].fails = Cardinality(With("head", "FAIL"))
  BY <1>1 DEF Headed, Describes
<1>4. CASE compares
  <2>1. Describes(report["base"], "base") /\ report["base"] # NoFile
    BY <1>1, <1>4, NothingIsNoRef DEF Based, Refs
  <2>2. /\ report["base"].failing \subseteq Known
        /\ report["base"].whole => report["base"].failing = Known
    BY <1>4, <2>1 DEF Describes, Known
  <2>3. Objects <=> report["head"].failing \ report["base"].failing # {}
                    \/ report["head"].xpassing # {}
    BY <1>2, <2>1 DEF Objects, NewFailures
  <2> QED BY <1>3, <1>4, <2>2, <2>3
<1>5. CASE ~compares
  <2>1. report["base"] = NoFile /\ Known = {}
    BY <1>1, <1>5 DEF Based, Known
  <2>2. report["head"].fails > 0 <=> With("head", "FAIL") # {}
    BY <1>3, CountOfNone
  <2>3. Objects <=> With("head", "FAIL") # {} \/ report["head"].xpassing # {}
    BY <1>2, <2>1, <2>2 DEF Objects
  <2> QED BY <1>3, <2>1, <2>3
<1> QED BY <1>4, <1>5

LEMMA GreenIsSound == IInv => GreenIsNoRegression
<1> SUFFICES ASSUME IInv, Green, report["head"].whole
             PROVE  With("head", "FAIL") \subseteq Known /\ With("head", "XPASS") = {}
  BY DEF GreenIsNoRegression
<1>1. gate.ran /\ ~Objects
  BY DEF IInv, Gated, Green, Late
<1> QED BY <1>1, ObjectionsAreCases

\* A green check, whatever the revisions and the markers, lets no regression by.
THEOREM GreenIsNoRegressionAlways == Spec => []GreenIsNoRegression
BY Invariance, GreenIsSound, PTL

LEMMA RedIsJust == IInv => RedHasAReason
<1> SUFFICES ASSUME IInv, Red, gate.ran, compares => report["base"].whole
             PROVE  ~(With("head", "FAIL") \subseteq Known) \/ With("head", "XPASS") # {}
  BY DEF RedHasAReason
<1>1. Objects
  BY DEF IInv, Gated, Red, Late
<1> QED BY <1>1, ObjectionsAreCases

\* What the gate objects to is a case that fails on the head alone, or a marker
\* the head no longer needs.
THEOREM RedHasAReasonAlways == Spec => []RedHasAReason
BY Invariance, RedIsJust, PTL

-----------------------------------------------------------------------------
\* The comments. As long as no look-up fails: an execution that has found
\* nothing and not yet written beside a comment was overtaken by the writer.
Posted ==
  /\ look \in [Executions -> {"not yet", "nothing", "found", "failed"}]
  /\ comments \in Seq(Executions)
  /\ wrote \subseteq {e \in Executions : look[e] # "not yet"}
  /\ \A e \in Executions : look[e] = "found" => Len(comments) > 0
  /\ (\A e \in Executions : look[e] # "failed") =>
       /\ Len(comments) > 1 => \A e \in Executions : look[e] = "nothing"
       /\ \A e \in Executions \ wrote : Len(comments) > 0 /\ look[e] = "nothing" =>
            \E other \in wrote : look[other] = "nothing"

LEMMA LookPosted ==
  ASSUME Posted, NEW e \in Executions, LookUp(e)
  PROVE  Posted'
<1>1. /\ look[e] = "not yet" /\ UNCHANGED <<wrote, comments>>
      /\ comments \in Seq(Executions) /\ Len(comments) \in Nat
  BY LenProperties DEF LookUp, Posted
<1>2. PICK outcome \in {"failed", IF comments = <<>> THEN "nothing" ELSE "found"} :
        look' = [look EXCEPT ![e] = outcome]
  BY DEF LookUp
<1>3. /\ look' \in [Executions -> {"not yet", "nothing", "found", "failed"}]
      /\ \A d \in Executions : look'[d] = IF d = e THEN outcome ELSE look[d]
  BY <1>2 DEF Posted
<1>4. outcome = "failed" \/ (outcome = "nothing" /\ Len(comments) = 0)
      \/ (outcome = "found" /\ Len(comments) > 0)
  <2>1. CASE comments = <<>>
    BY <1>2, <2>1, EmptySeq
  <2>2. CASE comments # <<>>
    <3>1. Len(comments) \in Nat \ {0}
      BY <1>1, <2>2, EmptySeq
    <3> QED BY <1>2, <2>2, <3>1
  <2> QED BY <2>1, <2>2
<1>5. e \notin wrote
  BY <1>1 DEF Posted
<1>6. CASE outcome = "failed"
  BY <1>1, <1>3, <1>5, <1>6 DEF Posted
<1>7. CASE outcome = "nothing" /\ Len(comments) = 0
  <2>1. wrote' \subseteq {d \in Executions : look'[d] # "not yet"}
    BY <1>1, <1>3, <1>7 DEF Posted
  <2>2. ~(0 > 0) /\ ~(0 > 1)
    OBVIOUS
  <2>3. Len(comments') = 0 /\ \A d \in Executions : look'[d] # "found"
    <3>1. \A d \in Executions : look[d] # "found"
      BY <1>7, <2>2, Zenon DEF Posted
    <3> QED BY <1>1, <1>3, <1>7, <3>1
  <2>4. ~(Len(comments') > 0) /\ ~(Len(comments') > 1) /\ comments' \in Seq(Executions)
    BY <1>1, <2>2, <2>3, Zenon
  <2> QED BY <1>3, <2>1, <2>3, <2>4, Zenon DEF Posted
<1>8. CASE outcome = "found" /\ Len(comments) > 0
  <2>1. (\A d \in Executions : look'[d] # "failed") => \A d \in Executions : look[d] # "failed"
    BY <1>1, <1>3
  <2>2. Len(comments) > 1 => \E d \in Executions : look[d] = "failed"
    BY <1>1 DEF Posted
  <2> QED BY <1>1, <1>3, <1>5, <1>8, <2>1, <2>2 DEF Posted
<1> QED BY <1>4, <1>6, <1>7, <1>8

LEMMA WritePosted ==
  ASSUME Posted, NEW e \in Executions, Write(e)
  PROVE  Posted'
<1>1. /\ look[e] # "not yet" /\ e \notin wrote
      /\ UNCHANGED look /\ wrote' = wrote \cup {e}
  BY DEF Write
<1>2. CASE look[e] = "found"
  <2>1. comments \in Seq(Executions) /\ 1 \in 1 .. Len(comments)
    <3>1. comments \in Seq(Executions) /\ Len(comments) > 0
      BY <1>2 DEF Posted
    <3>2. Len(comments) \in Nat
      BY <3>1, LenProperties
    <3> QED BY <3>1, <3>2
  <2>2. comments' = [comments EXCEPT ![1] = e]
    BY <1>2 DEF Write
  <2>3. comments' \in Seq(Executions) /\ Len(comments') = Len(comments)
    BY <2>1, <2>2, ExceptSeq
  <2> QED BY <1>1, <1>2, <2>3 DEF Posted
<1>3. CASE look[e] # "found"
  <2>1. comments \in Seq(Executions) /\ Len(comments) \in Nat
    BY LenProperties DEF Posted
  <2>2. comments' = Append(comments, e)
    BY <1>3 DEF Write
  <2>3. comments' \in Seq(Executions) /\ Len(comments') = Len(comments) + 1
    BY <2>1, <2>2, AppendProperties
  <2>4. look[e] = "nothing" \/ look[e] = "failed"
    BY <1>1, <1>3 DEF Posted
  <2>5. /\ look \in [Executions -> {"not yet", "nothing", "found", "failed"}]
        /\ wrote' \subseteq {d \in Executions : look[d] # "not yet"}
    BY <1>1 DEF Posted
  <2>6. ASSUME \A d \in Executions : look[d] # "failed"
        PROVE  /\ look[e] = "nothing"
               /\ Len(comments) > 0 => \A d \in Executions : look[d] = "nothing"
    <3>1. look[e] = "nothing"
      BY <2>4, <2>6
    <3>2. Len(comments) > 0 => \E other \in wrote \ {e} : look[other] = "nothing"
      BY <1>1, <2>6, <3>1 DEF Posted
    <3>3. wrote \subseteq Executions
      BY DEF Posted
    <3> QED BY <3>1, <3>2, <3>3 DEF Executions
  <2>7. \A d \in Executions : look[d] = "found" => Len(comments') > 0
    BY <2>1, <2>3
  <2>8. (\A d \in Executions : look[d] # "failed") =>
          /\ Len(comments') > 1 => \A d \in Executions : look[d] = "nothing"
          /\ \E other \in wrote' : look[other] = "nothing"
    <3>1. Len(comments') > 1 => Len(comments) > 0
      BY <2>1, <2>3
    <3> QED BY <1>1, <3>1, <2>6
  <2> QED BY <1>1, <2>3, <2>5, <2>7, <2>8 DEF Posted
<1> QED BY <1>2, <1>3

\* The look-ups and the comments stay as Posted says.
THEOREM CommentInvariance == Spec => []Posted
<1>1. Init => Posted
  <2> SUFFICES ASSUME Init PROVE Posted
    OBVIOUS
  <2>1. comments \in {<<>>, <<"another">>}
    BY DEF Init
  <2>2. /\ comments \in Seq(Executions)
        /\ ~(Len(comments) > 1)
    <3>1. CASE comments = <<>>
      BY <3>1
    <3>2. CASE comments = <<"another">>
      BY <3>2 DEF Executions
    <3> QED BY <2>1, <3>1, <3>2
  <2>3. wrote = {} /\ \A e \in Executions : look[e] = "not yet"
    BY DEF Init
  <2>4. look \in [Executions -> {"not yet", "nothing", "found", "failed"}]
    BY DEF Init
  <2> QED BY <2>2, <2>3, <2>4 DEF Posted, Executions
<1>2. Posted /\ [Next]_vars => Posted'
  <2> SUFFICES ASSUME Posted, [Next]_vars PROVE Posted'
    OBVIOUS
  <2>1. CASE UNCHANGED remote
    BY <2>1 DEF remote, Posted
  <2>2. ASSUME NEW e \in Executions, LookUp(e) \/ Write(e) PROVE Posted'
    BY <2>2, LookPosted, WritePosted
  <2>3. UNCHANGED remote \/ \E e \in Executions : LookUp(e) \/ Write(e)
    BY DEF Next, vars, remote, CheckNaming, Build, Run, Gate, Verdict, Upload, Look, Comment,
           Another, Executions
  <2> QED BY <2>1, <2>2, <2>3
<1> QED BY <1>1, <1>2, PTL DEF Spec

\* The pull request has a second comment only after a failed look-up, or when
\* both executions looked before either wrote.
THEOREM SecondCommentIsARaceAlways == Spec => []SecondCommentIsARace
<1>1. Posted => SecondCommentIsARace
  BY DEF Posted, SecondCommentIsARace
<1> QED BY <1>1, CommentInvariance, PTL

-----------------------------------------------------------------------------
\* Types: what a report says is about the revision whose name it has.
Typed ==
  /\ sdk \in [Refs -> Sdks]
  /\ marked \subseteq Cases
  /\ shim \in Refs \cup {"nothing"}
  /\ \A ref \in Refs : report[ref] = NoFile \/ Describes(report[ref], ref)

LEMMA TypedStep ==
  ASSUME IInv, Typed, [Next]_vars
  PROVE  Typed'
<1>1. UNCHANGED inputs
  BY DEF Next, vars, inputs, CheckNaming, Build, Run, Gate, Verdict, Upload, Look, Comment, Another
<1>2. /\ sdk' \in [Refs -> Sdks] /\ marked' \subseteq Cases
      /\ \A file, ref : Describes(file, ref)' <=> Describes(file, ref)
  BY <1>1, Fixed DEF inputs, Typed
<1>3. CASE UNCHANGED <<shim, report>>
  BY <1>2, <1>3 DEF Typed
<1>4. CASE UNCHANGED report /\ shim' \in Refs
  BY <1>2, <1>4 DEF Typed
<1>5. ASSUME NEW ref \in Refs, Run(ref)
      PROVE  Typed'
  <2>1. PICK file \in {NoFile, Complete} \cup Truncated : report' = [report EXCEPT ![ref] = file]
    BY <1>5 DEF Run
  <2>2. shim' = shim /\ shim = ref
    BY <1>5 DEF Run, RunOf, Refs, IInv, Workspace
  <2>3. file = NoFile \/ Describes(file, ref)
    BY <2>2, FilesDescribe
  <2>4. report'[ref] = file /\ \A r \in Refs \ {ref} : report'[r] = report[r]
    BY <2>1 DEF IInv
  <2> QED BY <1>2, <2>2, <2>3, <2>4 DEF Typed
<1>6. \/ UNCHANGED <<shim, report>> \/ (UNCHANGED report /\ shim' \in Refs)
      \/ \E ref \in Refs : Run(ref)
  BY DEF Next, vars, CheckNaming, Build, Gate, Verdict, Upload, Look, Comment, Another
<1> QED BY <1>3, <1>4, <1>5, <1>6

LEMMA TypesHold == IInv /\ Posted /\ Typed => TypeOK
<1> SUFFICES ASSUME IInv, Posted, Typed PROVE TypeOK
  OBVIOUS
<1>1. ok \in BOOLEAN
  BY DEF IInv, Gated
<1>2. gate \in [ran : BOOLEAN, regressed : BOOLEAN, strict : BOOLEAN, stale : BOOLEAN]
  <2>1. gate = NoGate \/ Found
    BY DEF IInv, Gated
  <2>2. CASE gate = NoGate
    BY <2>2 DEF NoGate
  <2>3. CASE Found
    <3>1. \A a, b, c \in BOOLEAN :
            [ran |-> TRUE, regressed |-> a, strict |-> b, stale |-> c] \in
              [ran : BOOLEAN, regressed : BOOLEAN, strict : BOOLEAN, stale : BOOLEAN]
      OBVIOUS
    <3>2. /\ (report["base"] # NoFile /\ NewFailures # {}) \in BOOLEAN
          /\ (report["base"] = NoFile /\ report["head"].fails > 0) \in BOOLEAN
          /\ (report["head"].xpassing # {}) \in BOOLEAN
      OBVIOUS
    <3> QED BY <2>3, <3>1, <3>2, Zenon DEF Found
  <2> QED BY <2>1, <2>2, <2>3
<1>3. ASSUME NEW ref \in Refs
      PROVE  /\ report[ref].of \in Refs \cup {"nothing"}
             /\ report[ref].failing \subseteq Cases
             /\ report[ref].xpassing \subseteq Cases
             /\ report[ref].whole => report[ref].counted
             /\ gate.ran /\ report[ref] # NoFile => report[ref].counted
  <2>1. gate.ran /\ report[ref] # NoFile => report[ref].counted
    BY DEF IInv, Gated, Based, Refs
  <2>2. CASE report[ref] = NoFile
    BY <2>2 DEF NoFile
  <2>3. CASE Describes(report[ref], ref)
    BY <2>1, <2>3 DEF Describes, With
  <2> QED BY <2>2, <2>3 DEF Typed
<1> QED BY <1>1, <1>2, <1>3 DEF TypeOK, Typed, Posted

\* The type invariant of the module.
THEOREM TypeOKAlways == Spec => []TypeOK
<1>1. Init => Typed
  BY DEF Init, Typed
<1>2. IInv /\ Typed /\ [Next]_vars => Typed'
  BY TypedStep
<1> QED BY <1>1, <1>2, Invariance, CommentInvariance, TypesHold, PTL DEF Spec

=============================================================================
