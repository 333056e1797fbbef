------------------------ MODULE ComplianceRunProofs ------------------------
(***************************************************************************)
(* ComplianceRun for every list of cases, every selection of SDKs and any  *)
(* answers: each cell is judged on the answer to its own request, adapter  *)
(* failures always fail the run, no marker hides a checkpoint safety key,  *)
(* and exit code 0 means what the report says. Last, that an answer stands *)
(* once it is given, however the requests are divided into batches.        *)
(***************************************************************************)
EXTENDS ComplianceRun, SequenceTheorems, WellFoundedInduction, TLAPS

\* Every SDK has one slot per case.
Slots == \A s \in DOMAIN results : DOMAIN results[s] = Positions

\* The cells and the exit code of a judged run come from the answers it holds.
Verdicts ==
  Judged =>
    /\ cells = [s \in Range(selected) |-> [i \in Positions |-> Cell(s, i)]]
    /\ exit = IF \E s \in Range(selected), i \in Positions : Cell(s, i) \in Failing
              THEN 1 ELSE 0

IInv == Slots /\ OwnAnswer /\ Verdicts

\* Slots filled from a list of replies hold replies to their own requests.
LEMMA PlacedAnswers ==
  ASSUME NEW slots, DOMAIN slots = Positions,
         \A i \in Positions : slots[i].to \in {NoOne, cases[i].id},
         NEW list, NEW replies,
         \A k \in DOMAIN list : replies[k].to \in {NoOne, cases[list[k]].id}
  PROVE  /\ DOMAIN Place(slots, list, replies) = Positions
         /\ \A i \in Positions : Place(slots, list, replies)[i].to \in {NoOne, cases[i].id}
<1>1. DOMAIN Place(slots, list, replies) = Positions
  BY DEF Place
<1>2. ASSUME NEW i \in Positions
      PROVE  Place(slots, list, replies)[i].to \in {NoOne, cases[i].id}
  <2>1. CASE i \in Range(list)
    <3> DEFINE k == CHOOSE j \in DOMAIN list : list[j] = i
    <3>1. k \in DOMAIN list /\ list[k] = i
      BY <2>1 DEF Range
    <3>2. Place(slots, list, replies)[i] = replies[k]
      BY <2>1 DEF Place
    <3> QED BY <3>1, <3>2
  <2>2. CASE i \notin Range(list)
    BY <2>2 DEF Place
  <2> QED BY <2>1, <2>2
<1> QED BY <1>1, <1>2

LEMMA RepliesAnswer ==
  ASSUME NEW list, NEW replies \in Replies(list)
  PROVE  \A k \in DOMAIN list : replies[k].to \in {NoOne, cases[list[k]].id}
BY DEF Replies

\* Filling the slots of the SDK being asked keeps both parts of the invariant.
LEMMA FillKeeps ==
  ASSUME Slots, OwnAnswer, cases' = cases,
         NEW list, NEW replies,
         \A k \in DOMAIN list : replies[k].to \in {NoOne, cases[list[k]].id},
         results' = [results EXCEPT ![Sdk] = Place(@, list, replies)]
  PROVE  Slots' /\ OwnAnswer'
<1>1. DOMAIN results' = DOMAIN results
  OBVIOUS
<1>2. Positions' = Positions
  BY DEF Positions
<1>3. ASSUME NEW s \in DOMAIN results
      PROVE  /\ DOMAIN results'[s] = Positions
             /\ \A i \in Positions : results'[s][i].to \in {NoOne, cases[i].id}
  <2>1. CASE s = Sdk
    <3>1. DOMAIN results[s] = Positions
      BY DEF Slots
    <3>2. \A i \in Positions : results[s][i].to \in {NoOne, cases[i].id}
      BY DEF OwnAnswer
    <3>3. results'[s] = Place(results[s], list, replies)
      BY <2>1
    <3> HIDE DEF Positions
    <3> QED BY <3>1, <3>2, <3>3, PlacedAnswers
  <2>2. CASE s # Sdk
    BY <2>2 DEF Slots, OwnAnswer
  <2> QED BY <2>1, <2>2
<1> QED BY <1>1, <1>2, <1>3 DEF Slots, OwnAnswer

LEMMA InitInv == Init => IInv
BY DEF Init, IInv, Slots, OwnAnswer, Verdicts, Judged

LEMMA StepInv ==
  ASSUME IInv, [Next]_vars
  PROVE  IInv'
<1> USE DEF IInv
<1>1. CASE UNCHANGED vars
  BY <1>1 DEF vars, Slots, OwnAnswer, Verdicts, Judged, Cell, Positions
<1>2. CASE Load
  <2>1. Slots' /\ OwnAnswer'
    BY <1>2 DEF Load, Slots, OwnAnswer, Positions, Unanswered
  <2>2. ~Judged'
    BY <1>2 DEF Load, Judged
  <2> QED BY <2>1, <2>2 DEF Verdicts
<1>3. CASE Answered
  <2>1. PICK replies \in Replies(Batch) :
          results' = [results EXCEPT ![Sdk] = Place(@, Batch, replies)]
    BY <1>3 DEF Answered
  <2>2. Slots' /\ OwnAnswer'
    <3>1. cases' = cases
      BY <1>3 DEF Answered
    <3> QED BY <2>1, <3>1, RepliesAnswer, FillKeeps
  <2>3. ~Judged'
    BY <1>3 DEF Answered, AfterBatch, Judged
  <2> QED BY <2>2, <2>3 DEF Verdicts
<1>4. CASE ChildFails
  <2>1. cases' = cases
    BY <1>4 DEF ChildFails
  <2>2. Slots' /\ OwnAnswer'
    <3>1. CASE results' = [results EXCEPT ![Sdk] =
                             Place(@, Batch, [k \in DOMAIN Batch |-> Synthesised])]
      <4> DEFINE replies == [k \in DOMAIN Batch |-> Synthesised]
      <4>1. \A k \in DOMAIN Batch : replies[k].to \in {NoOne, cases[Batch[k]].id}
        BY DEF Synthesised
      <4> HIDE DEF replies
      <4> QED BY <2>1, <3>1, <4>1, FillKeeps DEF replies
    <3>2. CASE UNCHANGED results
      BY <2>1, <3>2 DEF Slots, OwnAnswer, Positions
    <3> QED BY <1>4, <3>1, <3>2 DEF ChildFails
  <2>3. ~Judged'
    BY <1>4 DEF ChildFails, AfterBatch, Judged
  <2> QED BY <2>2, <2>3 DEF Verdicts
<1>5. CASE Bridge
  <2>1. cases' = cases
    BY <1>5 DEF Bridge
  <2>2. Slots' /\ OwnAnswer'
    <3>1. CASE \E replies \in Replies(Bridged) :
                 results' = [results EXCEPT ![Sdk] = Place(@, Bridged, replies)]
      BY <2>1, <3>1, RepliesAnswer, FillKeeps
    <3>2. CASE results' = [results EXCEPT ![Sdk] =
                             Place(@, Bridged, [k \in DOMAIN Bridged |-> Synthesised])]
      <4> DEFINE replies == [k \in DOMAIN Bridged |-> Synthesised]
      <4>1. \A k \in DOMAIN Bridged : replies[k].to \in {NoOne, cases[Bridged[k]].id}
        BY DEF Synthesised
      <4> HIDE DEF replies
      <4> QED BY <2>1, <3>2, <4>1, FillKeeps DEF replies
    <3>3. CASE UNCHANGED results
      BY <2>1, <3>3 DEF Slots, OwnAnswer, Positions
    <3> QED BY <1>5, <3>1, <3>2, <3>3 DEF Bridge
  <2>3. ~Judged'
    BY <1>5 DEF Bridge, Judged
  <2> QED BY <2>2, <2>3 DEF Verdicts
<1>6. CASE NextSdk
  <2>1. Slots' /\ OwnAnswer'
    BY <1>6 DEF NextSdk, Slots, OwnAnswer, Positions
  <2>2. ~Judged'
    BY <1>6 DEF NextSdk, Judged
  <2> QED BY <2>1, <2>2 DEF Verdicts
<1>7. CASE Evaluate
  <2>1. Slots' /\ OwnAnswer'
    BY <1>7 DEF Evaluate, Slots, OwnAnswer, Positions
  <2>2. \A s, i : Cell(s, i)' = Cell(s, i)
    BY <1>7 DEF Evaluate, Cell
  <2>3. selected' = selected /\ Positions' = Positions /\ Failing' = Failing
    BY <1>7 DEF Evaluate, Positions, Failing
  <2>4. cells' = [s \in Range(selected) |-> [i \in Positions |-> Cell(s, i)]]
    BY <1>7 DEF Evaluate
  <2>5. exit' = IF \E s \in Range(selected), i \in Positions : Cell(s, i) \in Failing
                THEN 1 ELSE 0
    BY <1>7 DEF Evaluate
  <2>6. Verdicts'
    BY <2>2, <2>3, <2>4, <2>5 DEF Verdicts
  <2> QED BY <2>1, <2>6
<1> QED BY <1>1, <1>2, <1>3, <1>4, <1>5, <1>6, <1>7 DEF Next

\* The inductive invariant: slots, owners and, once judged, the verdicts.
THEOREM Invariance == Spec => []IInv
<1>1. Init => IInv
  BY InitInv
<1>2. IInv /\ [Next]_vars => IInv'
  BY StepInv
<1> QED BY <1>1, <1>2, PTL DEF Spec

-----------------------------------------------------------------------------
(* The properties.                                                         *)

\* Every cell is judged on the answer to its own request: the separate children
\* of SubprocessAdapter.run and the bridge pass of verify_go mix nothing up.
THEOREM OwnAnswerHolds == Spec => []OwnAnswer
<1>1. IInv => OwnAnswer
  BY DEF IInv
<1> QED BY <1>1, Invariance, PTL

LEMMA HarnessErrorFails ==
  ASSUME NEW case, NEW sdk, NEW says,
         Get(says, "ok") = "false", Get(says, "error") \in HarnessErrors
  PROVE  Status(case, sdk, Checked(case, says)) = "FAIL"
<1>1. Checked(case, says) = says
  BY DEF Checked, CheckSigned, CheckNegotiated, SignerRefusals, HarnessErrors
<1>2. ~NotExecuted(case, says)
  <2>1. Get(says, "error") # "CapabilityMissing"
    BY DEF HarnessErrors
  <2>2. Get(NotShipped, "error") = "CapabilityMissing"
    BY DEF Get, NotShipped
  <2> QED BY <2>1, <2>2 DEF NotExecuted
<1>3. ~Matches(case, sdk, says)
  BY DEF Matches, FailsClosed, HarnessErrors, Problems
<1>4. ~Excused(case, sdk, says)
  BY DEF Excused
<1> QED BY <1>1, <1>2, <1>3, <1>4 DEF Status

\* An adapter failure fails its case and the run: no expectation of a
\* rejection, no known_bug marker and no fail-closed allowance of
\* evaluate_result turns it into a pass.
THEOREM LossIsVisibleHolds == Spec => []LossIsVisible
<1>1. IInv => LossIsVisible
  <2> SUFFICES ASSUME IInv, Judged,
                      NEW s \in Range(selected), NEW i \in Positions,
                      Get(results[s][i].says, "ok") = "false",
                      Get(results[s][i].says, "error") \in HarnessErrors
               PROVE  cells[s][i] = "FAIL" /\ exit = 1
    BY DEF LossIsVisible
  <2>1. Cell(s, i) = "FAIL"
    BY HarnessErrorFails DEF Cell
  <2> QED BY <2>1 DEF IInv, Verdicts, Failing
<1> QED BY <1>1, Invariance, PTL

\* An answer without problems is the expected one in every field.
LEMMA NoProblems ==
  ASSUME NEW expected, NEW actual, Problems(expected, actual) = {},
         NEW f \in DOMAIN expected
  PROVE  Get(actual, f) = expected[f]
<1>1. Get(actual, "ok") \in {"true", "false"}
  BY DEF Problems
<1>2. Get(actual, "ok") = actual.ok
  BY <1>1 DEF Get, Absent
<1>3. expected.ok = actual.ok /\ Disagree(expected, actual) = {}
  BY <1>1 DEF Problems
<1>4. CASE f = "ok"
  BY <1>2, <1>3, <1>4
<1>5. CASE f # "ok"
  BY <1>3, <1>5 DEF Disagree
<1> QED BY <1>4, <1>5

\* No marker or allowance lets a checkpoint case through whose verdict, error
\* class, stored root, cause or proof request is not the expected one.
THEOREM CheckpointSafetyHolds == Spec => []CheckpointSafetyIsNeverExcused
<1>1. IInv => CheckpointSafetyIsNeverExcused
  <2> SUFFICES ASSUME IInv, Judged,
                      NEW s \in Range(selected), NEW i \in Positions,
                      cases[i].op = "c2sp_checkpoint_vector",
                      cells[s][i] \notin {"FAIL", "MISSING"},
                      NEW f \in DOMAIN Expected(cases[i], s) \cap SafetyKeys
               PROVE  Get(results[s][i].says, f) = Expected(cases[i], s)[f]
    BY DEF CheckpointSafetyIsNeverExcused
  <2> DEFINE says == results[s][i].says
             safe == OnlySafetyKeys(Expected(cases[i], s))
  <2>1. Cell(s, i) \notin {"FAIL", "MISSING"}
    BY DEF IInv, Verdicts
  <2>2. Checked(cases[i], says) = says
    BY DEF Checked
  <2>3. ~Unsafe(cases[i], s, says)
    BY <2>1, <2>2 DEF Cell, Status
  <2>4. Problems(safe, says) = {}
    BY <2>3 DEF Unsafe
  <2>5. f \in DOMAIN safe /\ safe[f] = Expected(cases[i], s)[f]
    BY DEF OnlySafetyKeys
  <2> HIDE DEF safe, says
  <2>6. Get(says, f) = safe[f]
    BY <2>4, <2>5, NoProblems
  <2> QED BY <2>5, <2>6 DEF says
<1> QED BY <1>1, Invariance, PTL

\* Exit code 0: every answer that was executed is the expected one, or a
\* rejection or deviation the case allows for that SDK.
THEOREM GreenMeansConformantHolds == Spec => []GreenMeansConformant
<1>1. IInv => GreenMeansConformant
  <2> SUFFICES ASSUME IInv, Judged, exit = 0,
                      NEW s \in Range(selected), NEW i \in Positions
               PROVE  LET answer == Checked(cases[i], results[s][i].says) IN
                      \/ \A f \in DOMAIN Expected(cases[i], s) :
                           Get(answer, f) = Expected(cases[i], s)[f]
                      \/ cases[i].op = "wba_verify_request" /\ answer = NotShipped
                      \/ /\ Get(answer, "error") = "CapabilityMissing"
                         /\ Get(answer, "capability") \in OptionalCapabilities
                      \/ /\ cases[i].failClosed /\ Get(answer, "ok") = "false"
                         /\ Get(answer, "error") = "LifecycleError"
                      \/ /\ s \in cases[i].knownBug \cap cases[i].supported
                         /\ Get(answer, "error") \notin HarnessErrors
    BY DEF GreenMeansConformant
  <2> DEFINE answer == Checked(cases[i], results[s][i].says)
  <2>1. Status(cases[i], s, answer) \notin Failing
    BY DEF IInv, Verdicts, Cell
  <2> HIDE DEF answer
  <2>2. CASE NotExecuted(cases[i], answer)
    BY <2>2 DEF NotExecuted, answer
  <2>3. CASE FailsClosed(cases[i], answer)
    BY <2>3 DEF FailsClosed, answer
  <2>4. CASE Problems(Expected(cases[i], s), answer) = {}
    <3>1. \A f \in DOMAIN Expected(cases[i], s) : Get(answer, f) = Expected(cases[i], s)[f]
      BY <2>4, NoProblems
    <3> QED BY <3>1 DEF answer
  <2>5. CASE ~NotExecuted(cases[i], answer) /\ ~Matches(cases[i], s, answer)
    <3>1. Excused(cases[i], s, answer)
      BY <2>1, <2>5 DEF Status, Failing
    <3> QED BY <3>1 DEF Excused, KnownBug, Gated, answer
  <2> QED BY <2>2, <2>3, <2>4, <2>5 DEF Matches
<1> QED BY <1>1, Invariance, PTL
-----------------------------------------------------------------------------
(* The positions in a set, in order: induction over the recursion of       *)
(* InOrder, with the property of the numbers reached as a set.             *)

\* A set of numbers that is not empty has a least element.
LEMMA LeastNumber ==
  ASSUME NEW S, S \subseteq Nat, S # {}
  PROVE  \E x \in S : \A y \in S : x <= y
<1> DEFINE R == OpToRel(<, Nat)
<1>1. IsWellFoundedOn(R, Nat)
  BY NatLessThanWellFounded
<1>2. \A x, y \in Nat : x < y => <<x, y>> \in R
  BY DEF OpToRel
<1> HIDE DEF R
<1>3. PICK x \in S : \A y \in S : ~ (<<y, x>> \in R)
  BY <1>1, WFMin, Zenon
<1>4. \A y \in S : ~ (y < x)
  BY <1>2, <1>3
<1> QED
  BY <1>4

\* A set that holds 0 and with each number the next holds them all.
LEMMA Inductive ==
  ASSUME NEW S, 0 \in S, \A n \in Nat : n \in S => n + 1 \in S
  PROVE  Nat \subseteq S
<1> SUFFICES ASSUME Nat \ S # {} PROVE FALSE
  OBVIOUS
<1>1. PICK m \in Nat \ S : \A y \in Nat \ S : m <= y
  BY LeastNumber
<1>2. m # 0 /\ m - 1 \in Nat
  BY <1>1
<1>3. m - 1 \in S
  BY <1>1, <1>2
<1> QED
  BY <1>2, <1>3

\* The recursion of InOrder has a solution.
LEMMA UpToExists ==
  ASSUME NEW set, NEW m \in Nat
  PROVE  \E f : f = [n \in 0 .. m |->
                       IF n = 0 THEN <<>>
                       ELSE Keep(f[n - 1], n, set)]
<1> DEFINE Solves(f, k) ==
             f = [n \in 0 .. k |-> IF n = 0 THEN <<>>
                                   ELSE Keep(f[n - 1], n, set)]
           Solved == {k \in Nat : \E f : Solves(f, k)}
<1>1. 0 \in Solved
  <2> DEFINE f == [n \in 0 .. 0 |-> <<>>]
  <2>1. Solves(f, 0)
    OBVIOUS
  <2> QED
    BY <2>1
<1>2. ASSUME NEW k \in Nat, k \in Solved PROVE k + 1 \in Solved
  <2>1. PICK f : Solves(f, k)
    BY <1>2
  <2> DEFINE more == Keep(f[k], k + 1, set)
             g == [n \in 0 .. k + 1 |-> IF n <= k THEN f[n] ELSE more]
             h == [n \in 0 .. k + 1 |-> IF n = 0 THEN <<>>
                                        ELSE Keep(g[n - 1], n, set)]
  <2>2. ASSUME NEW n \in 0 .. k + 1 PROVE g[n] = h[n]
    <3>1. CASE n = 0
      BY <2>1, <3>1
    <3>2. CASE n \in 1 .. k
      <4>1. f[n] = Keep(f[n - 1], n, set)
        BY <2>1, <3>2
      <4>2. g[n] = f[n] /\ g[n - 1] = f[n - 1]
        BY <3>2
      <4> QED
        BY <3>2, <4>1, <4>2
    <3>3. CASE n = k + 1
      <4>1. g[n] = more /\ g[n - 1] = f[k]
        BY <3>3
      <4> QED
        BY <3>3, <4>1
    <3> QED
      BY <3>1, <3>2, <3>3
  <2>3. g = h
    <3> HIDE DEF Solved
    <3> QED
      BY <2>2
  <2>4. Solves(g, k + 1)
    BY <2>3
  <2> HIDE DEF Solves, g, h
  <2> QED
    BY <2>4
<1> HIDE DEF Solved
<1>3. m \in Solved
  BY <1>1, <1>2, Inductive
<1> QED
  BY <1>3 DEF Solved

\* It lists members of the set, none twice.
LEMMA InOrderLists ==
  ASSUME NEW set, Len(cases) \in Nat
  PROVE  /\ InOrder(set) \in Seq(set)
         /\ IsInjective(InOrder(set))
<1> DEFINE m == Len(cases)
<1>1. PICK f : f = [n \in 0 .. m |->
                       IF n = 0 THEN <<>>
                       ELSE Keep(f[n - 1], n, set)]
  BY UpToExists
<1>2. PICK upTo : /\ upTo = [n \in 0 .. m |->
                              IF n = 0 THEN <<>>
                              ELSE Keep(upTo[n - 1], n, set)]
                  /\ InOrder(set) = upTo[m]
  <2> DEFINE up == CHOOSE g : g = [n \in 0 .. m |->
                              IF n = 0 THEN <<>>
                              ELSE Keep(g[n - 1], n, set)]
  <2>1. InOrder(set) = up[m]
    BY DEF InOrder
  <2>2. up = [n \in 0 .. m |->
                 IF n = 0 THEN <<>>
                 ELSE Keep(up[n - 1], n, set)]
    BY <1>1
  <2> HIDE DEF up
  <2> QED
    BY <2>1, <2>2
<1> HIDE DEF m
<1> DEFINE Listed == {n \in Nat : n <= m => /\ upTo[n] \in Seq(set \cap 1 .. n)
                                            /\ IsInjective(upTo[n])}
<1>3. m \in Nat
  BY DEF m
<1>4. upTo[0] = <<>>
  BY <1>2, <1>3
<1>5. 0 \in Listed
  <2>1. upTo[0] \in Seq(set \cap 1 .. 0) /\ DOMAIN upTo[0] = {}
    BY <1>4
  <2>2. IsInjective(upTo[0])
    BY <2>1 DEF IsInjective
  <2> QED
    BY <2>1, <2>2
<1>6. ASSUME NEW n \in Nat, n \in Listed PROVE n + 1 \in Listed
  <2> SUFFICES ASSUME n + 1 <= m
               PROVE  upTo[n + 1] \in Seq(set \cap 1 .. n + 1) /\ IsInjective(upTo[n + 1])
    BY <1>6
  <2>1. upTo[n] \in Seq(set \cap 1 .. n) /\ IsInjective(upTo[n])
    BY <1>3, <1>6
  <2>2. upTo[n + 1] = Keep(upTo[n], n + 1, set)
    BY <1>2, <1>3
  <2> DEFINE before == upTo[n]
  <2> HIDE DEF before, Listed
  <2>3. before \in Seq(set \cap 1 .. n + 1)
    BY <2>1 DEF before
  <2>4. \A k \in DOMAIN before : before[k] \in 1 .. n
    BY <2>1 DEF before
  <2>5. CASE n + 1 \in set
    <3>1. upTo[n + 1] = Append(before, n + 1)
      BY <2>2, <2>5 DEF before, Keep
    <3>2. Append(before, n + 1) \in Seq(set \cap 1 .. n + 1)
      BY <2>3, <2>5
    <3>3. IsInjective(Append(before, n + 1))
      BY <2>1, <2>3, <2>4 DEF IsInjective, before
    <3> QED
      BY <3>1, <3>2, <3>3
  <2>6. CASE n + 1 \notin set
    BY <2>1, <2>2, <2>3, <2>6 DEF before, Keep
  <2> QED
    BY <2>5, <2>6
<1>7. m \in Listed
  <2> HIDE DEF Listed
  <2> QED
    BY <1>3, <1>5, <1>6, Inductive
<1> QED
  BY <1>2, <1>3, <1>7
-----------------------------------------------------------------------------
(* Answers are kept.                                                       *)

\* Batches that an SDK can be asked one after the other: at least one, and no
\* position in two of them.
Apart(batches) ==
  /\ batches \in Seq(Seq(Nat)) /\ batches # <<>>
  /\ \A a, b \in DOMAIN batches : a # b => Range(batches[a]) \cap Range(batches[b]) = {}

\* The requests of SubprocessAdapter.run are divided, not duplicated.
LEMMA BatchesApart ==
  ASSUME cases \in Seq(Range(cases)), NEW sdk
  PROVE  Apart(Batches(sdk))
<1> DEFINE natives == {i \in Positions : IsNative(i)}
           ordinaries == {i \in Positions : ~IsNative(i)}
<1>1. natives \subseteq Nat /\ ordinaries \subseteq Nat /\ natives \cap ordinaries = {}
  BY DEF Positions
<1>2. /\ Native \in Seq(natives) /\ IsInjective(Native)
      /\ Ordinary \in Seq(ordinaries)
  BY InOrderLists DEF Native, Ordinary
<1> HIDE DEF natives, ordinaries
<1>3. CASE ~Isolates(sdk)
  <2>1. All \in Seq(Nat)
    BY DEF All, Positions
  <2>2. Batches(sdk) = <<All>>
    BY <1>3 DEF Batches
  <2> QED
    BY <2>1, <2>2 DEF Apart
<1>4. CASE Isolates(sdk)
  <2> DEFINE singles == [k \in DOMAIN Native |-> <<Native[k]>>]
  <2>1. /\ singles \in Seq(Seq(Nat)) /\ Len(singles) > 0
        /\ DOMAIN singles = DOMAIN Native
        /\ \A k \in DOMAIN singles : singles[k] = <<Native[k]>>
    <3>1. Native \in Seq(Nat) /\ Native # <<>>
      BY <1>1, <1>2, <1>4, SeqMonotonic DEF Isolates
    <3>2. \A k \in 1 .. Len(Native) : <<Native[k]>> \in Seq(Nat)
      BY <3>1
    <3>3. singles \in [1 .. Len(Native) -> Seq(Nat)]
      BY <3>1, <3>2
    <3>4. Len(Native) \in Nat /\ Len(Native) > 0
      BY <3>1
    <3> QED
      BY <3>1, <3>3, <3>4
  <2>2. \A k \in DOMAIN singles : Range(singles[k]) = {Native[k]}
    BY <2>1 DEF Range
  <2> HIDE DEF singles
  <2>3. \A a, b \in DOMAIN singles : a # b => Range(singles[a]) \cap Range(singles[b]) = {}
    BY <1>2, <2>1, <2>2 DEF IsInjective
  <2>4. CASE Ordinary = <<>>
    <3>1. Batches(sdk) = <<>> \o singles
      BY <1>4, <2>4 DEF Batches, singles
    <3>2. Batches(sdk) = singles
      BY <2>1, <3>1
    <3> QED
      BY <2>1, <2>3, <3>2 DEF Apart
  <2>5. CASE Ordinary # <<>>
    <3> DEFINE all == <<Ordinary>> \o singles
    <3>1. Batches(sdk) = all
      BY <1>4, <2>5 DEF Batches, singles
    <3>2. Ordinary \in Seq(Nat)
      BY <1>1, <1>2, SeqMonotonic
    <3>3. /\ all \in Seq(Seq(Nat)) /\ Len(all) = Len(singles) + 1 /\ all[1] = Ordinary
          /\ \A a \in DOMAIN all : a # 1 => a - 1 \in DOMAIN singles /\ all[a] = singles[a - 1]
      <4>1. <<Ordinary>> \in Seq(Seq(Nat)) /\ Len(<<Ordinary>>) = 1
        BY <3>2
      <4>2. all \in Seq(Seq(Nat)) /\ Len(all) = Len(singles) + 1
        BY <2>1, <4>1, ConcatProperties
      <4>3. all[1] = Ordinary
        BY <2>1, <4>1, ConcatProperties
      <4>4. ASSUME NEW a \in DOMAIN all, a # 1
            PROVE  a - 1 \in DOMAIN singles /\ all[a] = singles[a - 1]
        <5>1. a \in 1 .. Len(singles) + 1 /\ a > 1
          BY <4>2, <4>4
        <5>2. all[a] = singles[a - 1]
          BY <2>1, <4>1, <5>1, ConcatProperties
        <5> QED
          BY <2>1, <5>1, <5>2
      <4> QED
        BY <4>2, <4>3, <4>4
    <3> HIDE DEF all
    <3>4. ASSUME NEW a \in DOMAIN all, a # 1 PROVE Range(all[a]) \cap Range(all[1]) = {}
      <4>1. Range(all[a]) = {Native[a - 1]} /\ a - 1 \in DOMAIN Native
        BY <2>1, <2>2, <3>3, <3>4
      <4>2. Native[a - 1] \in natives
        BY <1>2, <4>1
      <4>3. Range(Ordinary) \subseteq ordinaries
        BY <1>2 DEF Range
      <4> QED
        BY <1>1, <3>3, <4>1, <4>2, <4>3
    <3>5. ASSUME NEW a \in DOMAIN all, NEW b \in DOMAIN all, a # b
          PROVE  Range(all[a]) \cap Range(all[b]) = {}
      <4>1. CASE a = 1 \/ b = 1
        BY <3>4, <3>5, <4>1
      <4>2. CASE a # 1 /\ b # 1
        <5>1. a - 1 # b - 1
          BY <3>3, <3>5
        <5> QED
          BY <2>3, <3>3, <4>2, <5>1
      <4> QED
        BY <4>1, <4>2
    <3>6. all # <<>>
      BY <2>1, <3>3
    <3> QED
      BY <3>1, <3>3, <3>5, <3>6 DEF Apart
  <2> QED
    BY <2>4, <2>5
<1> QED
  BY <1>3, <1>4

\* The cases and the SDKs are those of a run, and what is still to be asked is
\* still unanswered: the batches left for the SDK being asked, and everything
\* of the SDKs after it.
Given == cases \in Suites /\ selected \in Selections

Begun == phase = "load" => turn = 1 /\ DOMAIN results = {}

Ahead ==
  phase \in {"ask", "bridge", "next"} =>
    /\ turn \in DOMAIN selected
    /\ DOMAIN results = Range(selected)
    /\ \A t \in DOMAIN selected :
         t > turn => \A i \in Positions : results[selected[t]][i] = Unanswered

Outstanding ==
  phase = "ask" =>
    /\ Apart(todo)
    /\ \A b \in DOMAIN todo : \A i \in Positions \cap Range(todo[b]) :
         results[Sdk][i] = Unanswered

AskInv == Given /\ Slots /\ Begun /\ Ahead /\ Outstanding

\* What ListsAssumption says of them.
LEMMA GivenLists ==
  ASSUME Given
  PROVE  /\ cases \in Seq(Range(cases))
         /\ selected \in Seq(Range(selected)) /\ IsInjective(selected)
BY ListsAssumption DEF Given

\* A slot that is not listed is not filled.
LEMMA PlaceElsewhere ==
  ASSUME NEW slots, NEW list, NEW replies, NEW i \in DOMAIN slots, i \notin Range(list)
  PROVE  Place(slots, list, replies)[i] = slots[i]
BY DEF Place

\* What follows the first of several.
LEMMA MoreToDo ==
  ASSUME NEW S, NEW s \in Seq(S), s # <<>>, Len(s) # 1
  PROVE  /\ Tail(s) \in Seq(S) /\ Tail(s) # <<>>
         /\ \A b \in DOMAIN Tail(s) : b + 1 \in DOMAIN s /\ Tail(s)[b] = s[b + 1]
<1>1. Len(s) \in Nat /\ Len(s) > 1
  <2>1. PICK n : n = Len(s)
    OBVIOUS
  <2>2. n \in Nat \ {0, 1}
    BY <2>1, EmptySeq
  <2>3. n > 1
    BY <2>2
  <2> QED
    BY <2>1, <2>2, <2>3, Zenon
<1>2. Tail(s) \in Seq(S) /\ Len(Tail(s)) = Len(s) - 1
  BY HeadTailProperties
<1>3. \A b \in 1 .. Len(Tail(s)) : Tail(s)[b] = s[b + 1]
  BY HeadTailProperties
<1> QED
  BY <1>1, <1>2, <1>3

\* The batch at hand is dealt with: the next one, if any, is still unanswered.
LEMMA BatchDone ==
  ASSUME AskInv, phase = "ask",
         NEW replies, results' = [results EXCEPT ![Sdk] = Place(@, Batch, replies)],
         todo' = Tail(todo), phase' = AfterBatch, UNCHANGED <<cases, selected, turn>>,
         Slots'
  PROVE  AskInv'
<1>1. /\ turn \in DOMAIN selected /\ DOMAIN results = Range(selected)
      /\ \A t \in DOMAIN selected :
           t > turn => \A i \in Positions : results[selected[t]][i] = Unanswered
      /\ Apart(todo)
      /\ \A b \in DOMAIN todo : \A i \in Positions \cap Range(todo[b]) :
           results[Sdk][i] = Unanswered
  BY DEF AskInv, Ahead, Outstanding
<1>2. selected \in Seq(Range(selected)) /\ IsInjective(selected)
  BY GivenLists DEF AskInv
<1>3. Positions' = Positions /\ Sdk' = Sdk /\ DOMAIN results' = DOMAIN results
  BY DEF Positions, Sdk
<1>4. Given' /\ Begun'
  BY DEF AskInv, Given, Begun, AfterBatch
<1>5. Ahead'
  <2>1. \A t \in DOMAIN selected : t > turn => selected[t] # Sdk
    BY <1>1, <1>2 DEF IsInjective, Sdk
  <2>2. \A s : s # Sdk => results'[s] = results[s]
    OBVIOUS
  <2>3. \A t \in DOMAIN selected :
           t > turn => \A i \in Positions : results'[selected[t]][i] = Unanswered
    BY <1>1, <2>1, <2>2
  <2> QED
    BY <1>1, <1>3, <2>3 DEF Ahead
<1>6. Outstanding'
  <2> SUFFICES ASSUME Len(todo) # 1
               PROVE  /\ Apart(todo')
                      /\ \A b \in DOMAIN todo' : \A i \in Positions \cap Range(todo'[b]) :
                           results'[Sdk][i] = Unanswered
    <3>1. phase' = "ask" => Len(todo) # 1
      BY DEF AfterBatch
    <3>2. Outstanding' <=> (phase' = "ask" =>
                              /\ Apart(todo')
                              /\ \A b \in DOMAIN todo' : \A i \in Positions \cap Range(todo'[b]) :
                                   results'[Sdk][i] = Unanswered)
      BY <1>3 DEF Outstanding, Apart
    <3> QED
      BY <3>1, <3>2
  <2>1. /\ todo \in Seq(Seq(Nat)) /\ todo # <<>>
        /\ \A a, b \in DOMAIN todo : a # b => Range(todo[a]) \cap Range(todo[b]) = {}
    BY <1>1 DEF Apart
  <2>2. /\ todo' \in Seq(Seq(Nat)) /\ todo' # <<>>
        /\ \A b \in DOMAIN todo' : b + 1 \in DOMAIN todo /\ todo'[b] = todo[b + 1]
    BY <2>1, MoreToDo
  <2>3. \A a, b \in DOMAIN todo' : a # b => a + 1 # b + 1
    BY <2>2
  <2>4. Apart(todo')
    BY <2>1, <2>2, <2>3 DEF Apart
  <2>5. Batch = todo[1] /\ 1 \in DOMAIN todo
    BY <2>1 DEF Batch
  <2>6. ASSUME NEW b \in DOMAIN todo', NEW i \in Positions \cap Range(todo'[b])
        PROVE  results'[Sdk][i] = Unanswered
    <3>1. i \in Range(todo[b + 1]) /\ b + 1 \in DOMAIN todo /\ b + 1 # 1
      BY <2>2
    <3>2. i \notin Range(Batch)
      BY <2>1, <2>5, <3>1
    <3>3. Sdk \in DOMAIN results
      BY <1>1 DEF Sdk, Range
    <3>4. DOMAIN results[Sdk] = Positions
      BY <3>3 DEF AskInv, Slots
    <3>5. results'[Sdk][i] = results[Sdk][i]
      BY <3>2, <3>3, <3>4, PlaceElsewhere
    <3> QED
      BY <1>1, <3>1, <3>5
  <2> QED
    BY <2>4, <2>6
<1> QED
  BY <1>4, <1>5, <1>6 DEF AskInv

\* Every step keeps it: an SDK that is turned to has answered nothing yet.
LEMMA AskStep ==
  ASSUME AskInv, [Next]_vars, Slots'
  PROVE  AskInv'
<1> USE DEF AskInv
<1>0. /\ cases \in Seq(Range(cases))
      /\ selected \in Seq(Range(selected)) /\ IsInjective(selected)
  BY GivenLists
<1>1. CASE UNCHANGED vars
  BY <1>1 DEF vars, Given, Begun, Ahead, Outstanding, Apart, Positions, Sdk
<1>2. CASE Load
  <2>1. Given' /\ Begun' /\ Sdk' = Sdk /\ Positions' = Positions
    BY <1>2 DEF Load, Given, Begun, Sdk, Positions
  <2>2. CASE phase' = "ask"
    <3>1. /\ selected # <<>> /\ turn = 1 /\ turn' = 1 /\ selected' = selected
          /\ todo' = Batches(Sdk)
          /\ results' = [s \in Range(selected) |-> [i \in Positions |-> Unanswered]]
      BY <1>2, <2>2 DEF Load, Begun
    <3>2. 1 \in DOMAIN selected
      BY <1>0, <3>1
    <3>3. \A t \in DOMAIN selected : selected[t] \in Range(selected)
      BY DEF Range
    <3>4. Ahead'
      BY <2>1, <3>1, <3>2, <3>3 DEF Ahead
    <3>5. Apart(todo')
      BY <1>0, <3>1, BatchesApart
    <3>6. Sdk \in Range(selected)
      BY <3>1, <3>2, <3>3 DEF Sdk
    <3>7. Outstanding'
      BY <2>1, <3>1, <3>5, <3>6 DEF Outstanding, Apart
    <3> QED
      BY <2>1, <3>4, <3>7
  <2>3. CASE phase' # "ask"
    <3>1. phase' \in {"done", "aborted", "evaluate"}
      BY <1>2, <2>3 DEF Load
    <3> QED
      BY <2>1, <3>1 DEF Ahead, Outstanding
  <2> QED
    BY <2>2, <2>3
<1>3. CASE Answered
  <2>1. PICK replies : results' = [results EXCEPT ![Sdk] = Place(@, Batch, replies)]
    BY <1>3 DEF Answered
  <2> QED
    BY <1>3, <2>1, BatchDone DEF Answered
<1>4. CASE ChildFails
  <2>1. CASE phase' = "aborted"
    BY <1>4, <2>1 DEF ChildFails, Given, Begun, Ahead, Outstanding
  <2>2. CASE phase' # "aborted"
    BY <1>4, <2>2, BatchDone DEF ChildFails
  <2> QED
    BY <2>1, <2>2
<1>5. CASE Bridge
  <2>1. Given' /\ Begun' /\ Outstanding'
    BY <1>5 DEF Bridge, Given, Begun, Outstanding
  <2>2. Ahead'
    <3>1. CASE phase' = "aborted"
      BY <3>1 DEF Ahead
    <3>2. CASE phase' # "aborted"
      <4>1. PICK replies : results' = [results EXCEPT ![Sdk] = Place(@, Bridged, replies)]
        BY <1>5, <3>2 DEF Bridge
      <4>2. /\ turn \in DOMAIN selected /\ DOMAIN results = Range(selected)
            /\ \A t \in DOMAIN selected :
                 t > turn => \A i \in Positions : results[selected[t]][i] = Unanswered
        BY <1>5 DEF Bridge, Ahead
      <4>3. \A t \in DOMAIN selected : t > turn => selected[t] # Sdk
        BY <1>0, <4>2 DEF IsInjective, Sdk
      <4>4. \A s : s # Sdk => results'[s] = results[s]
        BY <4>1
      <4>5. Positions' = Positions /\ selected' = selected /\ turn' = turn
        BY <1>5 DEF Bridge, Positions
      <4>6. DOMAIN results' = DOMAIN results
        BY <4>1
      <4> QED
        BY <4>2, <4>3, <4>4, <4>5, <4>6 DEF Ahead
    <3> QED
      BY <3>1, <3>2
  <2> QED
    BY <2>1, <2>2
<1>6. CASE NextSdk
  <2>1. /\ turn \in DOMAIN selected /\ DOMAIN results = Range(selected)
        /\ \A t \in DOMAIN selected :
             t > turn => \A i \in Positions : results[selected[t]][i] = Unanswered
    BY <1>6 DEF NextSdk, Ahead
  <2>2. Given' /\ Begun' /\ Positions' = Positions /\ selected' = selected /\ results' = results
    BY <1>6 DEF NextSdk, Given, Begun, Positions
  <2>3. CASE turn < Len(selected)
    <3>1. turn' = turn + 1 /\ todo' = Batches(selected[turn + 1])
      BY <1>6, <2>3 DEF NextSdk
    <3>2. turn + 1 \in DOMAIN selected /\ turn + 1 > turn
      BY <1>0, <2>1, <2>3
    <3>3. \A t \in DOMAIN selected : t > turn + 1 => t > turn
      BY <1>0, <2>1
    <3>4. Ahead'
      BY <2>1, <2>2, <3>1, <3>2, <3>3 DEF Ahead
    <3>5. Apart(todo')
      BY <1>0, <3>1, BatchesApart
    <3>6. Sdk' = selected[turn + 1]
      BY <2>2, <3>1 DEF Sdk
    <3>7. \A i \in Positions : results'[Sdk'][i] = Unanswered
      BY <2>1, <2>2, <3>2, <3>6
    <3>8. Outstanding'
      BY <2>2, <3>5, <3>7 DEF Outstanding, Apart
    <3> QED
      BY <2>2, <3>4, <3>8
  <2>4. CASE ~(turn < Len(selected))
    BY <1>6, <2>2, <2>4 DEF NextSdk, Ahead, Outstanding
  <2> QED
    BY <2>3, <2>4
<1>7. CASE Evaluate
  BY <1>7 DEF Evaluate, Given, Begun, Ahead, Outstanding
<1> QED
  BY <1>1, <1>2, <1>3, <1>4, <1>5, <1>6, <1>7 DEF Next

\* The inductive invariant: what is to be asked is unanswered.
THEOREM AskInvariance == Spec => []AskInv
<1>1. Init => AskInv
  <2> SUFFICES ASSUME Init PROVE AskInv
    OBVIOUS
  <2>1. DOMAIN results = {}
    BY DEF Init
  <2> QED
    BY <2>1 DEF Init, AskInv, Given, Slots, Begun, Ahead, Outstanding
<1>2. IInv => Slots
  BY DEF IInv
<1>3. AskInv /\ Slots' /\ [Next]_vars => AskInv'
  BY AskStep
<1> QED
  BY <1>1, <1>2, <1>3, Invariance, PTL DEF Spec

\* What AnswersAreKept says of one step.
Kept ==
  \A s \in DOMAIN results, i \in Positions :
    \/ results[s][i] = Unanswered
    \/ s = "go" /\ IsNative(i) /\ Get(results[s][i].says, "error") = "NativeAdapterRequired"
    \/ results'[s][i] = results[s][i]

\* Filling the slots of a list changes the slots of the list.
LEMMA OnlyListed ==
  ASSUME Slots, NEW list, NEW replies,
         results' = [results EXCEPT ![Sdk] = Place(@, list, replies)],
         NEW s \in DOMAIN results, NEW i \in Positions,
         results'[s][i] # results[s][i]
  PROVE  s = Sdk /\ i \in Range(list)
<1>1. s = Sdk
  OBVIOUS
<1>2. DOMAIN results[s] = Positions /\ results'[s] = Place(results[s], list, replies)
  BY <1>1 DEF Slots
<1> HIDE DEF Positions
<1> QED
  BY <1>1, <1>2, PlaceElsewhere

\* verify_go gets the requests that asked for it.
LEMMA BridgedNeedIt ==
  ASSUME cases \in Seq(Range(cases)), NEW i \in Range(Bridged)
  PROVE  NeedsBridge(i)
<1> DEFINE needing == {k \in Positions : NeedsBridge(k)}
<1>1. Bridged \in Seq(needing)
  BY InOrderLists DEF Bridged
<1> HIDE DEF needing
<1>2. i \in needing
  BY <1>1 DEF Range
<1> QED
  BY <1>2 DEF needing

\* The batch at hand fills empty slots.
LEMMA BatchIsFilled ==
  ASSUME AskInv, phase = "ask", NEW i \in Positions, i \in Range(Batch)
  PROVE  results[Sdk][i] = Unanswered
<1>1. todo \in Seq(Seq(Nat)) /\ todo # <<>>
  BY DEF AskInv, Outstanding, Apart
<1>2. Batch = todo[1] /\ 1 \in DOMAIN todo
  BY <1>1 DEF Batch
<1> QED
  BY <1>2 DEF AskInv, Outstanding

\* Once an SDK has answered a request the answer stands, unless it was the Go
\* shim's request for the bridge: neither a later batch of SubprocessAdapter.run
\* nor a child that crashes nor the bridge takes it away.
THEOREM AnswersAreKeptHolds == Spec => AnswersAreKept
<1>1. AskInv /\ [Next]_vars => [Kept]_vars
  <2> SUFFICES ASSUME AskInv, Next,
                      NEW s \in DOMAIN results, NEW i \in Positions,
                      results'[s][i] # results[s][i]
               PROVE  \/ results[s][i] = Unanswered
                      \/ /\ s = "go" /\ IsNative(i)
                         /\ Get(results[s][i].says, "error") = "NativeAdapterRequired"
    BY DEF Kept
  <2>1. CASE Load
    BY <2>1 DEF Load, AskInv, Begun
  <2>2. CASE Answered \/ ChildFails
    <3>1. PICK replies : results' = [results EXCEPT ![Sdk] = Place(@, Batch, replies)]
      BY <2>2 DEF Answered, ChildFails
    <3>2. s = Sdk /\ i \in Range(Batch)
      BY <3>1, OnlyListed DEF AskInv
    <3>3. phase = "ask"
      BY <2>2 DEF Answered, ChildFails
    <3> QED
      BY <3>2, <3>3, BatchIsFilled
  <2>3. CASE Bridge
    <3>1. PICK replies : results' = [results EXCEPT ![Sdk] = Place(@, Bridged, replies)]
      BY <2>3 DEF Bridge
    <3>2. s = Sdk /\ i \in Range(Bridged)
      BY <3>1, OnlyListed DEF AskInv
    <3>3. NeedsBridge(i)
      BY <3>2, BridgedNeedIt, GivenLists DEF AskInv
    <3> QED
      BY <3>2, <3>3 DEF NeedsBridge
  <2>4. CASE NextSdk \/ Evaluate
    BY <2>4 DEF NextSdk, Evaluate
  <2> QED
    BY <2>1, <2>2, <2>3, <2>4 DEF Next
<1>2. AnswersAreKept <=> [][Kept]_vars
  BY DEF AnswersAreKept, Kept
<1> QED
  BY <1>1, <1>2, AskInvariance, PTL DEF Spec
=============================================================================
