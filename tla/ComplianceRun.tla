--------------------------- MODULE ComplianceRun ---------------------------
(***************************************************************************)
(* One run of harness/run.py: load the cases, ask each selected SDK in     *)
(* turn, replace what the Go shim leaves to its native bridge, evaluate    *)
(* every cell, and exit.                                                   *)
(*                                                                         *)
(* An SDK and its shim are processes of their own: what they answer is any *)
(* member of Answers for the operation asked, and the process may also     *)
(* crash or print something that is not one answer per request. The Python *)
(* adapter runs in the harness and turns every exception into an answer.   *)
(***************************************************************************)
EXTENDS Naturals, Sequences, Functions, Verdict

CONSTANTS Suites,    \* the case lists a run may load
          Selections,\* the SDK lists a run may be asked for
          Answers    \* operation -> what an SDK may answer to it

\* run.py goes through "go", "ts" and "py" and keeps those that were asked for:
\* none twice, and none at all if --sdks names no SDK it knows.
ASSUME ListsAssumption ==
  /\ \A suite \in Suites : suite \in Seq(Range(suite))
  /\ \A sdks \in Selections : sdks \in Seq(Range(sdks)) /\ IsInjective(sdks)

VARIABLES cases,     \* the loaded cases, in order
          selected,  \* sdk_names
          phase,     \* "load", "ask", "bridge", "next", "evaluate", "done" or "aborted"
          turn,      \* position in selected of the SDK being asked
          todo,      \* batches still to be sent to it: lists of positions
          results,   \* SDK -> position -> the answer in that slot
          cells,     \* SDK -> position -> status
          exit       \* the exit code, once done

vars == <<cases, selected, phase, turn, todo, results, cells, exit>>

Positions == DOMAIN cases
Sdk == selected[turn]
NoCode == 9

\* A slot holds the identity of the request it answers with the answer; the
\* harness itself fills a slot with an AdapterError that answers no request.
NoOne == "no one"
Unanswered == [to |-> NoOne, says |-> [ok |-> Absent]]
Synthesised == [to |-> NoOne, says |-> AdapterFailure]

IsNative(i) == cases[i].op = "wba_verify_request"

-----------------------------------------------------------------------------

Init ==
  /\ cases \in Suites
  /\ selected \in Selections
  /\ phase = "load"
  /\ turn = 1
  /\ todo = <<>>
  /\ results = [s \in {} |-> <<>>]
  /\ cells = [s \in {} |-> <<>>]
  /\ exit = NoCode

Duplicated == \E i, k \in Positions : i # k /\ cases[i].id = cases[k].id

\* The order in which an SDK's shim is asked. The TypeScript shim gets the
\* verifier cases one process each, unless there is only one request at all.
All == [i \in Positions |-> i]

\* The positions in a set, in order.
Keep(list, n, set) == IF n \in set THEN Append(list, n) ELSE list

InOrder(set) ==
  LET upTo[n \in 0 .. Len(cases)] ==
        IF n = 0 THEN <<>> ELSE Keep(upTo[n - 1], n, set)
  IN upTo[Len(cases)]

Ordinary == InOrder({i \in Positions : ~IsNative(i)})
Native == InOrder({i \in Positions : IsNative(i)})

Isolates(sdk) == sdk = "ts" /\ Len(cases) > 1 /\ Native # <<>>

Batches(sdk) ==
  IF Isolates(sdk)
  THEN (IF Ordinary = <<>> THEN <<>> ELSE <<Ordinary>>)
         \o [k \in DOMAIN Native |-> <<Native[k]>>]
  ELSE <<All>>

Load ==
  /\ phase = "load"
  /\ \/ /\ cases = <<>>
        /\ phase' = "done"
        /\ exit' = 2
        /\ UNCHANGED <<todo, results>>
     \/ /\ \/ cases # <<>> /\ Duplicated
           \/ "py" \in Range(selected)   \* dnsid is imported from elsewhere
        /\ phase' = "aborted"
        /\ UNCHANGED <<todo, results, exit>>
     \/ /\ cases # <<>> /\ ~Duplicated
        /\ \/ selected = <<>> /\ phase' = "evaluate" /\ UNCHANGED todo
           \/ selected # <<>> /\ phase' = "ask" /\ todo' = Batches(Sdk)
        /\ results' = [s \in Range(selected) |-> [i \in Positions |-> Unanswered]]
        /\ UNCHANGED exit
  /\ UNCHANGED <<cases, selected, turn, cells>>

-----------------------------------------------------------------------------
(* Asking one SDK.                                                         *)

Batch == Head(todo)

\* A child of the isolated verifier cases: its failure stays in its slot.
Alone == Isolates(Sdk) /\ IsNative(Batch[1])

\* What a process answers to the requests at the positions of a list: one
\* answer each, in the order they were sent.
Replies(list) ==
  {r \in [DOMAIN list -> UNION {[to : {cases[i].id}, says : Answers[cases[i].op]] : i \in Range(list)}] :
     \A k \in DOMAIN list : /\ r[k].to = cases[list[k]].id
                            /\ r[k].says \in Answers[cases[list[k]].op]}

\* Forgets that the batch is a selection: reply k goes to slot k.
WrongPlace(slots, list, replies) ==
  [i \in DOMAIN slots |-> IF i \in DOMAIN list THEN replies[i] ELSE slots[i]]

\* Puts replies[k] into slot list[k].
Place(slots, list, replies) ==
  [i \in DOMAIN slots |->
     IF i \in Range(list)
     THEN replies[CHOOSE k \in DOMAIN list : list[k] = i]
     ELSE slots[i]]

NeedsBridge(i) ==
  /\ Sdk = "go" /\ IsNative(i)
  /\ Get(results[Sdk][i].says, "error") = "NativeAdapterRequired"

\* Sends every verifier case through the bridge.
WrongBridged == InOrder({i \in Positions : Sdk = "go" /\ IsNative(i)})

Bridged == InOrder({i \in Positions : NeedsBridge(i)})

\* The bridge comes after the last batch.
AfterBatch == IF Len(todo) = 1 THEN "bridge" ELSE "ask"

Answered ==
  /\ phase = "ask"
  /\ \E replies \in Replies(Batch) :
       results' = [results EXCEPT ![Sdk] = Place(@, Batch, replies)]
  /\ todo' = Tail(todo)
  /\ phase' = AfterBatch
  /\ UNCHANGED <<cases, selected, turn, cells, exit>>

\* The process exits with an error, or its output is not a list of one object
\* per request.
ChildFails ==
  /\ phase = "ask" /\ Sdk # "py"
  /\ \/ /\ Alone
        /\ results' = [results EXCEPT ![Sdk] = Place(@, Batch, [k \in DOMAIN Batch |-> Synthesised])]
        /\ todo' = Tail(todo)
        /\ phase' = AfterBatch
     \/ /\ ~Alone
        /\ phase' = "aborted"
        /\ UNCHANGED <<results, todo>>
  /\ UNCHANGED <<cases, selected, turn, cells, exit>>

\* verify_go: one go test run for all the verifier cases.
Bridge ==
  /\ phase = "bridge" /\ Bridged # <<>>
  /\ \/ /\ \E replies \in Replies(Bridged) :
             results' = [results EXCEPT ![Sdk] = Place(@, Bridged, replies)]
        /\ phase' = "next"
     \/ /\ results' = [results EXCEPT ![Sdk] = Place(@, Bridged, [k \in DOMAIN Bridged |-> Synthesised])]
        /\ phase' = "next"
     \/ /\ phase' = "aborted"
        /\ UNCHANGED results
  /\ UNCHANGED <<cases, selected, turn, todo, cells, exit>>

NextSdk ==
  /\ phase = "next" \/ (phase = "bridge" /\ Bridged = <<>>)
  /\ IF turn < Len(selected)
     THEN /\ turn' = turn + 1
          /\ todo' = Batches(selected[turn + 1])
          /\ phase' = "ask"
     ELSE /\ phase' = "evaluate"
          /\ UNCHANGED <<turn, todo>>
  /\ UNCHANGED <<cases, selected, results, cells, exit>>

-----------------------------------------------------------------------------
(* Evaluation and exit.                                                    *)

Cell(sdk, i) == Status(cases[i], sdk, Checked(cases[i], results[sdk][i].says))

Failing == {"FAIL", "XPASS"}

Evaluate ==
  /\ phase = "evaluate"
  /\ phase' = "done"
  /\ cells' = [s \in Range(selected) |-> [i \in Positions |-> Cell(s, i)]]
  /\ exit' = IF \E s \in Range(selected), i \in Positions : Cell(s, i) \in Failing THEN 1 ELSE 0
  /\ UNCHANGED <<cases, selected, turn, todo, results>>

Next == Load \/ Answered \/ ChildFails \/ Bridge \/ NextSdk \/ Evaluate

Spec == Init /\ [][Next]_vars

-----------------------------------------------------------------------------
(* Properties.                                                             *)

Judged == phase = "done" /\ exit \in {0, 1}

\* Every cell is judged on the answer to its own request: neither the separate
\* processes of the TypeScript verifier cases nor the second pass through the
\* Go bridge put an answer into the slot of another case.
OwnAnswer ==
  \A s \in DOMAIN results, i \in Positions :
    results[s][i].to \in {NoOne, cases[i].id}

\* src/README.md:129 of a TypeScript verifier case: a child crash remains a
\* per-case error, other cases and SDKs still produce a report. So the run is
\* never abandoned for a child that was asked verifier cases only.
VerifierCrashIsPerCase ==
  phase = "aborted" /\ todo # <<>> /\ Sdk = "ts" => \E i \in Range(Batch) : ~IsNative(i)

\* Once an SDK has answered a request the answer stands, unless it was the Go
\* shim's request for the bridge. A child that crashes later takes nothing away.
AnswersAreKept ==
  [][\A s \in DOMAIN results, i \in Positions :
       \/ results[s][i] = Unanswered
       \/ s = "go" /\ IsNative(i) /\ Get(results[s][i].says, "error") = "NativeAdapterRequired"
       \/ results'[s][i] = results[s][i]]_vars

\* An adapter failure, the harness' own or an SDK's, fails its case and the
\* run whatever the case expects and whatever markers it carries.
LossIsVisible ==
  Judged =>
    \A s \in Range(selected), i \in Positions :
      LET says == results[s][i].says IN
      Get(says, "ok") = "false" /\ Get(says, "error") \in HarnessErrors =>
        cells[s][i] = "FAIL" /\ exit = 1

\* A known_bug marker, a fail-closed allowance or an override never makes a
\* checkpoint case pass whose safety keys (verdict, error class, stored root,
\* cause, proof request) are not the expected ones.
CheckpointSafetyIsNeverExcused ==
  Judged =>
    \A s \in Range(selected), i \in Positions :
      (cases[i].op = "c2sp_checkpoint_vector" /\ cells[s][i] \notin {"FAIL", "MISSING"}) =>
        \A f \in DOMAIN Expected(cases[i], s) \cap SafetyKeys :
          Get(results[s][i].says, f) = Expected(cases[i], s)[f]

\* Exit code 0 means: every answer, as far as it was executed, is the expected
\* one in every field, or a rejection the case allows, or deviates on a case
\* marked as a known bug of that SDK whose version is supported.
GreenMeansConformant ==
  Judged /\ exit = 0 =>
    \A s \in Range(selected), i \in Positions :
      LET answer == Checked(cases[i], results[s][i].says) IN
      \/ \A f \in DOMAIN Expected(cases[i], s) : Get(answer, f) = Expected(cases[i], s)[f]
      \/ cases[i].op = "wba_verify_request" /\ answer = NotShipped
      \/ /\ Get(answer, "error") = "CapabilityMissing"
         /\ Get(answer, "capability") \in OptionalCapabilities
      \/ cases[i].failClosed /\ Get(answer, "ok") = "false" /\ Get(answer, "error") = "LifecycleError"
      \/ s \in cases[i].knownBug \cap cases[i].supported /\ Get(answer, "error") \notin HarnessErrors
=============================================================================
