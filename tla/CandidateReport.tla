-------------------------- MODULE CandidateReport --------------------------
(***************************************************************************)
(* How the three adapters turn what an SDK made of a log into the answer   *)
(* the harness compares.                                                   *)
(*                                                                         *)
(* c2sp_lifecycle_vector: which candidates were applied, which were        *)
(* ignored, and which one was refused.                                     *)
(*   py   drops unproven entries; the SDK names the applied indexes and    *)
(*        the refused one                                                  *)
(*   ts   the same, but finds the refused candidate by re-running prefixes *)
(*        until one fails in the same category                             *)
(*   go   the SDK sees every entry and returns events without indexes,     *)
(*        matched back by type and signature values; the refused candidate *)
(*        is the end of the first prefix that fails at all                 *)
(* lifecycle_vector: the state of a list of events at a time, or the event *)
(* that was refused, which py and go have from the SDK's error and ts      *)
(* finds as above. Events name keys by labels that each adapter makes keys *)
(* for and takes back from the result.                                     *)
(*                                                                         *)
(* The SDKs are external: each is taken to select what SelectionOracle     *)
(* expects and to compute DomainLog's snapshots, since that is what the    *)
(* suites hold it to.                                                      *)
(***************************************************************************)
EXTENDS Naturals, Sequences, FiniteSetsExt

CONSTANTS NoId,      \* no predecessor
          Logs,      \* adapter -> the logs of c2sp_lifecycle_vector it is given
          Histories, \* adapter -> the event lists of lifecycle_vector it is given
          Times      \* the times a snapshot is asked for

Adapters == DOMAIN Logs

Oracle == INSTANCE SelectionOracle
Reducer == INSTANCE DomainLog

\* An entry without a valid inclusion proof is noise to every SDK.
AsSeen(c) == [c EXCEPT !.authenticated = @ /\ c.proven]

Seen(log) == [k \in DOMAIN log |-> AsSeen(log[k])]

IsLog(log) ==
  /\ log \in Seq(Range(log))
  /\ \A k \in DOMAIN log :
       /\ DOMAIN log[k] = {"id", "prev", "kind", "authenticated", "proven", "values"}
       /\ log[k].authenticated \in BOOLEAN /\ log[k].proven \in BOOLEAN
       /\ log[k].id # NoId

\* The logs that go is given are the enumerated ones: signature values tell
\* their candidates apart, and they are too short to be refused unless the
\* issuance comes first.
Enumerates(log) ==
  /\ \A j, k \in DOMAIN log : log[j].values = log[k].values => log[j] = log[k]
  /\ Oracle!Expect(Seen(log)).failing # 0 =>
       log[1].kind = "I" /\ log[1].authenticated /\ log[1].proven

\* An issuance states the thumbprints of its keys.
OwnThumbs(e) ==
  e.type = "ISSUANCE" => e = [e EXCEPT !.entityThumb = e.entity, !.keyThumb = e.key]

ASSUME RequestsAssumption ==
  /\ Adapters \subseteq {"py", "ts", "go"}
  /\ \A a \in Adapters : \A log \in Logs[a] : IsLog(log) /\ (a = "go" => Enumerates(log))
  /\ \A a \in Adapters : \A list \in Histories[a] :
       list \in Seq(Range(list)) /\ (a = "py" => \A k \in DOMAIN list : OwnThumbs(list[k]))

VARIABLES adapter,   \* which adapter runs
          op,        \* the operation
          word,      \* the candidates or events of the request
          time,      \* of the snapshot
          phase,     \* "rebuild", "match", "search" or "reported"
          at,        \* event being matched, or prefix being tried
          free,      \* go: first candidate an event may still match
          report     \* the answer under construction

request == <<adapter, op, word, time>>
vars == <<adapter, op, word, time, phase, at, free, report>>

NoReport == [ok |-> FALSE, applied |-> <<>>, state |-> {}, failing |-> 0]

Init ==
  /\ adapter \in Adapters
  /\ \/ op = "c2sp_lifecycle_vector" /\ word \in Logs[adapter] /\ time = 0
     \/ op = "lifecycle_vector" /\ word \in Histories[adapter] /\ time \in Times
  /\ phase = "rebuild"
  /\ at = 1
  /\ free = 1
  /\ report = NoReport

-----------------------------------------------------------------------------
(* What the SDKs do (external).                                            *)

Select(log) ==
  IF op = "lifecycle_vector" THEN Reducer!SnapshotAt(log, time) ELSE Oracle!Expect(Seen(log))

Category(selection) ==
  IF op = "c2sp_lifecycle_vector" /\ selection.failing = 0 THEN "GENESIS_REQUIRED"
  ELSE selection.errorCategory

-----------------------------------------------------------------------------
(* The entries an adapter passes on, as positions in the request.          *)

\* Python's issuances take no thumbprints: they are those of the keys.
Converted(e) ==
  IF op = "lifecycle_vector" /\ adapter = "py" /\ e.type = "ISSUANCE"
  THEN [e EXCEPT !.entityThumb = e.entity, !.keyThumb = e.key]
  ELSE e

Keeps(k) == op = "lifecycle_vector" \/ adapter = "go" \/ word[k].proven

Keep(list, n) == IF Keeps(n) THEN Append(list, n) ELSE list

\* Those of each prefix of the request.
KeptOf ==
  LET upTo[n \in 0 .. Len(word)] == IF n = 0 THEN <<>> ELSE Keep(upTo[n - 1], n)
  IN upTo

Kept == KeptOf[Len(word)]

Passed(n) == LET kept == Kept IN [k \in 1 .. n |-> Converted(word[kept[k]])]

Selection == Select(Passed(Len(Kept)))

\* Whether the adapter has the refused position from the SDK's error.
Named == adapter = "py" \/ (adapter = "go" /\ op = "lifecycle_vector")

Rebuild ==
  /\ phase = "rebuild"
  /\ \/ /\ Selection.valid
        /\ op = "lifecycle_vector"
        /\ phase' = "reported"
        /\ report' = [report EXCEPT !.ok = TRUE, !.state = {Selection.state}]
     \/ /\ Selection.valid
        /\ op = "c2sp_lifecycle_vector" /\ adapter = "go"
        /\ phase' = "match"
        /\ report' = [report EXCEPT !.ok = TRUE]
     \/ /\ Selection.valid
        /\ op = "c2sp_lifecycle_vector" /\ adapter # "go"
        /\ phase' = "reported"
        /\ report' = [report EXCEPT !.ok = TRUE,
                        !.applied = [k \in DOMAIN Selection.applied |-> Kept[Selection.applied[k]]]]
     \/ /\ ~Selection.valid
        /\ Named
        /\ phase' = "reported"
        /\ report' = [report EXCEPT !.failing =
                        IF Selection.failing = 0 THEN 0 ELSE Kept[Selection.failing]]
     \/ /\ ~Selection.valid
        /\ ~Named
        /\ phase' = "search"
        /\ UNCHANGED report
  /\ UNCHANGED <<request, at, free>>

\* Searches from the start of the log for every event.
WrongMatchEvent ==
  /\ phase = "match"
  /\ at <= Len(Selection.applied)
  /\ LET event == word[Selection.applied[at]]
         first == Min({k \in DOMAIN word : word[k].values = event.values})
     IN report' = [report EXCEPT !.applied = Append(@, first)]
  /\ at' = at + 1
  /\ UNCHANGED <<request, phase, free>>

\* go: the next applied event takes the first candidate, from `free' on, with
\* its type and signature values; an event that matches none (prior history
\* stitched in by a migration) is passed over.
MatchEvent ==
  /\ phase = "match"
  /\ at <= Len(Selection.applied)
  /\ LET event == word[Selection.applied[at]]
         matches == {k \in free .. Len(word) : word[k].values = event.values}
         first == Min(matches)
     IN /\ report' = IF matches = {} THEN report
                     ELSE [report EXCEPT !.applied = Append(@, first)]
        /\ free' = IF matches = {} THEN free ELSE first + 1
  /\ at' = at + 1
  /\ UNCHANGED <<request, phase>>

\* Settles for any failing prefix.
WrongBlames(n) == ~Select(Passed(n)).valid

\* A prefix that settles the search: any failing one (go), or one that fails
\* in the category of the whole log (ts).
Blames(n) ==
  LET prefix == Select(Passed(n)) IN
  /\ ~prefix.valid
  /\ adapter = "ts" => Category(prefix) = Category(Selection)

TryPrefix ==
  /\ phase = "search"
  /\ at <= Len(Kept)
  /\ IF Blames(at)
     THEN /\ report' = [report EXCEPT !.failing = Kept[at]]
          /\ phase' = "reported"
          /\ at' = at
     ELSE /\ at' = at + 1
          /\ UNCHANGED <<phase, report>>
  /\ UNCHANGED <<request, free>>

Finish ==
  /\ \/ phase = "match" /\ at > Len(Selection.applied)
     \/ phase = "search" /\ at > Len(Kept)
  /\ phase' = "reported"
  /\ UNCHANGED <<request, at, free, report>>

Next == Rebuild \/ MatchEvent \/ TryPrefix \/ Finish

Spec == Init /\ [][Next]_vars

-----------------------------------------------------------------------------
(* Properties.                                                             *)

Done == phase = "reported"

\* An accepted log is reported with exactly the candidates the suite expects
\* to be applied, in order: a copy, a noise entry with the same signature
\* values or an entry before genesis is never reported in place of the
\* occurrence that took effect. An accepted list of events is reported with the
\* state that the events of the request, as they are, lead to at its time.
ReportsSelection ==
  Done /\ Select(word).valid =>
    /\ report.ok
    /\ IF op = "lifecycle_vector" THEN report.state = {Select(word).state}
       ELSE report.applied = Select(word).applied

\* A refused log is reported as refused, at the candidate or event the suite
\* expects.
ReportsRefusal ==
  Done /\ ~Select(word).valid =>
    ~report.ok /\ (Select(word).failing # 0 => report.failing = Select(word).failing)
=============================================================================
