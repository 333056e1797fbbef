--------------------------- MODULE MigrationChains ---------------------------
(***************************************************************************)
(* One c2sp_migration_vector case (harness/migration_vectors.py) in one of *)
(* the three adapters (migration_adapter.py, c2spMigrationVector,          *)
(* handleMigrationCase). Each log of the case gets a reader; a reader      *)
(* whose log begins with a migration asks the reader of the source log for *)
(* its history up to the entry the migration names. The adapter asks the   *)
(* target log's reader five questions.                                     *)
(*                                                                         *)
(* The reader is external. It proceeds as design 11 has it, except for one *)
(* defect it may have.                                                     *)
(***************************************************************************)
EXTENDS Integers, Sequences, FiniteSetsExt, SequencesExt

CONSTANTS Adapters,    \* among "py", "ts" and "go"
          Runs,        \* the cases to run, each with what is wrong with the reader
          DefaultDepth \* how many migrations a reader follows when not told

VARIABLES adapter, defect, case,
          question, \* the one being asked, an index into Questions
          pc,       \* "ask", "walk", "replay", "verified", "raised" or "done"
          at,       \* the log whose reader is at work
          through,  \* the last entry it is to read
          depth,    \* the migrations followed for this question
          seen,     \* the logs that were read for it
          history,  \* the events gathered for it, the oldest first
          out       \* the adapter's answer

vars == <<adapter, defect, case, question, pc, at, through, depth, seen, history, out>>

Has(d) == defect = d

Questions == <<"eventCount", "keyTimestamp", "loggedState", "beforeGenesisRejected", "cutoffEventCount">>
Asks == Questions[question]

-----------------------------------------------------------------------------
(* The cases. Entries count from 1; the template's genesis is at time 0.   *)

Genesis == [type |-> "ISSUANCE", authentic |-> TRUE, ts |-> 0]
Revoked == [type |-> "REVOCATION", authentic |-> TRUE, ts |-> 1]
Migration(source, index) ==
  [type |-> "MIGRATION", authentic |-> TRUE, ts |-> 2, from |-> source, final |-> index]
Forged(source) == [Migration(source, 1) EXCEPT !.authentic = FALSE]

Add(name, logs, target, expect, maxDepth) ==
  [name |-> name, logs |-> logs, target |-> target, expect |-> expect, maxDepth |-> maxDepth]

\* Leaves the age of the key out.
WrongActive(count) ==
  [ok |-> TRUE, eventCount |-> count, loggedState |-> "ACTIVE",
   beforeGenesisRejected |-> TRUE, cutoffEventCount |-> count]

Active(count) ==
  [ok |-> TRUE, eventCount |-> count, keyTimestamp |-> 0, loggedState |-> "ACTIVE",
   beforeGenesisRejected |-> TRUE, cutoffEventCount |-> count]

Fail == [ok |-> FALSE, error |-> "LifecycleError"]
Default == 0

A == [a |-> <<Genesis>>]
AB == [a |-> <<Genesis>>, b |-> <<Migration("a", 1)>>]
ABC == [a |-> <<Genesis>>, b |-> <<Migration("a", 1)>>, c |-> <<Migration("b", 1)>>]

Corpus ==
  {Add("source-genesis", A, "a", Active(1), Default),
   Add("one-hop-keeps-key-age", AB, "b", Active(2), Default),
   Add("two-hop-keeps-key-age", ABC, "c", Active(3), Default),
   Add("two-hop-over-depth-limit-fails", ABC, "c", Fail, 1),
   Add("source-revocation-after-cutoff-is-not-imported",
       [AB EXCEPT !.a = <<Genesis, Revoked>>], "b", Active(2), Default),
   Add("from-revoked-history-fails",
       [a |-> <<Genesis, Revoked>>, b |-> <<Migration("a", 2)>>], "b", Fail, Default),
   Add("unauthenticated-migration-with-resolvable-source-is-ignored",
       [a |-> <<Genesis>>, b |-> <<Forged("a"), Genesis>>], "b",
       [ok |-> TRUE, eventCount |-> 1, keyTimestamp |-> 0, loggedState |-> "ACTIVE"], Default),
   Add("cycle-fails",
       [b |-> <<Migration("c", 1)>>, c |-> <<Migration("b", 1)>>], "b", Fail, Default)}

-----------------------------------------------------------------------------
(* What the adapter hands to the readers.                                  *)

\* The source leaves out the newest entry.
WrongLoaded(log) == IF Len(case.logs[log]) > 1 THEN Front(case.logs[log]) ELSE case.logs[log]

Loaded(log) == case.logs[log]

\* The option is not passed on.
WrongLimit == DefaultDepth

\* The case's limit is the target reader's, which hands on what is left of it;
\* Python's call for the last question brings a limit of its own.
Limit ==
  IF case.maxDepth = Default \/ (adapter = "py" /\ Asks = "cutoffEventCount")
  THEN DefaultDepth ELSE case.maxDepth

\* The last question is for the history through the target's first entry.
AskedThrough == IF Asks = "cutoffEventCount" THEN 1 ELSE Len(Loaded(case.target))

Init ==
  /\ adapter \in Adapters
  /\ \E run \in Runs : case = run.case /\ defect = run.defect
  /\ question = 1 /\ pc = "ask"
  /\ at = case.target /\ through = 0 /\ depth = 0
  /\ seen = {} /\ history = <<>>
  /\ out = [ok |-> TRUE]

Ask ==
  /\ pc = "ask"
  /\ pc' = "walk"
  /\ at' = case.target /\ through' = AskedThrough /\ depth' = 0
  /\ seen' = IF Has("remembers the logs it has seen") THEN seen \ {case.target} ELSE {}
  /\ history' = <<>>
  /\ UNCHANGED <<adapter, defect, case, question, out>>

-----------------------------------------------------------------------------
(* The readers (external).                                                 *)

Authentic(e) == e.authentic \/ Has("takes unauthenticated entries")
Read(log, last) == SelectSeq(SubSeq(Loaded(log), 1, last), Authentic)

Unreadable ==
  \/ through > Len(Loaded(at)) \/ Read(at, through) = <<>>
  \/ Has("is stopped by unauthenticated entries") /\ ~Head(Loaded(at)).authentic

\* The reader at work gathers its events; if they begin with a migration, the
\* source log's reader goes on.
Walk ==
  /\ pc = "walk"
  /\ IF Unreadable
     THEN pc' = "raised" /\ UNCHANGED <<at, through, depth, seen, history>>
     ELSE LET own == Read(at, through)
              first == Head(own) IN
       /\ history' = IF Has("imports nothing") /\ depth > 0 THEN history ELSE own \o history
       /\ seen' = seen \cup {at}
       /\ IF first.type # "MIGRATION"
          THEN pc' = "replay" /\ UNCHANGED <<at, through, depth>>
          ELSE IF first.from \in seen' \/ (depth >= Limit /\ ~Has("does not hand the limit on"))
          THEN pc' = "raised" /\ UNCHANGED <<at, through, depth>>
          ELSE /\ pc' = "walk"
               /\ at' = first.from
               /\ through' = IF Has("imports all of the source") THEN Len(Loaded(at')) ELSE first.final
               /\ depth' = depth + 1
  /\ UNCHANGED <<adapter, defect, case, question, out>>

RevokedAmong(events) == \E i \in DOMAIN events : events[i].type = "REVOCATION"

\* Nothing follows a revocation, and a revoked identity has no state to vouch for.
Acceptable ==
  /\ ~RevokedAmong(Front(history)) \/ Has("imports revoked history")
  /\ Asks = "loggedState" => Last(history).type # "REVOCATION"
  /\ Asks = "beforeGenesisRejected" => Has("answers for times before the genesis")

Replay ==
  /\ pc = "replay"
  /\ pc' = IF Acceptable THEN "verified" ELSE "raised"
  /\ UNCHANGED <<adapter, defect, case, question, at, through, depth, seen, history, out>>

\* The reader's answers: the key is as old as the event that introduced it.
KeyTimestamp == IF Has("dates the key from the migration") THEN Last(history).ts ELSE Head(history).ts
Kind == IF Has("raises runtime errors") THEN "runtime" ELSE "native"

-----------------------------------------------------------------------------
(* The adapter.                                                            *)

Given(answer) == out' = (Asks :> answer) @@ out

\* On to the next question, or done with the last.
Proceed ==
  IF question = Len(Questions) THEN pc' = "done" /\ UNCHANGED question
  ELSE pc' = "ask" /\ question' = question + 1

Verified ==
  /\ pc = "verified"
  /\ Given(CASE Asks \in {"eventCount", "cutoffEventCount"} -> Len(history)
             [] Asks = "keyTimestamp"                       -> KeyTimestamp
             [] Asks = "loggedState"                        -> "ACTIVE"
             [] Asks = "beforeGenesisRejected"              -> FALSE)
  /\ Proceed
  /\ UNCHANGED <<adapter, defect, case, at, through, depth, seen, history>>

\* Go takes whatever error there is; the others look at its class.
Recognized == adapter = "go" \/ Kind = "native"

\* A failing rebuild does not end the case.
WrongNotRebuilt ==
  /\ pc = "raised" /\ Asks = "eventCount" /\ Recognized
  /\ out' = Fail
  /\ Proceed
  /\ UNCHANGED <<adapter, defect, case, at, through, depth, seen, history>>

\* No history, no further questions.
NotRebuilt ==
  /\ pc = "raised" /\ Asks = "eventCount" /\ Recognized
  /\ out' = Fail
  /\ pc' = "done"
  /\ UNCHANGED <<adapter, defect, case, question, at, through, depth, seen, history>>

NotAnswered ==
  /\ pc = "raised" /\ Asks # "eventCount" /\ Recognized
  /\ Given(IF Asks = "beforeGenesisRejected" THEN TRUE ELSE "error")
  /\ Proceed
  /\ UNCHANGED <<adapter, defect, case, at, through, depth, seen, history>>

\* An error that is not the reader's ends the case.
Broken ==
  /\ pc = "raised" /\ ~Recognized
  /\ out' = [ok |-> FALSE, error |-> "AdapterError"]
  /\ pc' = "done"
  /\ UNCHANGED <<adapter, defect, case, question, at, through, depth, seen, history>>

Next == Ask \/ Walk \/ Replay \/ Verified \/ NotRebuilt \/ NotAnswered \/ Broken

Spec == Init /\ [][Next]_vars

-----------------------------------------------------------------------------
(* Properties.                                                             *)

Done == pc = "done"

\* Types; while questions remain, those before have their answers.
TypeOK ==
  /\ adapter \in Adapters /\ [case |-> case, defect |-> defect] \in Runs
  /\ question \in DOMAIN Questions
  /\ pc \in {"ask", "walk", "replay", "verified", "raised", "done"}
  /\ at \in DOMAIN case.logs /\ seen \subseteq DOMAIN case.logs
  /\ depth \in 0 .. Cardinality(DOMAIN case.logs)
  /\ ~Done => DOMAIN out = {"ok"} \cup {Questions[i] : i \in 1 .. question - 1}

Passes == \A f \in DOMAIN case.expect : f \in DOMAIN out /\ out[f] = case.expect[f]

\* A reader that follows design 11 passes every case through every adapter: the
\* five questions do not disturb each other, and the limit reaches the chain.
CorrectReaderPasses ==
  Done /\ defect = "none" /\ case \in Corpus => Passes

\* The case that is there to catch a defect.
Catches ==
  [d \in {run.defect : run \in Runs} \ {"none"} |->
     CASE d = "does not hand the limit on"             -> "two-hop-over-depth-limit-fails"
       [] d = "imports all of the source"              -> "source-revocation-after-cutoff-is-not-imported"
       [] d = "imports revoked history"                -> "from-revoked-history-fails"
       [] d = "takes unauthenticated entries"          ->
            "unauthenticated-migration-with-resolvable-source-is-ignored"
       [] d = "is stopped by unauthenticated entries"  ->
            "unauthenticated-migration-with-resolvable-source-is-ignored"
       [] d = "dates the key from the migration"       -> "one-hop-keeps-key-age"
       [] d = "imports nothing"                        -> "one-hop-keeps-key-age"
       [] d = "remembers the logs it has seen"         -> "one-hop-keeps-key-age"
       [] d = "answers for times before the genesis"   -> "source-genesis"
       [] d = "raises runtime errors"                  -> "cycle-fails"]

\* Each defect fails the case that is there for it. Go's shim cannot tell a
\* reader's errors from others.
DefectsAreCaught ==
  Done /\ defect # "none" /\ case.name = Catches[defect] =>
    ~Passes \/ (adapter = "go" /\ defect = "raises runtime errors")

-----------------------------------------------------------------------------
(* What a chain of logs is worth, without following it: it runs from the   *)
(* target to a log that begins with an issuance, without a log twice, each *)
(* link a migration at the head of its log.                                *)

Applied(log) == SelectSeq(case.logs[log], LAMBDA e : e.authentic)

Chains ==
  {path \in UNION {[1 .. n -> DOMAIN case.logs] : n \in 1 .. Cardinality(DOMAIN case.logs)} :
     /\ IsInjective(path) /\ path[1] = case.target
     /\ \A i \in DOMAIN path : Applied(path[i]) # <<>>
     /\ \A i \in 1 .. Len(path) - 1 :
          LET head == Head(Applied(path[i])) IN
          head.type = "MIGRATION" /\ head.from = path[i + 1]
     /\ Head(Applied(Last(path))).type = "ISSUANCE"
     /\ case.maxDepth # Default => Len(path) - 1 <= case.maxDepth}

\* The events of its i-th log that count.
Part(path, i) ==
  LET all == case.logs[path[i]]
      cut == IF i = 1 THEN Len(all) ELSE Head(Applied(path[i - 1])).final IN
  IF cut > Len(all) THEN <<>> ELSE SelectSeq(SubSeq(all, 1, cut), LAMBDA e : e.authentic)

Imported(path) == MapThenSumSet(LAMBDA i : Len(Part(path, i)), DOMAIN path)

Intact(path) ==
  /\ \A i \in DOMAIN path : Part(path, i) # <<>>
  /\ \A i \in DOMAIN path \ {1} : ~RevokedAmong(Part(path, i))

\* Whatever the logs refer to, the walk from reader to reader ends, with a
\* history exactly if there is such a chain with nothing revoked on it, and with
\* the events of that chain up to each cutoff, once each.
AnswersAreTheChains ==
  Done /\ defect = "none" =>
    /\ out.ok = (\E path \in Chains : Intact(path))
    /\ out.ok => \E path \in Chains :
         Intact(path) /\ out.eventCount = Imported(path)
           /\ (out.loggedState = "error") = RevokedAmong(Part(path, 1))
=============================================================================
