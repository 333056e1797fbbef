----------------------------- MODULE DomainLog -----------------------------
(***************************************************************************)
(* DomainLog.SnapshotAt of the SDKs (external), as the design and the      *)
(* vectors of lifecycle-transitions.json have it: the state of an identity *)
(* at a time, from its lifecycle events in log order. A key is its         *)
(* thumbprint, "" is no key; times count days.                             *)
(***************************************************************************)
EXTENDS Naturals, Sequences

Domain == "agent.example"

Reasons == {"keyCompromise", "policyViolation", "superseded", "cessationOfOperation"}

\* The locals of the loop; failing = 0 until an event is refused.
NoEvents == [status |-> "none", key |-> "", boundAt |-> 0, count |-> 0, past |-> FALSE,
             failing |-> 0, errorCategory |-> ""]

Rule(broken, category) == [broken |-> broken, category |-> category]

BadKeys(e) ==
  \/ "" \in {e.entity, e.key}
  \/ e.entity # e.entityThumb \/ e.key # e.keyThumb
  \/ e.entity = e.key

\* The rules an event is held to, in order, in state r.
RulesFor(r, e) ==
  << Rule(e.domain # Domain, "DOMAIN_MISMATCH"),
     Rule(r.past, "SNAPSHOT_NON_PREFIX"),
     Rule(r.status = "none" /\ e.type # "ISSUANCE", "GENESIS_REQUIRED"),
     Rule(r.status \in {"REVOKED", "RETIRED"}, "TERMINAL_STATE"),
     Rule(e.type = "ISSUANCE" /\ r.status # "none", "DUPLICATE_ISSUANCE"),
     Rule(e.type = "ISSUANCE" /\ BadKeys(e), "INVALID_ISSUANCE"),
     Rule(e.type = "KEY_ROTATION" /\ (e.replaces # r.key \/ e.key \notin {e.keyThumb} \ {"", r.key}),
          "KEY_CONTINUITY"),
     Rule(e.type = "REVOCATION" /\ e.reason \notin Reasons, "INVALID_REVOCATION_REASON"),
     Rule(e.type = "MIGRATION" /\ e.toSameLog, "INVALID_MIGRATION"),
     Rule(e.type = "FUTURE_EVENT", "UNSUPPORTED_EVENT") >>

Broken(rules) == {k \in DOMAIN rules : rules[k].broken}

\* The category of the first one broken.
Verdict(rules) == rules[CHOOSE k \in Broken(rules) : \A j \in Broken(rules) : k <= j].category

Applied(r, e) ==
  LET counted == [r EXCEPT !.count = @ + 1] IN
  CASE e.type = "ISSUANCE" ->
         [counted EXCEPT !.status = "ACTIVE", !.key = e.key, !.boundAt = e.time]
    [] e.type = "KEY_ROTATION" -> [counted EXCEPT !.key = e.key, !.boundAt = e.time]
    [] e.type = "REVOCATION" -> [counted EXCEPT !.status = "REVOKED"]
    [] e.type = "RETIREMENT" -> [counted EXCEPT !.status = "RETIRED"]
    [] OTHER -> counted

\* An event after the time asked for is passed over, a later one in the log that
\* is not is refused.
After(r, e, index, at) ==
  LET rules == RulesFor(r, e) IN
  IF r.failing # 0 THEN r
  ELSE IF e.time > at /\ e.domain = Domain THEN [r EXCEPT !.past = TRUE]
  ELSE IF Broken(rules) # {} THEN [r EXCEPT !.failing = index, !.errorCategory = Verdict(rules)]
  ELSE Applied(r, e)

\* The locals after each prefix of the events.
Locals(events, at) ==
  LET after[index \in 0 .. Len(events)] ==
        IF index = 0 THEN NoEvents ELSE After(after[index - 1], events[index], index, at)
  IN after

SnapshotAt(events, at) ==
  LET r == Locals(events, at)[Len(events)]
      empty == r.failing = 0 /\ r.count = 0 IN
  [valid |-> r.failing = 0 /\ ~empty,
   failing |-> r.failing,
   errorCategory |-> IF empty THEN "SNAPSHOT_EMPTY" ELSE r.errorCategory,
   state |-> [identityState |-> r.status, activeOperationalThumbprint |-> r.key,
              keyBoundAt |-> r.boundAt, eventCount |-> r.count]]
=============================================================================
