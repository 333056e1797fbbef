------------------------ MODULE MCFixtureProvenance ------------------------
EXTENDS FixtureProvenance

Candidate(id, candidates, flags) == [id |-> id, candidates |-> candidates, flags |-> flags]
Definition(type, domain, effect) ==
  [type |-> type, domain |-> domain, effect |-> effect, claims |-> "valid"]
Definitions ==
  [issuance |-> Definition("I", "agent", "issuance-1"),
   rotation |-> Definition("R", "agent", "rotation-1"),
   noise |-> Definition("none", "agent", "none")]
Of(cases) == [domain |-> "agent", cases |-> cases, definitions |-> Definitions]

A == Candidate("a", <<"issuance", "rotation">>, "complete")
B == Candidate("b", <<"issuance", "noise">>, "complete")

\* The committed source; with a case reordered, shortened, incomplete, asking
\* for a candidate of another case, or dropped; one more case; an id used twice,
\* for two cases or for one; another type, another domain or other claims for a
\* candidate; another domain for all.
MCSuites ==
  {Of(<<A, B>>),
   Of(<<Candidate("a", <<"rotation", "issuance">>, "complete"), B>>),
   Of(<<Candidate("a", <<>>, "complete"), B>>),
   Of(<<Candidate("a", <<"issuance", "rotation">>, "incomplete"), B>>),
   Of(<<A, Candidate("b", <<"issuance", "rotation">>, "complete")>>),
   Of(<<B>>),
   Of(<<A, B, Candidate("c", <<"issuance">>, "complete")>>),
   Of(<<A, B, Candidate("b", <<"noise">>, "complete")>>),
   Of(<<A, A, B>>),
   [Of(<<A, B>>) EXCEPT !.definitions.rotation.type = "V"],
   [Of(<<A, B>>) EXCEPT !.definitions.rotation.domain = "other"],
   [Of(<<A, B>>) EXCEPT !.definitions.rotation.claims = "invalid"],
   [Of(<<A, B>>) EXCEPT !.domain = "other"]}

Event(type) == [type |-> type, domain |-> "agent", bytes |-> "first"]
Recipes == [a |-> [issuance |-> Event("I"), rotation |-> Event("R")],
            b |-> [issuance |-> Event("I"), noise |-> Event("X")]]
Version(recipes) == [recipes |-> recipes, intact |-> TRUE, golden |-> TRUE, loads |-> Read]

\* The committed programs; with other bytes for an event; knowing a candidate
\* or a case more, or one less; with changed historical inputs; with messages
\* that fail their own check; without the loader of a file, be it one whose suite
\* is looked at or one that is only listed.
MCVersions ==
  {Version(Recipes),
   Version([Recipes EXCEPT !.a.rotation.bytes = "second"]),
   Version([Recipes EXCEPT !.b = [issuance |-> Event("I"), rotation |-> Event("R"), noise |-> Event("X")]]),
   Version([a |-> Recipes.a, b |-> Recipes.b, c |-> [issuance |-> Event("I")]]),
   Version([b |-> Recipes.b]),
   [Version(Recipes) EXCEPT !.intact = FALSE],
   [Version(Recipes) EXCEPT !.golden = FALSE],
   [Version(Recipes) EXCEPT !.loads = @ \ {"lifecycle-transitions"}],
   [Version(Recipes) EXCEPT !.loads = @ \ {"web-bot-auth"}]}

\* Start from what is committed.
MCInit == Init /\ suite = Of(<<A, B>>) /\ version = Version(Recipes)
MCSpec == MCInit /\ [][Next]_vars
=============================================================================
