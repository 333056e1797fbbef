---------------------- MODULE FixtureProvenanceProofs ----------------------
(***************************************************************************)
(* What reaches an SDK, for every semantic source, every generator and any *)
(* number of edits, regenerations and interruptions.                       *)
(***************************************************************************)
EXTENDS FixtureProvenance, TLAPS

Commands == {"c2sp", "wba", "make", "run_one", "run_py"}

\* Evidence signed by a generator, whichever it was and for whichever source.
Signed(file) ==
  file.by = "generator" =>
    \E s \in Suites, v \in Versions : Supported(s, v) /\ file.content = EvidenceFrom(s, v)

\* The files a generator under way has written.
WrittenFiles == {Steps[command][i] : i \in 2 .. pos - 1}

Placed ==
  /\ suite \in Suites
  /\ version \in Versions
  /\ DOMAIN disk = Files
  /\ \A f \in Files : "by" \in DOMAIN disk[f]
  /\ command \in Commands \cup {"none"}
  /\ pos \in Nat
  /\ command # "none" => pos > 0
  /\ fresh \subseteq Generators

Generating ==
  command \in Generators /\ pos > 1 =>
    /\ Makes(command)
    /\ outputs = [f \in FilesOf[command] |-> Made(f)]
    /\ \A f \in WrittenFiles : disk[f] = Made(f)

Checking ==
  command \notin Generators \cup {"none"} =>
    /\ \A g \in checked \cap Generators : Reproducible(g)
    /\ checked \subseteq Generators \cup {Identity}

Passed ==
  /\ command = "make" /\ pos > 1 => "c2sp" \in checked
  /\ command = "make" /\ pos > 2 => "wba" \in checked
  /\ command = "run_one" /\ pos > 1 => "wba" \in checked
  /\ command = "run_one" /\ pos > 3 => "c2sp" \in checked
  /\ command \in {"make", "run_one"} /\ pos > 4 => Identity \in checked

LoadedAll == Started => Loadable

IInv ==
  /\ Placed
  /\ Signed(disk["evidence"])
  /\ OneRegenerationSuffices
  /\ Generating
  /\ Checking
  /\ Passed
  /\ LoadedAll

-----------------------------------------------------------------------------

\* Where every id is used once, the last case with an id is the case with that id.
LEMMA LastIsOnly ==
  ASSUME NEW s \in Suites, Unique(s), NEW i \in Positions(s)
  PROVE  LastWith(s, s.cases[i].id) = i
<1>1. Positions(s) \subseteq Nat
  BY SuitesAssumption DEF Positions
<1>2. \A j \in Positions(s) :
        (/\ s.cases[j].id = s.cases[i].id
         /\ \A k \in Positions(s) : s.cases[k].id = s.cases[i].id => k <= j) <=> j = i
  BY <1>1 DEF Unique
<1> QED BY <1>2 DEF LastWith

\* What a generator signs for a source it supports is what the source asks for.
LEMMA EvidenceMatches ==
  ASSUME NEW s \in Suites, NEW v \in Versions, Supported(s, v), Unique(s)
  PROVE  Matches(EvidenceFrom(s, v), s)
<1> DEFINE made == EvidenceFrom(s, v)
<1> SUFFICES ASSUME NEW i \in Positions(s)
             PROVE  /\ s.cases[i].id \in DOMAIN made.cases
                    /\ made.cases[s.cases[i].id].domain = s.domain
                    /\ made.cases[s.cases[i].id].flags = s.cases[i].flags
                    /\ DOMAIN made.cases[s.cases[i].id].entries = DOMAIN s.cases[i].candidates
                    /\ \A k \in DOMAIN s.cases[i].candidates :
                         /\ made.cases[s.cases[i].id].entries[k].effect
                              = s.definitions[s.cases[i].candidates[k]].effect
                         /\ Fits(made.cases[s.cases[i].id].entries[k].event,
                                 s.definitions[s.cases[i].candidates[k]])
  BY DEF Matches
<1>1. LastWith(s, s.cases[i].id) = i
  BY LastIsOnly
<1>3. s.cases[i].id \in Ids(s)
  BY DEF Ids
<1>4. made.cases[s.cases[i].id] = EvidenceOf(s, v, s.cases[i])
  BY <1>1, <1>3 DEF EvidenceFrom
<1>5. s.cases[i].id \in DOMAIN made.cases
  BY <1>3 DEF EvidenceFrom
<1>6. \A k \in DOMAIN s.cases[i].candidates :
        Fits(v.recipes[s.cases[i].id][s.cases[i].candidates[k]],
             s.definitions[s.cases[i].candidates[k]])
  BY DEF Supported, HasEvent
<1>7. /\ made.cases[s.cases[i].id].flags = s.cases[i].flags
      /\ made.cases[s.cases[i].id].domain = s.domain
  BY <1>4 DEF EvidenceOf
<1>8. made.cases[s.cases[i].id].entries = Entries(s, v, s.cases[i])
  BY <1>4 DEF EvidenceOf
<1>9. /\ DOMAIN Entries(s, v, s.cases[i]) = DOMAIN s.cases[i].candidates
      /\ \A k \in DOMAIN s.cases[i].candidates :
           /\ Entries(s, v, s.cases[i])[k].effect = s.definitions[s.cases[i].candidates[k]].effect
           /\ Entries(s, v, s.cases[i])[k].event
                = v.recipes[s.cases[i].id][s.cases[i].candidates[k]]
  BY DEF Entries
<1> HIDE DEF made
<1> QED BY <1>5, <1>6, <1>7, <1>8, <1>9

\* Two sources that differ in nothing but what they claim of a candidate besides
\* its type, its domain and its effect id.
SameButClaims(s, t) ==
  /\ s.domain = t.domain
  /\ s.cases = t.cases
  /\ DOMAIN s.definitions = DOMAIN t.definitions
  /\ \A c \in DOMAIN s.definitions :
       /\ s.definitions[c].type = t.definitions[c].type
       /\ s.definitions[c].domain = t.definitions[c].domain
       /\ s.definitions[c].effect = t.definitions[c].effect

\* What a digest does not certify: a source whose claims have been edited is
\* supported as before, and regeneration puts its new digest on the same evidence
\* (generate_c2sp_fixtures.py:228-233 compares type and domain only).
THEOREM ClaimsAreNotCertified ==
  ASSUME NEW s \in Suites, NEW t \in Suites, NEW v \in Versions, SameButClaims(s, t), Unique(s)
  PROVE  /\ Supported(s, v) <=> Supported(t, v)
         /\ Supported(s, v) => EvidenceFrom(s, v).cases = EvidenceFrom(t, v).cases
<1>1. /\ s.cases = t.cases /\ s.domain = t.domain
      /\ Positions(s) = Positions(t) /\ Ids(s) = Ids(t)
  BY DEF SameButClaims, Positions, Ids
<1>2. ASSUME NEW id, NEW c PROVE HasEvent(s, v, id, c) <=> HasEvent(t, v, id, c)
  BY DEF HasEvent, Fits, SameButClaims
<1>3. Supported(s, v) <=> Supported(t, v)
  BY <1>1, <1>2 DEF Supported
<1>4. ASSUME Supported(s, v), NEW i \in Positions(s)
      PROVE  EvidenceOf(s, v, s.cases[i]) = EvidenceOf(t, v, s.cases[i])
  <2>1. ASSUME NEW k \in DOMAIN s.cases[i].candidates
        PROVE  s.definitions[s.cases[i].candidates[k]].effect
                 = t.definitions[s.cases[i].candidates[k]].effect
    BY <1>4 DEF Supported, HasEvent, SameButClaims
  <2>2. Entries(s, v, s.cases[i]) = Entries(t, v, s.cases[i])
    BY <2>1 DEF Entries
  <2> QED BY <1>1, <2>2 DEF EvidenceOf
<1>5. Unique(t)
  BY <1>1 DEF Unique
<1>6. ASSUME Supported(s, v), NEW id \in Ids(s)
      PROVE  EvidenceOf(s, v, s.cases[LastWith(s, id)]) = EvidenceOf(t, v, t.cases[LastWith(t, id)])
  <2>1. PICK i \in Positions(s) : id = s.cases[i].id
    BY DEF Ids
  <2>2. LastWith(s, id) = i /\ LastWith(t, id) = i
    BY <1>1, <1>5, <2>1, LastIsOnly
  <2> QED BY <1>1, <1>4, <1>6, <2>2
<1>7. Supported(s, v) => EvidenceFrom(s, v).cases = EvidenceFrom(t, v).cases
  BY <1>1, <1>6 DEF EvidenceFrom
<1> QED BY <1>3, <1>7

\* What a generator would make, and whether the files are what it makes, depends
\* on the sources and the files alone.
LEMMA Untouched ==
  ASSUME UNCHANGED <<suite, version, directory>>
  PROVE  /\ \A f : Made(f)' = Made(f)
         /\ \A g : Makes(g)' = Makes(g)
         /\ UNCHANGED disk => (\A g : Reproducible(g)' = Reproducible(g)) /\ Loadable' = Loadable
<1>1. \A f : Made(f)' = Made(f)
  BY DEF Made
<1>2. \A g : Makes(g)' = Makes(g)
  BY DEF Makes
<1>3. ASSUME UNCHANGED disk PROVE \A g : Reproducible(g)' = Reproducible(g)
  BY <1>1, <1>2, <1>3 DEF Reproducible
<1>4. ASSUME UNCHANGED disk PROVE Loadable' = Loadable
  BY <1>4 DEF Loadable, Current, Handled
<1> QED BY <1>1, <1>2, <1>3, <1>4

-----------------------------------------------------------------------------

\* What is committed satisfies the invariant.
LEMMA Committed == Init => IInv
<1> SUFFICES ASSUME Init PROVE IInv
  OBVIOUS
<1>1. Placed
  BY DEF Init, Placed, Made, ByGenerator, Commands
<1>2. Signed(disk["evidence"])
  <2>1. disk["evidence"] = ByGenerator(EvidenceFrom(suite, version))
    BY DEF Init, Files, FilesOf, Made
  <2> QED BY <2>1, <1>1 DEF Init, Signed, ByGenerator, Placed
<1>3. OneRegenerationSuffices
  BY DEF Init, OneRegenerationSuffices
<1>4. Generating /\ Checking /\ Passed /\ LoadedAll
  BY DEF Init, Generating, Checking, Passed, LoadedAll, Started, Now, Generators
<1> QED BY <1>1, <1>2, <1>3, <1>4 DEF IInv

-----------------------------------------------------------------------------

\* Now, of any command and position.
At(c, p, x) == c # "none" /\ p \in DOMAIN Steps[c] /\ Steps[c][p] = x

\* Which commands have which step, and where.
LEMMA Places ==
  ASSUME NEW c \in Commands \cup {"none"}, NEW p \in Nat
  PROVE  /\ At(c, p, "compute") => c \in Generators /\ p = 1
         /\ \A f \in Files : At(c, p, f) => c \in Generators /\ p > 1 /\ f \in FilesOf[c]
         /\ At(c, p, "check_c2sp") => (c = "make" /\ p = 1) \/ (c = "run_one" /\ p = 3)
         /\ At(c, p, "check_wba") => (c = "make" /\ p = 2) \/ (c = "run_one" /\ p = 1)
         /\ At(c, p, "unittest") => (c = "make" /\ p = 3) \/ (c = "run_one" /\ p = 2)
         /\ At(c, p, "identity") => c \in {"make", "run_one"} /\ p = 4
         /\ At(c, p, "load") => (c \in {"make", "run_one"} /\ p = 5) \/ (c = "run_py" /\ p = 1)
         /\ At(c, p, "SDKs") <=> (c \in {"make", "run_one"} /\ p = 6) \/ (c = "run_py" /\ p = 2)
<1>1. CASE c = "none"
  BY <1>1 DEF At
<1>2. CASE c = "c2sp"
  <2>1. \A x : At(c, p, x) <=>
          \/ (p = 1 /\ x = "compute")
          \/ (p = 2 /\ x = "evidence")
          \/ (p = 3 /\ x = "bundle")
          \/ (p = 4 /\ x = "corpus")
          \/ (p = 5 /\ x = "checkpoints")
    BY <1>2 DEF At, Steps
  <2>2. FilesOf[c] = {"evidence", "bundle", "corpus", "checkpoints"}
    BY <1>2 DEF FilesOf
  <2>3. "compute" \notin Files
    BY DEF Files, FilesOf
  <2>4. \A f \in Files : At(c, p, f) => p > 1 /\ f \in FilesOf[c]
    BY <2>1, <2>2, <2>3
  <2>5. /\ At(c, p, "compute") <=> p = 1
        /\ ~At(c, p, "check_c2sp")
        /\ ~At(c, p, "check_wba")
        /\ ~At(c, p, "unittest")
        /\ ~At(c, p, "identity")
        /\ ~At(c, p, "load")
        /\ ~At(c, p, "SDKs")
    BY <2>1
  <2> QED BY <1>2, <2>4, <2>5 DEF Generators
<1>3. CASE c = "wba"
  <2>1. \A x : At(c, p, x) <=>
          \/ (p = 1 /\ x = "compute")
          \/ (p = 2 /\ x = "cert")
          \/ (p = 3 /\ x = "key")
          \/ (p = 4 /\ x = "vectors")
    BY <1>3 DEF At, Steps
  <2>2. FilesOf[c] = {"cert", "key", "vectors"}
    BY <1>3 DEF FilesOf
  <2>3. "compute" \notin Files
    BY DEF Files, FilesOf
  <2>4. \A f \in Files : At(c, p, f) => p > 1 /\ f \in FilesOf[c]
    BY <2>1, <2>2, <2>3
  <2>5. /\ At(c, p, "compute") <=> p = 1
        /\ ~At(c, p, "check_c2sp")
        /\ ~At(c, p, "check_wba")
        /\ ~At(c, p, "unittest")
        /\ ~At(c, p, "identity")
        /\ ~At(c, p, "load")
        /\ ~At(c, p, "SDKs")
    BY <2>1
  <2> QED BY <1>3, <2>4, <2>5 DEF Generators
<1>4. CASE c = "make"
  <2> DEFINE steps == <<"check_c2sp", "check_wba", "unittest", "identity", "load", "SDKs">>
  <2>0. Steps[c] = steps
    BY <1>4 DEF Steps
  <2>2. /\ DOMAIN steps = 1 .. 6
        /\ steps[1] = "check_c2sp"
        /\ steps[2] = "check_wba"
        /\ steps[3] = "unittest"
        /\ steps[4] = "identity"
        /\ steps[5] = "load"
        /\ steps[6] = "SDKs"
    OBVIOUS
  <2>3. p \in 1 .. 6 <=> p = 1 \/ p = 2 \/ p = 3 \/ p = 4 \/ p = 5 \/ p = 6
    OBVIOUS
  <2>1. \A x : At(c, p, x) <=>
          \/ (p = 1 /\ x = "check_c2sp")
          \/ (p = 2 /\ x = "check_wba")
          \/ (p = 3 /\ x = "unittest")
          \/ (p = 4 /\ x = "identity")
          \/ (p = 5 /\ x = "load")
          \/ (p = 6 /\ x = "SDKs")
    <3> HIDE DEF steps
    <3> QED BY <1>4, <2>0, <2>2, <2>3 DEF At
  <2>4. \A f \in Files : ~At(c, p, f)
    BY <2>1 DEF Files, FilesOf
  <2>5. /\ ~At(c, p, "compute")
        /\ At(c, p, "check_c2sp") <=> p = 1
        /\ At(c, p, "check_wba") <=> p = 2
        /\ At(c, p, "unittest") <=> p = 3
        /\ At(c, p, "identity") <=> p = 4
        /\ At(c, p, "load") <=> p = 5
        /\ At(c, p, "SDKs") <=> p = 6
    BY <2>1
  <2> QED BY <1>4, <2>4, <2>5 DEF Generators
<1>5. CASE c = "run_one"
  <2> DEFINE steps == <<"check_wba", "unittest", "check_c2sp", "identity", "load", "SDKs">>
  <2>0. Steps[c] = steps
    BY <1>5 DEF Steps, RunOne
  <2>2. /\ DOMAIN steps = 1 .. 6
        /\ steps[1] = "check_wba"
        /\ steps[2] = "unittest"
        /\ steps[3] = "check_c2sp"
        /\ steps[4] = "identity"
        /\ steps[5] = "load"
        /\ steps[6] = "SDKs"
    OBVIOUS
  <2>3. p \in 1 .. 6 <=> p = 1 \/ p = 2 \/ p = 3 \/ p = 4 \/ p = 5 \/ p = 6
    OBVIOUS
  <2>1. \A x : At(c, p, x) <=>
          \/ (p = 1 /\ x = "check_wba")
          \/ (p = 2 /\ x = "unittest")
          \/ (p = 3 /\ x = "check_c2sp")
          \/ (p = 4 /\ x = "identity")
          \/ (p = 5 /\ x = "load")
          \/ (p = 6 /\ x = "SDKs")
    <3> HIDE DEF steps
    <3> QED BY <1>5, <2>0, <2>2, <2>3 DEF At
  <2>4. \A f \in Files : ~At(c, p, f)
    BY <2>1 DEF Files, FilesOf
  <2>5. /\ ~At(c, p, "compute")
        /\ At(c, p, "check_c2sp") <=> p = 3
        /\ At(c, p, "check_wba") <=> p = 1
        /\ At(c, p, "unittest") <=> p = 2
        /\ At(c, p, "identity") <=> p = 4
        /\ At(c, p, "load") <=> p = 5
        /\ At(c, p, "SDKs") <=> p = 6
    BY <2>1
  <2> QED BY <1>5, <2>4, <2>5 DEF Generators
<1>6. CASE c = "run_py"
  <2>1. \A x : At(c, p, x) <=>
          \/ (p = 1 /\ x = "load")
          \/ (p = 2 /\ x = "SDKs")
    BY <1>6 DEF At, Steps
  <2>4. \A f \in Files : ~At(c, p, f)
    BY <2>1 DEF Files, FilesOf
  <2>5. /\ ~At(c, p, "compute")
        /\ ~At(c, p, "check_c2sp")
        /\ ~At(c, p, "check_wba")
        /\ ~At(c, p, "unittest")
        /\ ~At(c, p, "identity")
        /\ At(c, p, "load") <=> p = 1
        /\ At(c, p, "SDKs") <=> p = 2
    BY <2>1
  <2> QED BY <1>6, <2>4, <2>5 DEF Generators
<1> QED BY <1>1, <1>2, <1>3, <1>4, <1>5, <1>6 DEF Commands

\* The step under way, in terms of the table.
LEMMA NowIsAt ==
  ASSUME Placed
  PROVE  /\ command \in Commands \cup {"none"} /\ pos \in Nat
         /\ \A x : Now(x) <=> At(command, pos, x)
BY DEF Placed, Now, At

\* When the SDKs are run, every step before that has been passed.
LEMMA StartedNow ==
  ASSUME Placed, Started
  PROVE  \/ (command \in {"make", "run_one"} /\ pos = 6)
         \/ (command = "run_py" /\ pos = 2)
<1>1. command \in Commands \cup {"none"} /\ pos \in Nat /\ At(command, pos, "SDKs")
  BY NowIsAt DEF Started
<1> QED BY <1>1, Places

\* The same of the next state.
LEMMA StartedIsAt ==
  ASSUME Placed'
  PROVE  Started' => \/ (command' \in {"make", "run_one"} /\ pos' = 6)
                     \/ (command' = "run_py" /\ pos' = 2)
<1>1. command' \in Commands \cup {"none"} /\ pos' \in Nat
  BY DEF Placed
<1>2. Started' => At(command', pos', "SDKs")
  BY DEF Started, Now, At
<1>3. \A c \in Commands \cup {"none"}, p \in Nat :
        At(c, p, "SDKs") => (c \in {"make", "run_one"} /\ p = 6) \/ (c = "run_py" /\ p = 2)
  BY Places
<1> QED BY <1>1, <1>2, <1>3

\* After computing, a generator does nothing but write its files.
LEMMA GeneratorFiles ==
  ASSUME command \in Generators, pos \in DOMAIN Steps[command], NEW i \in 2 .. pos
  PROVE  Steps[command][i] \in Files
<1>1. CASE command = "c2sp"
  <2>1. /\ DOMAIN Steps[command] = 1 .. 5
        /\ Steps[command][2] = "evidence" /\ Steps[command][3] = "bundle"
        /\ Steps[command][4] = "corpus" /\ Steps[command][5] = "checkpoints"
    BY <1>1 DEF Steps
  <2>2. i = 2 \/ i = 3 \/ i = 4 \/ i = 5
    BY <2>1
  <2> QED BY <2>1, <2>2 DEF Files, FilesOf
<1>2. CASE command = "wba"
  <2>1. /\ DOMAIN Steps[command] = 1 .. 4
        /\ Steps[command][2] = "cert" /\ Steps[command][3] = "key"
        /\ Steps[command][4] = "vectors"
    BY <1>2 DEF Steps
  <2>2. i = 2 \/ i = 3 \/ i = 4
    BY <2>1
  <2> QED BY <2>1, <2>2 DEF Files, FilesOf
<1> QED BY <1>1, <1>2 DEF Generators

\* A generator at its end has written every file it makes.
LEMMA AllWritten ==
  ASSUME command \in Generators, pos \in Nat \ {0}, pos \notin DOMAIN Steps[command]
  PROVE  pos > 1 /\ FilesOf[command] \subseteq WrittenFiles
<1>1. CASE command = "c2sp"
  <2>1. /\ DOMAIN Steps[command] = 1 .. 5
        /\ Steps[command][2] = "evidence" /\ Steps[command][3] = "bundle"
        /\ Steps[command][4] = "corpus" /\ Steps[command][5] = "checkpoints"
    BY <1>1 DEF Steps
  <2>2. pos > 5 /\ {2, 3, 4, 5} \subseteq 2 .. pos - 1
    BY <2>1
  <2> QED BY <1>1, <2>1, <2>2 DEF WrittenFiles, FilesOf
<1>2. CASE command = "wba"
  <2>1. /\ DOMAIN Steps[command] = 1 .. 4
        /\ Steps[command][2] = "cert" /\ Steps[command][3] = "key"
        /\ Steps[command][4] = "vectors"
    BY <1>2 DEF Steps
  <2>2. pos > 4 /\ {2, 3, 4} \subseteq 2 .. pos - 1
    BY <2>1
  <2> QED BY <1>2, <2>1, <2>2 DEF WrittenFiles, FilesOf
<1> QED BY <1>1, <1>2 DEF Generators

\* Where no command is under way, nothing is claimed of one.
LEMMA Stopping ==
  ASSUME command' = "none"
  PROVE  Generating' /\ Checking' /\ Passed' /\ LoadedAll'
BY DEF Generating, Checking, Passed, LoadedAll, Started, Now, Generators

\* A step that leaves sources and files alone keeps what is said of the files.
LEMMA Quiet ==
  ASSUME IInv, UNCHANGED <<suite, version, directory, disk, fresh>>
  PROVE  Signed(disk["evidence"])' /\ OneRegenerationSuffices'
<1>1. \A g : Reproducible(g)' = Reproducible(g)
  BY Untouched
<1> QED BY <1>1 DEF IInv, Signed, OneRegenerationSuffices

\* Every step preserves the invariant.
LEMMA Preserved == IInv /\ [Next]_vars => IInv'
<1> SUFFICES ASSUME IInv, [Next]_vars PROVE IInv'
  OBVIOUS
<1>1. CASE UNCHANGED vars
  <2>1. (\A f : Made(f)' = Made(f)) /\ (\A g : Makes(g)' = Makes(g))
        /\ (\A g : Reproducible(g)' = Reproducible(g)) /\ Loadable' = Loadable
    BY <1>1, Untouched DEF vars
  <2>2. Placed' /\ Passed'
    BY <1>1 DEF vars, IInv, Placed, Passed
  <2>3. Generating'
    BY <1>1, <2>1 DEF vars, IInv, Generating, WrittenFiles
  <2>4. Checking' /\ LoadedAll'
    BY <1>1, <2>1 DEF vars, IInv, Checking, LoadedAll, Started, Now
  <2> QED BY <1>1, <2>2, <2>3, <2>4, Quiet DEF IInv, vars
<1>2. CASE EditSemantics \/ EditPrograms \/ EditDirectory
  <2>1. command' = "none" /\ fresh' = {} /\ UNCHANGED <<disk, pos>>
    BY <1>2 DEF EditSemantics, EditPrograms, EditDirectory, Edit
  <2>2. Placed'
    BY <1>2, <2>1 DEF EditSemantics, EditPrograms, EditDirectory, IInv, Placed
  <2>3. Signed(disk["evidence"])' /\ OneRegenerationSuffices'
    BY <2>1 DEF IInv, Signed, OneRegenerationSuffices
  <2> QED BY <2>1, <2>2, <2>3, Stopping DEF IInv
<1>3. CASE EditGenerated
  <2>1. command' = "none" /\ fresh' = {} /\ UNCHANGED <<suite, version, directory, pos>>
    BY <1>3 DEF EditGenerated, Edit, sources
  <2>2. PICK f \in Files, by \in {"hand", "careless_hand"} : disk' = [disk EXCEPT ![f].by = by]
    BY <1>3 DEF EditGenerated
  <2>3. /\ DOMAIN disk' = Files
        /\ \A e \in Files : "by" \in DOMAIN disk'[e]
        /\ disk'["evidence"].by = "generator" => disk'["evidence"] = disk["evidence"]
    BY <2>2 DEF IInv, Placed, Files, FilesOf
  <2>4. Placed'
    BY <2>1, <2>3 DEF IInv, Placed
  <2>5. Signed(disk["evidence"])' /\ OneRegenerationSuffices'
    BY <2>1, <2>3 DEF IInv, Signed, OneRegenerationSuffices
  <2> QED BY <2>1, <2>4, <2>5, Stopping DEF IInv
<1>4. CASE Start
  <2>1. /\ command' \in Commands /\ pos' = 1 /\ checked' = {}
        /\ UNCHANGED <<suite, version, directory, disk, fresh>>
    BY <1>4 DEF Start, Steps, Commands
  <2>2. Placed'
    BY <2>1 DEF IInv, Placed
  <2>3. Generating' /\ Checking' /\ Passed'
    BY <2>1 DEF Generating, Checking, Passed
  <2>4. LoadedAll'
    BY <2>1, <2>2, StartedIsAt DEF LoadedAll
  <2> QED BY <2>1, <2>2, <2>3, <2>4, Quiet DEF IInv
<1>5. CASE Compute
  <2>1. command \in Generators /\ pos = 1
    BY <1>5, Places, NowIsAt DEF Compute, IInv
  <2>2. UNCHANGED <<suite, version, directory, disk, fresh>>
    BY <1>5 DEF Compute
  <2>3. Signed(disk["evidence"])' /\ OneRegenerationSuffices'
    BY <2>2, Quiet
  <2>4. CASE Stop
    <3>1. Placed'
      BY <2>2, <2>4 DEF Stop, IInv, Placed
    <3> QED BY <2>3, <2>4, <3>1, Stopping DEF IInv, Stop
  <2>5. CASE Makes(command) /\ Advance /\ outputs' = OutputsOf(command)
    <3>1. command' = command /\ pos' = 2
      BY <2>1, <2>5 DEF Advance
    <3>2. Placed'
      BY <2>2, <3>1 DEF IInv, Placed
    <3>3. WrittenFiles' = {}
      BY <3>1 DEF WrittenFiles
    <3>4. Generating'
      BY <2>2, <2>5, <3>1, <3>3, Untouched DEF Generating, OutputsOf
    <3>5. Checking' /\ Passed'
      BY <2>1, <3>1 DEF Checking, Passed, Generators
    <3>6. LoadedAll'
      BY <2>1, <3>1, <3>2, StartedIsAt DEF LoadedAll, Generators
    <3> QED BY <2>3, <3>2, <3>4, <3>5, <3>6 DEF IInv
  <2> QED BY <1>5, <2>4, <2>5 DEF Compute
<1>6. CASE Write
  <2>1. PICK f \in Files : Now(f) /\ disk' = [disk EXCEPT ![f] = outputs[f]]
    BY <1>6 DEF Write
  <2>2. command \in Generators /\ pos > 1 /\ f \in FilesOf[command]
    BY <2>1, Places, NowIsAt DEF IInv
  <2>3. /\ command' = command /\ pos' = pos + 1 /\ outputs' = outputs
        /\ UNCHANGED <<suite, version, directory, fresh>>
    BY <1>6 DEF Write, Advance
  <2>4. Makes(command) /\ outputs[f] = Made(f)
    BY <2>2 DEF IInv, Generating
  <2>5. DOMAIN disk' = Files /\ \A h \in Files : disk'[h] = IF h = f THEN Made(f) ELSE disk[h]
    BY <2>1, <2>4 DEF IInv, Placed
  <2>6. Placed'
    BY <2>3, <2>5 DEF IInv, Placed, Made, ByGenerator
  <2>7. Signed(disk["evidence"])'
    <3>1. "evidence" \in Files /\ "evidence" \notin FilesOf["wba"]
      BY DEF Files, FilesOf
    <3>2. CASE f = "evidence"
      <4>1. Supported(suite, version)
        BY <2>2, <2>4, <3>1, <3>2 DEF Makes, Generators
      <4>2. disk'["evidence"] = ByGenerator(EvidenceFrom(suite, version))
        BY <2>5, <3>1, <3>2 DEF Made
      <4> QED BY <4>1, <4>2 DEF Signed, ByGenerator, IInv, Placed
    <3>3. CASE f # "evidence"
      BY <2>5, <3>1, <3>3 DEF Signed, IInv
    <3> QED BY <3>2, <3>3
  <2>8. (\A h : Made(h)' = Made(h)) /\ (\A g : Makes(g)' = Makes(g))
    BY <2>3, Untouched
  <2>9. OneRegenerationSuffices'
    <3> SUFFICES ASSUME NEW g \in fresh PROVE Reproducible(g)'
      BY <2>3 DEF OneRegenerationSuffices
    <3>1. Reproducible(g) /\ FilesOf[g] \subseteq Files
      BY DEF IInv, OneRegenerationSuffices, Placed, Files, Generators
    <3> QED BY <2>5, <2>8, <3>1 DEF Reproducible
  <2>10. Generating'
    <3>1. Makes(command)' /\ outputs' = [h \in FilesOf[command] |-> Made(h)']
      BY <2>2, <2>3, <2>8 DEF IInv, Generating
    <3>2. ASSUME NEW h \in WrittenFiles' PROVE disk'[h] = Made(h)
      <4>1. PICK i \in 2 .. pos : h = Steps[command][i]
        BY <2>3, <3>2 DEF WrittenFiles, IInv, Placed
      <4>2. CASE i = pos
        <5>1. h = f
          BY <2>1, <4>1, <4>2 DEF Now
        <5> QED BY <2>5, <5>1
      <4>3. CASE i # pos
        <5>1. h \in WrittenFiles
          BY <4>1, <4>3 DEF WrittenFiles, IInv, Placed
        <5>2. disk[h] = Made(h)
          BY <2>2, <5>1 DEF IInv, Generating
        <5>3. h \in Files
          BY <2>1, <2>2, <4>1, GeneratorFiles DEF Now
        <5> QED BY <2>5, <5>2, <5>3
      <4> QED BY <4>2, <4>3
    <3> QED BY <2>3, <2>8, <3>1, <3>2 DEF Generating
  <2>11. Checking' /\ Passed'
    BY <2>2, <2>3 DEF Checking, Passed, Generators
  <2>12. LoadedAll'
    BY <2>2, <2>3, <2>6, StartedIsAt DEF LoadedAll, Generators
  <2> QED BY <2>6, <2>7, <2>9, <2>10, <2>11, <2>12 DEF IInv
<1>7. ASSUME NEW g \in Generators, Check(g) PROVE IInv'
  <2>1. UNCHANGED <<suite, version, directory, disk, fresh>>
    BY <1>7 DEF Check
  <2>2. Signed(disk["evidence"])' /\ OneRegenerationSuffices'
    BY <2>1, Quiet
  <2>3. \A h : Reproducible(h)' = Reproducible(h)
    BY <2>1, Untouched
  <2>4. CASE Stop
    <3>1. Placed'
      BY <2>1, <2>4 DEF Stop, IInv, Placed
    <3> QED BY <2>2, <2>4, <3>1, Stopping DEF IInv, Stop
  <2>5. CASE Reproducible(g) /\ Advance /\ checked' = checked \cup {g}
    <3>1. \/ (g = "c2sp" /\ ((command = "make" /\ pos = 1) \/ (command = "run_one" /\ pos = 3)))
          \/ (g = "wba" /\ ((command = "make" /\ pos = 2) \/ (command = "run_one" /\ pos = 1)))
      <4>1. CASE g = "c2sp"
        BY <1>7, <4>1, Places, NowIsAt DEF Check, CheckName, IInv
      <4>2. CASE g = "wba"
        BY <1>7, <4>2, Places, NowIsAt DEF Check, CheckName, IInv
      <4> QED BY <4>1, <4>2 DEF Generators
    <3>2. command' = command /\ pos' = pos + 1
      BY <2>5 DEF Advance
    <3>3. Placed'
      BY <2>1, <3>2 DEF IInv, Placed
    <3>4. Generating'
      BY <3>1, <3>2 DEF Generating, Generators
    <3>5. Checking'
      BY <2>3, <2>5, <3>1, <3>2 DEF IInv, Checking, Generators
    <3>6. Passed'
      BY <2>5, <3>1, <3>2 DEF IInv, Passed
    <3>7. LoadedAll'
      BY <3>1, <3>2, <3>3, StartedIsAt DEF LoadedAll
    <3> QED BY <2>2, <3>3, <3>4, <3>5, <3>6, <3>7 DEF IInv
  <2> QED BY <1>7, <2>4, <2>5 DEF Check
<1>8. CASE UnitTests \/ EventIdentity \/ Load \/ RunSdks
  <2>1. UNCHANGED <<suite, version, directory, disk, fresh>>
    BY <1>8 DEF UnitTests, EventIdentity, Load, RunSdks
  <2>2. Signed(disk["evidence"])' /\ OneRegenerationSuffices'
    BY <2>1, Quiet
  <2>3. Loadable' = Loadable /\ \A h : Reproducible(h)' = Reproducible(h)
    BY <2>1, Untouched
  <2>4. CASE Stop
    <3>1. Placed'
      BY <2>1, <2>4 DEF Stop, IInv, Placed
    <3> QED BY <2>2, <2>4, <3>1, Stopping DEF IInv, Stop
  <2>5. CASE Advance
    <3>1. command' = command /\ pos' = pos + 1
      BY <2>5 DEF Advance
    <3>2. Placed'
      BY <2>1, <3>1 DEF IInv, Placed
    <3>3. CASE UnitTests
      <4>1. (command = "make" /\ pos = 3) \/ (command = "run_one" /\ pos = 2)
        BY <3>3, Places, NowIsAt DEF UnitTests, IInv
      <4>2. UNCHANGED checked
        BY <3>3 DEF UnitTests
      <4>3. Generating' /\ Checking' /\ Passed'
        BY <2>3, <3>1, <4>1, <4>2 DEF IInv, Generating, Checking, Passed, Generators
      <4>4. LoadedAll'
        BY <3>1, <3>2, <4>1, StartedIsAt DEF LoadedAll
      <4> QED BY <2>2, <3>2, <4>3, <4>4 DEF IInv
    <3>4. CASE EventIdentity
      <4>1. command \in {"make", "run_one"} /\ pos = 4
        BY <3>4, Places, NowIsAt DEF EventIdentity, IInv
      <4>2. checked' = checked \cup {Identity}
        BY <3>1, <3>4, <4>1 DEF EventIdentity, Stop
      <4>3. Identity \notin Generators
        BY DEF Identity, Generators
      <4>4. Generating' /\ Passed'
        BY <3>1, <4>1, <4>2 DEF IInv, Generating, Passed, Generators
      <4>5. Checking'
        BY <2>3, <3>1, <4>1, <4>2, <4>3 DEF IInv, Checking
      <4>6. LoadedAll'
        BY <3>1, <3>2, <4>1, StartedIsAt DEF LoadedAll
      <4> QED BY <2>2, <3>2, <4>4, <4>5, <4>6 DEF IInv
    <3>5. CASE Load
      <4>1. (command \in {"make", "run_one"} /\ pos = 5) \/ (command = "run_py" /\ pos = 1)
        BY <3>5, Places, NowIsAt DEF Load, IInv
      <4>2. Loadable /\ UNCHANGED checked
        BY <3>1, <3>5, <4>1 DEF Load, Stop
      <4>3. Generating' /\ Checking' /\ Passed'
        BY <2>3, <3>1, <4>1, <4>2 DEF IInv, Generating, Checking, Passed, Generators
      <4> QED BY <2>2, <2>3, <3>2, <4>2, <4>3 DEF IInv, LoadedAll
    <3>6. CASE RunSdks
      <4>1. (command \in {"make", "run_one"} /\ pos = 6) \/ (command = "run_py" /\ pos = 2)
        BY <3>6, Places, NowIsAt DEF RunSdks, IInv
      <4>2. UNCHANGED checked
        BY <3>6 DEF RunSdks
      <4>3. Generating' /\ Checking' /\ Passed'
        BY <2>3, <3>1, <4>1, <4>2 DEF IInv, Generating, Checking, Passed, Generators
      <4>4. LoadedAll'
        BY <3>1, <3>2, <4>1, StartedIsAt DEF LoadedAll
      <4> QED BY <2>2, <3>2, <4>3, <4>4 DEF IInv
    <3> QED BY <1>8, <3>3, <3>4, <3>5, <3>6
  <2> QED BY <1>8, <2>4, <2>5 DEF UnitTests, EventIdentity, Load, RunSdks
<1>9. CASE End
  <2>1. /\ command \in Commands /\ pos \notin DOMAIN Steps[command] /\ pos \in Nat \ {0}
        /\ command' = "none" /\ pos' = 0 /\ fresh' = fresh \cup Completed
        /\ UNCHANGED <<suite, version, directory, disk>>
    BY <1>9 DEF End, Stop, IInv, Placed
  <2>2. Placed'
    BY <2>1 DEF IInv, Placed, Completed
  <2>3. Signed(disk["evidence"])'
    BY <2>1 DEF IInv, Signed
  <2>4. OneRegenerationSuffices'
    <3>1. \A g : Reproducible(g)' = Reproducible(g)
      BY <2>1, Untouched
    <3>2. ASSUME command \in Generators PROVE Reproducible(command)
      <4>1. pos > 1 /\ FilesOf[command] \subseteq WrittenFiles
        BY <2>1, <3>2, AllWritten
      <4> QED BY <3>2, <4>1 DEF IInv, Generating, Reproducible
    <3> QED BY <2>1, <3>1, <3>2 DEF IInv, OneRegenerationSuffices, Completed
  <2> QED BY <2>1, <2>2, <2>3, <2>4, Stopping DEF IInv
<1>10. CASE Interrupt
  <2>1. command' = "none" /\ pos' = 0 /\ UNCHANGED <<suite, version, directory>>
    BY <1>10 DEF Interrupt, Stop
  <2>2. CASE UNCHANGED disk /\ UNCHANGED fresh
    <3>1. Placed'
      BY <2>1, <2>2 DEF IInv, Placed
    <3> QED BY <2>1, <2>2, <3>1, Quiet, Stopping DEF IInv
  <2>3. CASE \E f \in Files : /\ Now(f)
                             /\ disk' = [disk EXCEPT ![f] = Partial]
                             /\ fresh' = fresh \ {command}
    <3>1. PICK f \in Files : /\ Now(f)
                             /\ disk' = [disk EXCEPT ![f] = Partial]
                             /\ fresh' = fresh \ {command}
      BY <2>3
    <3>2. command \in Generators /\ f \in FilesOf[command]
      BY <3>1, Places, NowIsAt DEF IInv
    <3>3. DOMAIN disk' = Files /\ \A h \in Files : disk'[h] = IF h = f THEN Partial ELSE disk[h]
      BY <3>1 DEF IInv, Placed
    <3>4. Placed'
      BY <2>1, <3>1, <3>3 DEF IInv, Placed, Partial
    <3>5. Signed(disk["evidence"])'
      BY <3>3 DEF IInv, Signed, Partial, Files, FilesOf
    <3>6. OneRegenerationSuffices'
      <4> SUFFICES ASSUME NEW g \in fresh, g # command PROVE Reproducible(g)'
        BY <3>1 DEF OneRegenerationSuffices
      <4>1. Reproducible(g) /\ g \in Generators
        BY DEF IInv, OneRegenerationSuffices, Placed
      <4>3. FilesOf["c2sp"] \cap FilesOf["wba"] = {}
        BY DEF FilesOf
      <4>4. FilesOf[g] \subseteq Files /\ f \notin FilesOf[g]
        BY <3>2, <4>1, <4>3 DEF Files, Generators
      <4>2. (\A h : Made(h)' = Made(h)) /\ Makes(g)' = Makes(g)
        BY <2>1, Untouched
      <4> QED BY <3>3, <4>1, <4>2, <4>4 DEF Reproducible
    <3> QED BY <2>1, <3>4, <3>5, <3>6, Stopping DEF IInv
  <2> QED BY <1>10, <2>2, <2>3 DEF Interrupt
<1> QED BY <1>1, <1>2, <1>3, <1>4, <1>5, <1>6, <1>7, <1>8, <1>9, <1>10 DEF Next

\* The invariant holds in every reachable state.
LEMMA Inductive == Spec => []IInv
BY Committed, Preserved, PTL DEF Spec

-----------------------------------------------------------------------------

\* A generated evidence file agrees, in candidate order, scenario flags and wire
\* definitions, with the source it names (src/README.md:328).
THEOREM DigestCertifiesWireAlways == Spec => []DigestCertifiesWire
<1>1. IInv => DigestCertifiesWire
  <2> DEFINE evidence == disk["evidence"]
  <2> SUFFICES ASSUME IInv, evidence.by = "generator", Unique(evidence.content.digest)
               PROVE  Matches(evidence.content, evidence.content.digest)
    BY DEF DigestCertifiesWire
  <2>1. PICK s \in Suites, v \in Versions : Supported(s, v) /\ evidence.content = EvidenceFrom(s, v)
    BY DEF IInv, Signed
  <2>2. evidence.content.digest = s
    BY <2>1 DEF EvidenceFrom
  <2> HIDE DEF evidence
  <2> QED BY <2>1, <2>2, EvidenceMatches
<1> QED BY <1>1, Inductive, PTL

\* No SDK is run on evidence for semantics that have changed since.
THEOREM RunUsesCurrentEvidenceAlways == Spec => []RunUsesCurrentEvidence
<1>1. IInv => RunUsesCurrentEvidence
  <2> DEFINE evidence == disk["evidence"]
  <2> SUFFICES ASSUME IInv, Started, evidence.by = "generator"
               PROVE  Matches(evidence.content, suite)
    BY DEF RunUsesCurrentEvidence
  <2>1. PICK s \in Suites, v \in Versions : Supported(s, v) /\ evidence.content = EvidenceFrom(s, v)
    BY DEF IInv, Signed
  <2>2. evidence.content.digest = s
    BY <2>1 DEF EvidenceFrom
  <2>3. evidence.content.digest = suite /\ Unique(suite)
    BY DEF IInv, LoadedAll, Loadable, Current
  <2> HIDE DEF evidence
  <2> QED BY <2>1, <2>2, <2>3, EvidenceMatches
<1> QED BY <1>1, Inductive, PTL

\* Behind the checks of make run or run-one.sh, whichever way they are ordered,
\* every generated file is reproducible from the sources.
THEOREM CheckedRunIsReproducibleAlways == Spec => []CheckedRunIsReproducible
<1>1. IInv => CheckedRunIsReproducible
  <2> SUFFICES ASSUME IInv, Started, command # "run_py"
               PROVE  \A g \in Generators : Reproducible(g)
    BY DEF CheckedRunIsReproducible
  <2>1. (command = "make" \/ command = "run_one") /\ pos = 6
    BY StartedNow DEF IInv
  <2>2. Passed /\ Checking /\ 6 > 4 /\ 6 > 3 /\ 6 > 2 /\ 6 > 1
    BY DEF IInv
  <2>3. "c2sp" \in checked /\ "wba" \in checked
    BY <2>1, <2>2 DEF Passed
  <2>4. command \notin Generators \cup {"none"}
    BY <2>1 DEF Generators
  <2> QED BY <2>2, <2>3, <2>4 DEF Checking, Generators
<1> QED BY <1>1, Inductive, PTL

\* No file of the conformance directory is left out of a run, the two that are
\* listed and never looked at aside.
THEOREM EveryVectorFileIsUsedAlways == Spec => []EveryVectorFileIsUsed
<1>1. IInv => EveryVectorFileIsUsed
  <2> SUFFICES ASSUME IInv, Started
               PROVE  directory \ (HandListed \ {Identity})
                        \subseteq version.loads \cup (IF command = "run_py" THEN {Identity} ELSE checked)
    BY DEF EveryVectorFileIsUsed
  <2>1. directory = (version.loads \ HandListed) \cup HandListed
    BY DEF IInv, LoadedAll, Loadable, Handled
  <2>2. command \in {"make", "run_one", "run_py"} /\ (command # "run_py" => pos = 6)
    BY StartedNow DEF IInv
  <2>3. command # "run_py" => Identity \in checked
    <3>1. Passed /\ 6 > 4
      BY DEF IInv
    <3> QED BY <2>2, <3>1 DEF Passed
  <2> QED BY <2>1, <2>3
<1> QED BY <1>1, Inductive, PTL

\* One completed regeneration is enough, whatever was interrupted before it.
THEOREM OneRegenerationSufficesAlways == Spec => []OneRegenerationSuffices
<1>1. IInv => OneRegenerationSuffices
  BY DEF IInv
<1> QED BY <1>1, Inductive, PTL
=============================================================================
