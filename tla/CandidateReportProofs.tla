----------------------- MODULE CandidateReportProofs -----------------------
(***************************************************************************)
(* CandidateReport for logs and lists of events of any length: whatever    *)
(* the adapter leaves out, matches or searches for, it reports what the    *)
(* suite expects of the request as it is.                                  *)
(***************************************************************************)
EXTENDS CandidateReport, SequenceTheorems, WellFoundedInduction, TLAPS

-----------------------------------------------------------------------------
(* Recursions, by induction over the set of the numbers reached.           *)

\* A set of numbers that is not empty has a least element.
LEMMA LeastNumber ==
  ASSUME NEW S, S \subseteq Nat, S # {}
  PROVE  \E x \in S : \A y \in S : x <= y
<1> DEFINE R == OpToRel(<, Nat)
<1>1. IsWellFoundedOn(R, Nat)
  BY NatLessThanWellFounded
<1>2. \A x, y \in Nat : x < y => <<x, y>> \in R
  BY DEF OpToRel
<1> HIDE DEF R
<1>3. PICK x \in S : \A y \in S : ~ (<<y, x>> \in R)
  BY <1>1, WFMin, Zenon
<1>4. \A y \in S : ~ (y < x)
  BY <1>2, <1>3
<1> QED
  BY <1>4

\* A set that holds 0 and with each number below a bound the next holds them all.
LEMMA Inductive ==
  ASSUME NEW N \in Nat, NEW S, 0 \in S, \A n \in Nat : n < N /\ n \in S => n + 1 \in S
  PROVE  0 .. N \subseteq S
<1> SUFFICES ASSUME (0 .. N) \ S # {} PROVE FALSE
  OBVIOUS
<1> DEFINE D == (0 .. N) \ S
<1>0. D \subseteq Nat /\ D # {}
  OBVIOUS
<1> HIDE DEF D
<1>1. PICK m \in D : \A y \in D : m <= y
  BY <1>0, LeastNumber
<1>2. m # 0 /\ m - 1 \in 0 .. N /\ m - 1 < N
  BY <1>1 DEF D
<1>3. PICK k : k = m - 1
  OBVIOUS
<1>4. k \in Nat /\ k < N /\ k \in S /\ k + 1 = m
  BY <1>1, <1>2, <1>3 DEF D
<1>5. m \in S
  BY <1>4
<1> QED
  BY <1>1, <1>5 DEF D

\* The recursion of Locals has a solution.
LEMMA LocalsExist ==
  ASSUME NEW w, NEW N \in Nat
  PROVE  \E f : f = [n \in 0 .. N |-> IF n = 0 THEN Oracle!NothingRead ELSE Oracle!After(f[n - 1], w[n], n)]
<1> DEFINE Solves(f, m) == f = [n \in 0 .. m |-> IF n = 0 THEN Oracle!NothingRead ELSE Oracle!After(f[n - 1], w[n], n)]
           Solved == {m \in Nat : \E f : Solves(f, m)}
<1>1. 0 \in Solved
  <2> DEFINE f == [n \in 0 .. 0 |-> Oracle!NothingRead]
  <2>1. Solves(f, 0)
    OBVIOUS
  <2> QED
    BY <2>1
<1>2. ASSUME NEW m \in Nat, m \in Solved PROVE m + 1 \in Solved
  <2>1. PICK f : Solves(f, m)
    BY <1>2
  <2> DEFINE more == Oracle!After(f[m], w[m + 1], m + 1)
             g == [n \in 0 .. m + 1 |-> IF n <= m THEN f[n] ELSE more]
             h == [n \in 0 .. m + 1 |-> IF n = 0 THEN Oracle!NothingRead ELSE Oracle!After(g[n - 1], w[n], n)]
  <2>2. ASSUME NEW n \in 0 .. m + 1 PROVE g[n] = h[n]
    <3>1. CASE n = 0
      BY <2>1, <3>1
    <3>2. CASE n \in 1 .. m
      <4>1. f[n] = Oracle!After(f[n - 1], w[n], n)
        BY <2>1, <3>2
      <4>2. g[n] = f[n] /\ g[n - 1] = f[n - 1]
        BY <3>2
      <4> QED
        BY <3>2, <4>1, <4>2
    <3>3. CASE n = m + 1
      <4>1. g[n] = more /\ g[n - 1] = f[m]
        BY <3>3
      <4> QED
        BY <3>3, <4>1
    <3> QED
      BY <3>1, <3>2, <3>3
  <2>3. g = h
    <3> HIDE DEF Solved
    <3> QED
      BY <2>2
  <2>4. Solves(g, m + 1)
    BY <2>3
  <2> HIDE DEF Solves, g, h
  <2> QED
    BY <2>4
<1> HIDE DEF Solved
<1>3. N \in Solved
  BY <1>1, <1>2, Inductive
<1> QED
  BY <1>3 DEF Solved

Turns(f, w, day, N) ==
  f = [n \in 0 .. N |->
         IF n = 0 THEN Reducer!NoEvents ELSE Reducer!After(f[n - 1], w[n], n, day)]

\* The recursion of Events has a solution.
LEMMA EventsExist ==
  ASSUME NEW w, NEW day, NEW N \in Nat
  PROVE  \E f : Turns(f, w, day, N)
<1> USE DEF Turns
<1> DEFINE Solves(f, m) == Turns(f, w, day, m)
           Solved == {m \in Nat : \E f : Solves(f, m)}
<1>1. 0 \in Solved
  <2> DEFINE f == [n \in 0 .. 0 |-> Reducer!NoEvents]
  <2>1. Solves(f, 0)
    OBVIOUS
  <2> QED
    BY <2>1
<1>2. ASSUME NEW m \in Nat, m \in Solved PROVE m + 1 \in Solved
  <2>1. PICK f : Solves(f, m)
    BY <1>2
  <2> DEFINE more == Reducer!After(f[m], w[m + 1], m + 1, day)
             g == [n \in 0 .. m + 1 |-> IF n <= m THEN f[n] ELSE more]
             h == [n \in 0 .. m + 1 |-> IF n = 0 THEN Reducer!NoEvents ELSE Reducer!After(g[n - 1], w[n], n, day)]
  <2>2. ASSUME NEW n \in 0 .. m + 1 PROVE g[n] = h[n]
    <3>1. CASE n = 0
      BY <2>1, <3>1
    <3>2. CASE n \in 1 .. m
      <4>1. f[n] = Reducer!After(f[n - 1], w[n], n, day)
        BY <2>1, <3>2
      <4>2. g[n] = f[n] /\ g[n - 1] = f[n - 1]
        BY <3>2
      <4> QED
        BY <3>2, <4>1, <4>2
    <3>3. CASE n = m + 1
      <4>1. g[n] = more /\ g[n - 1] = f[m]
        BY <3>3
      <4> QED
        BY <3>3, <4>1
    <3> QED
      BY <3>1, <3>2, <3>3
  <2>3. g = h
    <3> HIDE DEF Solved
    <3> QED
      BY <2>2
  <2>4. Solves(g, m + 1)
    BY <2>3
  <2> HIDE DEF Solves, g, h
  <2> QED
    BY <2>4
<1> HIDE DEF Solved
<1>3. N \in Solved
  BY <1>1, <1>2, Inductive
<1> QED
  BY <1>3 DEF Solved

\* The recursion of Kepts has a solution.
LEMMA KeptsExist ==
  ASSUME NEW N \in Nat
  PROVE  \E f : f = [n \in 0 .. N |-> IF n = 0 THEN <<>> ELSE Keep(f[n - 1], n)]
<1> DEFINE Solves(f, m) == f = [n \in 0 .. m |-> IF n = 0 THEN <<>> ELSE Keep(f[n - 1], n)]
           Solved == {m \in Nat : \E f : Solves(f, m)}
<1>1. 0 \in Solved
  <2> DEFINE f == [n \in 0 .. 0 |-> <<>>]
  <2>1. Solves(f, 0)
    OBVIOUS
  <2> QED
    BY <2>1
<1>2. ASSUME NEW m \in Nat, m \in Solved PROVE m + 1 \in Solved
  <2>1. PICK f : Solves(f, m)
    BY <1>2
  <2> DEFINE more == Keep(f[m], m + 1)
             g == [n \in 0 .. m + 1 |-> IF n <= m THEN f[n] ELSE more]
             h == [n \in 0 .. m + 1 |-> IF n = 0 THEN <<>> ELSE Keep(g[n - 1], n)]
  <2>2. ASSUME NEW n \in 0 .. m + 1 PROVE g[n] = h[n]
    <3>1. CASE n = 0
      BY <2>1, <3>1
    <3>2. CASE n \in 1 .. m
      <4>1. f[n] = Keep(f[n - 1], n)
        BY <2>1, <3>2
      <4>2. g[n] = f[n] /\ g[n - 1] = f[n - 1]
        BY <3>2
      <4> QED
        BY <3>2, <4>1, <4>2
    <3>3. CASE n = m + 1
      <4>1. g[n] = more /\ g[n - 1] = f[m]
        BY <3>3
      <4> QED
        BY <3>3, <4>1
    <3> QED
      BY <3>1, <3>2, <3>3
  <2>3. g = h
    <3> HIDE DEF Solved
    <3> QED
      BY <2>2
  <2>4. Solves(g, m + 1)
    BY <2>3
  <2> HIDE DEF Solves, g, h
  <2> QED
    BY <2>4
<1> HIDE DEF Solved
<1>3. N \in Solved
  BY <1>1, <1>2, Inductive
<1> QED
  BY <1>3 DEF Solved

\* The locals of `expect', of the SDKs' SnapshotAt and of an adapter's loop over
\* the request, one turn at a time.
LEMMA LocalsStep ==
  ASSUME NEW w, Len(w) \in Nat
  PROVE  /\ Oracle!Locals(w)[0] = Oracle!NothingRead
         /\ \A n \in 1 .. Len(w) :
              Oracle!Locals(w)[n] = Oracle!After(Oracle!Locals(w)[n - 1], w[n], n)
<1> DEFINE f == Oracle!Locals(w)
<1>1. f = [n \in 0 .. Len(w) |->
             IF n = 0 THEN Oracle!NothingRead ELSE Oracle!After(f[n - 1], w[n], n)]
  BY LocalsExist DEF Oracle!Locals
<1>2. f = Oracle!Locals(w)
  OBVIOUS
<1> HIDE DEF f
<1>3. f[0] = Oracle!NothingRead
  BY <1>1
<1>4. ASSUME NEW n \in 1 .. Len(w)
      PROVE  f[n] = Oracle!After(f[n - 1], w[n], n)
  BY <1>1, <1>4
<1> QED
  BY <1>2, <1>3, <1>4

LEMMA EventsStep ==
  ASSUME NEW w, Len(w) \in Nat, NEW day
  PROVE  /\ Reducer!Locals(w, day)[0] = Reducer!NoEvents
         /\ \A n \in 1 .. Len(w) :
              Reducer!Locals(w, day)[n] = Reducer!After(Reducer!Locals(w, day)[n - 1], w[n], n, day)
<1> DEFINE f == Reducer!Locals(w, day)
<1>1. f = [n \in 0 .. Len(w) |->
             IF n = 0 THEN Reducer!NoEvents ELSE Reducer!After(f[n - 1], w[n], n, day)]
  <2>1. \E g : Turns(g, w, day, Len(w))
    BY EventsExist
  <2> QED
    BY <2>1 DEF Turns, Reducer!Locals
<1>2. f = Reducer!Locals(w, day)
  OBVIOUS
<1> HIDE DEF f
<1>3. f[0] = Reducer!NoEvents
  BY <1>1
<1>4. ASSUME NEW n \in 1 .. Len(w)
      PROVE  f[n] = Reducer!After(f[n - 1], w[n], n, day)
  BY <1>1, <1>4
<1> QED
  BY <1>2, <1>3, <1>4

LEMMA KeptsStep ==
  ASSUME Len(word) \in Nat
  PROVE  /\ KeptOf[0] = <<>>
         /\ \A n \in 1 .. Len(word) : KeptOf[n] = Keep(KeptOf[n - 1], n)
<1> DEFINE f == KeptOf
<1>1. f = [n \in 0 .. Len(word) |-> IF n = 0 THEN <<>> ELSE Keep(f[n - 1], n)]
  BY KeptsExist DEF KeptOf
<1>2. f = KeptOf
  OBVIOUS
<1> HIDE DEF f
<1>3. f[0] = <<>>
  BY <1>1
<1>4. ASSUME NEW n \in 1 .. Len(word) PROVE f[n] = Keep(f[n - 1], n)
  BY <1>1, <1>4
<1> QED
  BY <1>2, <1>3, <1>4

-----------------------------------------------------------------------------
(* Both loops over a request: what they hold, and that a prefix decides it. *)

LEMMA NumberAppended ==
  ASSUME NEW q \in Seq(Nat), NEW n \in Nat, \A i \in 1 .. Len(q) : q[i] \in 1 .. n
  PROVE  LET s == Append(q, n + 1) IN
         /\ s \in Seq(Nat) /\ s # <<>>
         /\ Len(s) = Len(q) + 1 /\ s[Len(q) + 1] = n + 1
         /\ \A i \in 1 .. Len(q) : s[i] = q[i]
         /\ \A i \in 1 .. Len(s) : s[i] \in 1 .. n + 1
<1> DEFINE s == Append(q, n + 1)
<1>1. /\ s \in Seq(Nat) /\ Len(s) = Len(q) + 1 /\ s[Len(q) + 1] = n + 1
      /\ \A i \in 1 .. Len(q) : s[i] = q[i]
  BY AppendProperties
<1>2. Len(q) \in Nat
  BY LenProperties
<1> HIDE DEF s
<1>3. s # <<>>
  BY <1>1, <1>2, EmptySeq
<1>4. ASSUME NEW i \in 1 .. Len(s) PROVE s[i] \in 1 .. n + 1
  <2>1. CASE i \in 1 .. Len(q)
    <3>1. s[i] \in 1 .. n
      BY <1>1, <2>1
    <3> QED
      BY <3>1
  <2>2. CASE i = Len(q) + 1
    BY <1>1, <2>2
  <2> QED
    BY <1>1, <1>2, <2>1, <2>2
<1> QED
  BY <1>1, <1>3, <1>4 DEF s

OracleFields == {"applied", "seen", "last", "dead", "failing", "errorCategory"}

\* One turn of `expect'.
LEMMA OracleTurn ==
  ASSUME NEW r, DOMAIN r = OracleFields, NEW c, NEW n, NEW s, s = Oracle!After(r, c, n)
  PROVE  /\ DOMAIN s = OracleFields
         /\ r.failing # 0 \/ Oracle!Ignored(r, c) => s = r
         /\ r.failing = 0 /\ ~Oracle!Ignored(r, c) /\ Oracle!Refused(r, c) =>
              /\ s.applied = r.applied /\ s.seen = r.seen /\ s.last = r.last /\ s.dead = r.dead
              /\ s.failing = n
              /\ s.errorCategory = IF r.dead THEN "TERMINAL_STATE" ELSE "CHAIN_CONTINUITY"
         /\ r.failing = 0 /\ ~Oracle!Ignored(r, c) /\ ~Oracle!Refused(r, c) =>
              /\ s.applied = Append(r.applied, n) /\ s.seen = r.seen \cup {c.id}
              /\ s.last = c.id /\ s.dead = (c.kind = "V")
              /\ s.failing = 0 /\ s.errorCategory = r.errorCategory
<1>1. CASE r.failing # 0 \/ Oracle!Ignored(r, c)
  BY <1>1 DEF Oracle!After
<1>2. CASE r.failing = 0 /\ ~Oracle!Ignored(r, c) /\ Oracle!Refused(r, c)
  <2>1. s = [r EXCEPT !.failing = n,
                      !.errorCategory = IF r.dead THEN "TERMINAL_STATE" ELSE "CHAIN_CONTINUITY"]
    BY <1>2 DEF Oracle!After
  <2> QED
    BY <1>2, <2>1 DEF OracleFields
<1>3. CASE r.failing = 0 /\ ~Oracle!Ignored(r, c) /\ ~Oracle!Refused(r, c)
  <2>1. s = [r EXCEPT !.applied = Append(@, n), !.seen = @ \cup {c.id}, !.last = c.id,
                      !.dead = c.kind = "V"]
    BY <1>3 DEF Oracle!After
  <2> QED
    BY <1>3, <2>1 DEF OracleFields
<1> QED
  BY <1>1, <1>2, <1>3

\* A list of candidates, each with an identity.
Candidates(w) == Len(w) \in Nat /\ \A k \in 1 .. Len(w) : w[k].id # NoId

\* What the locals of `expect' are after n candidates.
Reached(r, n) ==
  /\ DOMAIN r = OracleFields
  /\ r.applied \in Seq(Nat)
  /\ \A i \in 1 .. Len(r.applied) : r.applied[i] \in 1 .. n
  /\ r.failing \in 0 .. n
  /\ r.last = NoId <=> r.applied = <<>>
  /\ r.failing # 0 =>
       r.applied # <<>> /\ r.errorCategory \in {"TERMINAL_STATE", "CHAIN_CONTINUITY"}

LEMMA ReachedAlways ==
  ASSUME NEW w, Candidates(w)
  PROVE  \A n \in 0 .. Len(w) : Reached(Oracle!Locals(w)[n], n)
<1> DEFINE f == Oracle!Locals(w)
           S == {n \in Nat : Reached(f[n], n)}
<1>0. Len(w) \in Nat
  BY DEF Candidates
<1>s. f[0] = Oracle!NothingRead /\ \A n \in 1 .. Len(w) : f[n] = Oracle!After(f[n - 1], w[n], n)
  BY <1>0, LocalsStep
<1> HIDE DEF f
<1>1. 0 \in S
  <2>1. <<>> \in Seq(Nat) /\ Len(<<>>) = 0
    BY EmptySeq
  <2>2. Reached(Oracle!NothingRead, 0)
    BY <2>1 DEF Reached, OracleFields, Oracle!NothingRead
  <2> QED
    BY <1>s, <2>2
<1>2. ASSUME NEW n \in Nat, n < Len(w), n \in S PROVE n + 1 \in S
  <2> DEFINE r == f[n]
             s == f[n + 1]
             c == w[n + 1]
  <2>1. Reached(r, n)
    BY <1>2
  <2>2. s = Oracle!After(r, c, n + 1) /\ c.id # NoId
    <3>1. n + 1 \in 1 .. Len(w) /\ (n + 1) - 1 = n
      BY <1>0, <1>2
    <3> QED
      BY <1>s, <3>1 DEF Candidates
  <2> HIDE DEF r, s, c
  <2>3. Reached(s, n + 1)
    <3>0. DOMAIN r = OracleFields /\ r.applied \in Seq(Nat)
      BY <2>1 DEF Reached
    <3>1. CASE r.failing # 0 \/ Oracle!Ignored(r, c)
      <4>1. s = r
        BY <2>2, <3>0, <3>1, OracleTurn
      <4> QED
        BY <2>1, <4>1 DEF Reached
    <3>2. CASE r.failing = 0 /\ ~Oracle!Ignored(r, c) /\ Oracle!Refused(r, c)
      <4>1. /\ DOMAIN s = OracleFields
            /\ s.applied = r.applied /\ s.last = r.last
            /\ s.failing = n + 1
            /\ s.errorCategory \in {"TERMINAL_STATE", "CHAIN_CONTINUITY"}
        BY <2>2, <3>0, <3>2, OracleTurn
      <4>2. r.last # NoId
        BY <3>2 DEF Oracle!Refused
      <4> QED
        BY <2>1, <4>1, <4>2 DEF Reached
    <3>3. CASE r.failing = 0 /\ ~Oracle!Ignored(r, c) /\ ~Oracle!Refused(r, c)
      <4>1. /\ DOMAIN s = OracleFields
            /\ s.applied = Append(r.applied, n + 1)
            /\ s.last = c.id /\ s.failing = 0
        BY <2>2, <3>0, <3>3, OracleTurn
      <4>2. /\ s.applied \in Seq(Nat) /\ s.applied # <<>>
            /\ \A i \in 1 .. Len(s.applied) : s.applied[i] \in 1 .. n + 1
        BY <2>1, <3>0, <4>1, NumberAppended DEF Reached
      <4> QED
        BY <2>2, <4>1, <4>2 DEF Reached
    <3> QED
      BY <3>1, <3>2, <3>3
  <2> QED
    BY <2>3 DEF s
<1> HIDE DEF S
<1>3. 0 .. Len(w) \subseteq S
  BY <1>0, <1>1, <1>2, Inductive
<1> QED
  BY <1>3 DEF S, f

\* Lists that start alike are read alike as far.
LEMMA SameReadings ==
  ASSUME NEW v, Len(v) \in Nat, NEW w, Len(w) \in Nat,
         NEW N \in Nat, N <= Len(v), N <= Len(w), \A n \in 1 .. N : v[n] = w[n]
  PROVE  \A n \in 0 .. N : Oracle!Locals(v)[n] = Oracle!Locals(w)[n]
<1> DEFINE f == Oracle!Locals(v)
           g == Oracle!Locals(w)
           S == {n \in Nat : f[n] = g[n]}
<1>1. /\ f[0] = Oracle!NothingRead /\ \A n \in 1 .. Len(v) : f[n] = Oracle!After(f[n - 1], v[n], n)
      /\ g[0] = Oracle!NothingRead /\ \A n \in 1 .. Len(w) : g[n] = Oracle!After(g[n - 1], w[n], n)
  BY LocalsStep
<1> HIDE DEF f, g
<1>2. 0 \in S
  BY <1>1
<1>3. ASSUME NEW n \in Nat, n < N, n \in S PROVE n + 1 \in S
  <2>1. n + 1 \in 1 .. Len(v) /\ n + 1 \in 1 .. Len(w) /\ n + 1 \in 1 .. N /\ (n + 1) - 1 = n
    BY <1>3
  <2>2. f[n + 1] = Oracle!After(f[n], v[n + 1], n + 1) /\ g[n + 1] = Oracle!After(g[n], w[n + 1], n + 1)
    BY <1>1, <2>1
  <2> QED
    BY <1>3, <2>1, <2>2
<1> HIDE DEF S
<1>4. 0 .. N \subseteq S
  BY <1>2, <1>3, Inductive
<1> QED
  BY <1>4 DEF S, f, g

LEMMA SameEvents ==
  ASSUME NEW v, Len(v) \in Nat, NEW w, Len(w) \in Nat, NEW day,
         NEW N \in Nat, N <= Len(v), N <= Len(w), \A n \in 1 .. N : v[n] = w[n]
  PROVE  \A n \in 0 .. N : Reducer!Locals(v, day)[n] = Reducer!Locals(w, day)[n]
<1> DEFINE f == Reducer!Locals(v, day)
           g == Reducer!Locals(w, day)
           S == {n \in Nat : f[n] = g[n]}
<1>1. /\ f[0] = Reducer!NoEvents
      /\ \A n \in 1 .. Len(v) : f[n] = Reducer!After(f[n - 1], v[n], n, day)
      /\ g[0] = Reducer!NoEvents
      /\ \A n \in 1 .. Len(w) : g[n] = Reducer!After(g[n - 1], w[n], n, day)
  BY EventsStep
<1> HIDE DEF f, g
<1>2. 0 \in S
  BY <1>1
<1>3. ASSUME NEW n \in Nat, n < N, n \in S PROVE n + 1 \in S
  <2>1. n + 1 \in 1 .. Len(v) /\ n + 1 \in 1 .. Len(w) /\ n + 1 \in 1 .. N /\ (n + 1) - 1 = n
    BY <1>3
  <2>2. /\ f[n + 1] = Reducer!After(f[n], v[n + 1], n + 1, day)
        /\ g[n + 1] = Reducer!After(g[n], w[n + 1], n + 1, day)
    BY <1>1, <2>1
  <2> QED
    BY <1>3, <2>1, <2>2
<1> HIDE DEF S
<1>4. 0 .. N \subseteq S
  BY <1>2, <1>3, Inductive
<1> QED
  BY <1>4 DEF S, f, g

ReducerFields == {"status", "key", "boundAt", "count", "past", "failing", "errorCategory"}

LEMMA TenRules ==
  ASSUME NEW r, NEW e
  PROVE  DOMAIN Reducer!RulesFor(r, e) = 1 .. 10
BY SMT DEF Reducer!RulesFor

\* No rule refuses an event the way an empty snapshot is refused.
LEMMA RuleCategories ==
  ASSUME NEW r, NEW e, Reducer!Broken(Reducer!RulesFor(r, e)) # {}
  PROVE  Reducer!Verdict(Reducer!RulesFor(r, e)) # "SNAPSHOT_EMPTY"
<1> DEFINE rules == Reducer!RulesFor(r, e)
           broken == Reducer!Broken(rules)
<1>1. DOMAIN rules = 1 .. 10
  BY TenRules
<1>2. \A k \in 1 .. 10 : rules[k].category # "SNAPSHOT_EMPTY"
  <2>1. /\ rules[1].category # "SNAPSHOT_EMPTY" /\ rules[2].category # "SNAPSHOT_EMPTY"
        /\ rules[3].category # "SNAPSHOT_EMPTY" /\ rules[4].category # "SNAPSHOT_EMPTY"
        /\ rules[5].category # "SNAPSHOT_EMPTY" /\ rules[6].category # "SNAPSHOT_EMPTY"
        /\ rules[7].category # "SNAPSHOT_EMPTY" /\ rules[8].category # "SNAPSHOT_EMPTY"
        /\ rules[9].category # "SNAPSHOT_EMPTY" /\ rules[10].category # "SNAPSHOT_EMPTY"
    BY DEF Reducer!RulesFor, Reducer!Rule
  <2> HIDE DEF rules
  <2> QED
    BY <2>1
<1>3. broken \subseteq 1 .. 10
  BY <1>1 DEF Reducer!Broken
<1> HIDE DEF rules, broken
<1>4. \E k \in broken : \A j \in broken : k <= j
  BY <1>3, LeastNumber DEF broken, rules
<1>5. PICK k \in broken : Reducer!Verdict(rules) = rules[k].category
  BY <1>4 DEF Reducer!Verdict, broken
<1> QED
  BY <1>2, <1>3, <1>5 DEF rules

\* One turn of the SDKs' SnapshotAt.
LEMMA ReducerTurn ==
  ASSUME NEW r, DOMAIN r = ReducerFields, NEW e, NEW n, NEW day,
         NEW s, s = Reducer!After(r, e, n, day)
  PROVE  /\ DOMAIN s = ReducerFields
         /\ r.failing # 0 => s = r
         /\ r.failing = 0 => s.failing \in {0, n}
         /\ r.failing = 0 /\ s.failing # 0 => s.errorCategory # "SNAPSHOT_EMPTY"
<1> DEFINE rules == Reducer!RulesFor(r, e)
<1>1. CASE r.failing # 0
  BY <1>1 DEF Reducer!After
<1>2. CASE r.failing = 0 /\ e.time > day /\ e.domain = Reducer!Domain
  <2>1. s = [r EXCEPT !.past = TRUE]
    BY <1>2 DEF Reducer!After
  <2> QED
    BY <1>2, <2>1 DEF ReducerFields
<1>3. CASE /\ r.failing = 0 /\ ~ (e.time > day /\ e.domain = Reducer!Domain)
           /\ Reducer!Broken(rules) # {}
  <2>1. s = [r EXCEPT !.failing = n, !.errorCategory = Reducer!Verdict(rules)]
    BY <1>3 DEF Reducer!After
  <2>2. Reducer!Verdict(rules) # "SNAPSHOT_EMPTY"
    BY <1>3, RuleCategories
  <2> HIDE DEF rules
  <2> QED
    BY <1>3, <2>1, <2>2 DEF ReducerFields
<1>4. CASE /\ r.failing = 0 /\ ~ (e.time > day /\ e.domain = Reducer!Domain)
           /\ Reducer!Broken(rules) = {}
  <2>1. s = Reducer!Applied(r, e)
    BY <1>4 DEF Reducer!After
  <2>2. DOMAIN s = ReducerFields /\ s.failing = r.failing
    BY <2>1 DEF Reducer!Applied, ReducerFields
  <2> QED
    BY <1>4, <2>2
<1> HIDE DEF rules
<1> QED
  BY <1>1, <1>2, <1>3, <1>4

\* The locals of the SDKs' SnapshotAt after n events.
LEMMA FieldsAlways ==
  ASSUME NEW w, Len(w) \in Nat, NEW day
  PROVE  \A n \in 0 .. Len(w) : LET r == Reducer!Locals(w, day)[n] IN
           DOMAIN r = ReducerFields /\ (r.failing # 0 => r.errorCategory # "SNAPSHOT_EMPTY")
<1> DEFINE f == Reducer!Locals(w, day)
           P(r) == DOMAIN r = ReducerFields /\ (r.failing # 0 => r.errorCategory # "SNAPSHOT_EMPTY")
           S == {n \in Nat : P(f[n])}
<1>s. f[0] = Reducer!NoEvents /\ \A n \in 1 .. Len(w) : f[n] = Reducer!After(f[n - 1], w[n], n, day)
  BY EventsStep
<1> HIDE DEF f
<1>1. 0 \in S
  <2>1. P(Reducer!NoEvents)
    BY DEF ReducerFields, Reducer!NoEvents
  <2> HIDE DEF P
  <2> QED
    BY <1>s, <2>1
<1>2. ASSUME NEW n \in Nat, n < Len(w), n \in S PROVE n + 1 \in S
  <2> DEFINE r == f[n]
             s == f[n + 1]
  <2>1. s = Reducer!After(r, w[n + 1], n + 1, day)
    <3>1. n + 1 \in 1 .. Len(w) /\ (n + 1) - 1 = n
      BY <1>2
    <3> QED
      BY <1>s, <3>1
  <2>2. P(r)
    BY <1>2
  <2> HIDE DEF r, s
  <2>3. P(s)
    BY <2>1, <2>2, ReducerTurn
  <2> QED
    BY <2>3 DEF s
<1> HIDE DEF S
<1>3. 0 .. Len(w) \subseteq S
  BY <1>1, <1>2, Inductive
<1> QED
  BY <1>3 DEF S, f

-----------------------------------------------------------------------------
(* The first failing prefix is the one that ends with what was refused.    *)

\* A loop's locals: once something is refused they stay as they are.
Sticks(q, N) ==
  /\ q[0].failing = 0
  /\ \A n \in 1 .. N : IF q[n - 1].failing # 0 THEN q[n] = q[n - 1] ELSE q[n].failing \in {0, n}

FirstAt(q, n) ==
  /\ q[n].failing \in 0 .. n
  /\ q[n].failing = 0 => \A m \in 0 .. n : q[m].failing = 0
  /\ q[n].failing # 0 => /\ q[q[n].failing] = q[n]
                         /\ \A m \in 0 .. q[n].failing - 1 : q[m].failing = 0

LEMMA FirstFailure ==
  ASSUME NEW q, NEW N \in Nat, Sticks(q, N)
  PROVE  FirstAt(q, N)
<1> DEFINE S == {n \in Nat : FirstAt(q, n)}
<1>1. 0 \in S
  BY DEF Sticks, FirstAt
<1>2. ASSUME NEW n \in Nat, n < N, n \in S PROVE n + 1 \in S
  <2>0. FirstAt(q, n)
    BY <1>2
  <2>1. IF q[n].failing # 0 THEN q[n + 1] = q[n] ELSE q[n + 1].failing \in {0, n + 1}
    <3>1. n + 1 \in 1 .. N /\ (n + 1) - 1 = n
      BY <1>2
    <3> QED
      BY <3>1 DEF Sticks
  <2>2. FirstAt(q, n + 1)
    <3>1. CASE q[n].failing # 0
      <4>1. q[n + 1] = q[n]
        BY <2>1, <3>1
      <4> QED
        BY <2>0, <3>1, <4>1 DEF FirstAt
    <3>2. CASE q[n].failing = 0 /\ q[n + 1].failing = 0
      <4>1. \A m \in 0 .. n + 1 : m \in 0 .. n \/ m = n + 1
        OBVIOUS
      <4> QED
        BY <2>0, <3>2, <4>1 DEF FirstAt
    <3>3. CASE q[n].failing = 0 /\ q[n + 1].failing = n + 1
      <4>1. (n + 1) - 1 = n
        OBVIOUS
      <4> QED
        BY <2>0, <3>3, <4>1 DEF FirstAt
    <3> QED
      BY <2>1, <3>1, <3>2, <3>3
  <2> QED
    BY <2>2
<1> HIDE DEF S
<1>3. 0 .. N \subseteq S
  BY <1>1, <1>2, Inductive
<1> QED
  BY <1>3 DEF S

LEMMA ReadingsStick ==
  ASSUME NEW w, Candidates(w)
  PROVE  Sticks(Oracle!Locals(w), Len(w))
<1> DEFINE q == Oracle!Locals(w)
<1>0. Len(w) \in Nat
  BY DEF Candidates
<1>1. q[0] = Oracle!NothingRead /\ \A n \in 1 .. Len(w) : q[n] = Oracle!After(q[n - 1], w[n], n)
  BY <1>0, LocalsStep
<1>2. \A n \in 0 .. Len(w) : Reached(q[n], n)
  BY ReachedAlways
<1> HIDE DEF q
<1>3. q[0].failing = 0
  <2>1. Oracle!NothingRead.failing = 0
    BY DEF Oracle!NothingRead
  <2> QED
    BY <1>1, <2>1
<1>4. ASSUME NEW n \in 1 .. Len(w)
      PROVE  IF q[n - 1].failing # 0 THEN q[n] = q[n - 1] ELSE q[n].failing \in {0, n}
  <2> DEFINE r == q[n - 1]
             s == q[n]
  <2>1. s = Oracle!After(r, w[n], n)
    BY <1>1
  <2>2. DOMAIN r = OracleFields
    <3>1. n - 1 \in 0 .. Len(w)
      BY <1>0
    <3> QED
      BY <1>2, <3>1 DEF Reached
  <2> HIDE DEF r, s
  <2>3. IF r.failing # 0 THEN s = r ELSE s.failing \in {0, n}
    BY <2>1, <2>2, OracleTurn
  <2> QED
    BY <2>3 DEF r, s
<1> QED
  BY <1>3, <1>4 DEF Sticks, q

LEMMA EventsStick ==
  ASSUME NEW w, Len(w) \in Nat, NEW day
  PROVE  Sticks(Reducer!Locals(w, day), Len(w))
<1> DEFINE q == Reducer!Locals(w, day)
<1>1. q[0] = Reducer!NoEvents /\ \A n \in 1 .. Len(w) : q[n] = Reducer!After(q[n - 1], w[n], n, day)
  BY EventsStep
<1>2. \A n \in 0 .. Len(w) : DOMAIN q[n] = ReducerFields
  BY FieldsAlways
<1> HIDE DEF q
<1>3. q[0].failing = 0
  <2>1. Reducer!NoEvents.failing = 0
    BY DEF Reducer!NoEvents
  <2> QED
    BY <1>1, <2>1
<1>4. ASSUME NEW n \in 1 .. Len(w)
      PROVE  IF q[n - 1].failing # 0 THEN q[n] = q[n - 1] ELSE q[n].failing \in {0, n}
  <2> DEFINE r == q[n - 1]
             s == q[n]
  <2>1. s = Reducer!After(r, w[n], n, day)
    BY <1>1
  <2>2. DOMAIN r = ReducerFields
    <3>1. n - 1 \in 0 .. Len(w)
      OBVIOUS
    <3> QED
      BY <1>2, <3>1
  <2> HIDE DEF r, s
  <2>3. IF r.failing # 0 THEN s = r ELSE s.failing \in {0, n}
    BY <2>1, <2>2, ReducerTurn
  <2> QED
    BY <2>3 DEF r, s
<1> QED
  BY <1>3, <1>4 DEF Sticks, q

-----------------------------------------------------------------------------
(* The request, and what an adapter passes on of it.                       *)

\* A request is one of the lists the adapter may be given.
Requested ==
  /\ adapter \in Adapters
  /\ \/ op = "c2sp_lifecycle_vector" /\ word \in Logs[adapter]
     \/ op = "lifecycle_vector" /\ word \in Histories[adapter]

LEMMA RequestFacts ==
  ASSUME Requested
  PROVE  /\ Len(word) \in Nat /\ DOMAIN word = 1 .. Len(word)
         /\ word = [k \in 1 .. Len(word) |-> word[k]]
         /\ adapter \in {"py", "ts", "go"}
         /\ op \in {"c2sp_lifecycle_vector", "lifecycle_vector"}
         /\ op = "c2sp_lifecycle_vector" => IsLog(word) /\ (adapter = "go" => Enumerates(word))
         /\ op = "lifecycle_vector" /\ adapter = "py" => \A k \in 1 .. Len(word) : OwnThumbs(word[k])
<1>1. word \in Seq(Range(word))
  BY RequestsAssumption DEF Requested, IsLog
<1>2. /\ Len(word) \in Nat /\ DOMAIN word = 1 .. Len(word)
      /\ word = [k \in 1 .. Len(word) |-> word[k]]
  BY <1>1, LenProperties
<1>3. op = "lifecycle_vector" /\ adapter = "py" => \A k \in 1 .. Len(word) : OwnThumbs(word[k])
  BY <1>2, RequestsAssumption DEF Requested
<1> QED
  BY <1>2, <1>3, RequestsAssumption DEF Requested

\* What the list of the kept positions is after n of them were looked at.
Listed(n) ==
  /\ KeptOf[n] \in Seq(Nat)
  /\ \A i \in 1 .. Len(KeptOf[n]) : KeptOf[n][i] \in 1 .. n
  /\ \A m \in 0 .. n : /\ Len(KeptOf[m]) <= Len(KeptOf[n])
                       /\ \A i \in 1 .. Len(KeptOf[m]) : KeptOf[m][i] = KeptOf[n][i]

LEMMA KeptsListed ==
  ASSUME Len(word) \in Nat
  PROVE  \A n \in 0 .. Len(word) : Listed(n)
<1> DEFINE S == {n \in Nat : Listed(n)}
<1>0. KeptOf[0] = <<>> /\ \A n \in 1 .. Len(word) : KeptOf[n] = Keep(KeptOf[n - 1], n)
  BY KeptsStep
<1>1. 0 \in S
  <2>1. <<>> \in Seq(Nat) /\ Len(<<>>) = 0
    BY EmptySeq
  <2>2. Listed(0)
    <3>1. 1 .. 0 = {} /\ 0 .. 0 = {0}
      OBVIOUS
    <3> QED
      BY <1>0, <2>1, <3>1 DEF Listed
  <2> QED
    BY <2>2
<1>2. ASSUME NEW n \in Nat, n < Len(word), n \in S PROVE n + 1 \in S
  <2>0. Listed(n)
    BY <1>2
  <2>1. KeptOf[n + 1] = Keep(KeptOf[n], n + 1)
    <3>1. n + 1 \in 1 .. Len(word) /\ (n + 1) - 1 = n
      BY <1>2
    <3> QED
      BY <1>0, <3>1
  <2>2. KeptOf[n] \in Seq(Nat) /\ Len(KeptOf[n]) \in Nat
    BY <2>0, LenProperties DEF Listed
  <2>3. /\ KeptOf[n + 1] \in Seq(Nat) /\ Len(KeptOf[n + 1]) \in Nat
        /\ \A i \in 1 .. Len(KeptOf[n + 1]) : KeptOf[n + 1][i] \in 1 .. n + 1
        /\ Len(KeptOf[n]) <= Len(KeptOf[n + 1])
        /\ \A i \in 1 .. Len(KeptOf[n]) : KeptOf[n][i] = KeptOf[n + 1][i]
    <3>1. CASE Keeps(n + 1)
      <4>1. KeptOf[n + 1] = Append(KeptOf[n], n + 1)
        BY <2>1, <3>1 DEF Keep
      <4>2. \A i \in 1 .. Len(KeptOf[n]) : KeptOf[n][i] \in 1 .. n
        BY <2>0 DEF Listed
      <4> QED
        BY <2>2, <4>1, <4>2, NumberAppended
    <3>2. CASE ~Keeps(n + 1)
      <4>1. KeptOf[n + 1] = KeptOf[n]
        BY <2>1, <3>2 DEF Keep
      <4>2. 1 .. n \subseteq 1 .. n + 1
        OBVIOUS
      <4> QED
        BY <2>0, <2>2, <4>1, <4>2 DEF Listed
    <3> QED
      BY <3>1, <3>2
  <2>4. ASSUME NEW m \in 0 .. n + 1
        PROVE  /\ Len(KeptOf[m]) <= Len(KeptOf[n + 1])
               /\ \A i \in 1 .. Len(KeptOf[m]) : KeptOf[m][i] = KeptOf[n + 1][i]
    <3>1. CASE m = n + 1
      BY <2>3, <3>1
    <3>2. CASE m \in 0 .. n
      <4>0. /\ Len(KeptOf[m]) <= Len(KeptOf[n])
            /\ \A i \in 1 .. Len(KeptOf[m]) : KeptOf[m][i] = KeptOf[n][i]
        BY <2>0, <3>2 DEF Listed
      <4> QED
        BY <2>2, <2>3, <4>0
    <3> QED
      BY <3>1, <3>2
  <2> QED
    BY <2>3, <2>4 DEF Listed
<1> HIDE DEF S
<1>3. 0 .. Len(word) \subseteq S
  BY <1>1, <1>2, Inductive
<1> QED
  BY <1>3 DEF S

\* Every position kept: the list is that of all positions.
LEMMA AllKept ==
  ASSUME Len(word) \in Nat, \A k \in 1 .. Len(word) : Keeps(k)
  PROVE  Len(Kept) = Len(word) /\ \A k \in 1 .. Len(word) : Kept[k] = k
<1> DEFINE P(list, n) == list \in Seq(Nat) /\ Len(list) = n /\ \A i \in 1 .. n : list[i] = i
           S == {n \in Nat : P(KeptOf[n], n)}
<1>0. KeptOf[0] = <<>> /\ \A n \in 1 .. Len(word) : KeptOf[n] = Keep(KeptOf[n - 1], n)
  BY KeptsStep
<1>1. 0 \in S
  <2>1. <<>> \in Seq(Nat) /\ Len(<<>>) = 0
    BY EmptySeq
  <2>2. P(<<>>, 0)
    BY <2>1
  <2> HIDE DEF P
  <2> QED
    BY <1>0, <2>2
<1>2. ASSUME NEW n \in Nat, n < Len(word), n \in S PROVE n + 1 \in S
  <2>1. n + 1 \in 1 .. Len(word) /\ (n + 1) - 1 = n
    BY <1>2
  <2>2. KeptOf[n + 1] = Append(KeptOf[n], n + 1)
    BY <1>0, <2>1 DEF Keep
  <2>3. P(KeptOf[n], n)
    BY <1>2
  <2>4. P(KeptOf[n + 1], n + 1)
    BY <2>2, <2>3, AppendProperties
  <2> QED
    BY <2>4
<1> HIDE DEF S
<1>3. 0 .. Len(word) \subseteq S
  BY <1>0, <1>1, <1>2, Inductive
<1> QED
  BY <1>3 DEF S, Kept

\* The entries passed on, each one of the request.
LEMMA PassedOn ==
  ASSUME Requested
  PROVE  /\ Len(Kept) \in Nat
         /\ \A i \in 1 .. Len(Kept) : Kept[i] \in 1 .. Len(word)
         /\ \A n \in 0 .. Len(Kept) : /\ Len(Passed(n)) = n
                                      /\ DOMAIN Passed(n) = 1 .. n
                                      /\ \A k \in 1 .. n : Passed(n)[k] = word[Kept[k]]
<1>1. Len(word) \in Nat
  BY RequestFacts
<1>2. Listed(Len(word))
  BY <1>1, KeptsListed
<1>3. Kept \in Seq(Nat) /\ Len(Kept) \in Nat /\ \A i \in 1 .. Len(Kept) : Kept[i] \in 1 .. Len(word)
  BY <1>2, LenProperties DEF Listed, Kept
<1>4. ASSUME NEW k \in 1 .. Len(word) PROVE Converted(word[k]) = word[k]
  <2>1. op = "lifecycle_vector" /\ adapter = "py" => OwnThumbs(word[k])
    BY RequestFacts, <1>4
  <2> QED
    BY <2>1 DEF Converted, OwnThumbs
<1>5. ASSUME NEW n \in 0 .. Len(Kept)
      PROVE  /\ Len(Passed(n)) = n /\ DOMAIN Passed(n) = 1 .. n
             /\ \A k \in 1 .. n : Passed(n)[k] = word[Kept[k]]
  <2>1. Passed(n) = [k \in 1 .. n |-> Converted(word[Kept[k]])]
    BY DEF Passed
  <2>2. n \in Nat
    BY <1>3
  <2>3. \A k \in 1 .. n : Converted(word[Kept[k]]) = word[Kept[k]]
    BY <1>3, <1>4
  <2>4. Len(Passed(n)) = n /\ DOMAIN Passed(n) = 1 .. n
    BY <2>1, <2>2
  <2> QED
    BY <2>1, <2>3, <2>4
<1> QED
  BY <1>3, <1>5

\* A log as the SDKs see it is a list of candidates.
LEMMA SeenLog ==
  ASSUME NEW v, NEW n \in Nat, DOMAIN v = 1 .. n, Requested, op = "c2sp_lifecycle_vector",
         \A k \in 1 .. n : \E j \in 1 .. Len(word) : v[k] = word[j]
  PROVE  /\ Candidates(Seen(v)) /\ Len(Seen(v)) = n
         /\ \A k \in 1 .. n : Seen(v)[k] = AsSeen(v[k])
<1>1. Len(Seen(v)) = n /\ \A k \in 1 .. n : Seen(v)[k] = AsSeen(v[k])
  BY DEF Seen
<1>2. ASSUME NEW k \in 1 .. n PROVE Seen(v)[k].id # NoId
  <2>1. PICK j \in 1 .. Len(word) : v[k] = word[j]
    OBVIOUS
  <2>2. DOMAIN word[j] = {"id", "prev", "kind", "authenticated", "proven", "values"} /\ word[j].id # NoId
    BY RequestFacts DEF IsLog
  <2>3. Seen(v)[k] = [word[j] EXCEPT !.authenticated = @ /\ word[j].proven]
    BY <1>1, <2>1 DEF AsSeen
  <2> QED
    BY <2>2, <2>3
<1> QED
  BY <1>1, <1>2 DEF Candidates

-----------------------------------------------------------------------------
(* Leaving out what is not proven changes nothing but the positions.       *)

\* The locals over the whole log against those over what was passed on.
SameButPlaced(r, q) ==
  /\ r.seen = q.seen /\ r.last = q.last /\ r.dead = q.dead
  /\ r.errorCategory = q.errorCategory
  /\ r.failing = IF q.failing = 0 THEN 0 ELSE Kept[q.failing]
  /\ Len(r.applied) = Len(q.applied)
  /\ \A i \in 1 .. Len(q.applied) : r.applied[i] = Kept[q.applied[i]]

LEMMA SameTurn ==
  ASSUME NEW r, NEW n \in Nat, NEW q, NEW m \in Nat, Reached(r, n), Reached(q, m),
         NEW c, Kept[m + 1] = n + 1, SameButPlaced(r, q), r.failing = 0 <=> q.failing = 0
  PROVE  SameButPlaced(Oracle!After(r, c, n + 1), Oracle!After(q, c, m + 1))
<1> DEFINE s == Oracle!After(r, c, n + 1)
           t == Oracle!After(q, c, m + 1)
<1>0. /\ DOMAIN r = OracleFields /\ DOMAIN q = OracleFields
      /\ r.applied \in Seq(Nat) /\ q.applied \in Seq(Nat)
      /\ Len(r.applied) = Len(q.applied)
  BY DEF Reached, SameButPlaced
<1>1. (Oracle!Ignored(r, c) <=> Oracle!Ignored(q, c)) /\ (Oracle!Refused(r, c) <=> Oracle!Refused(q, c))
  BY DEF SameButPlaced, Oracle!Ignored, Oracle!Refused
<1>2. PICK a, b : a = s /\ b = t
  OBVIOUS
<1> HIDE DEF s, t
<1>3. CASE r.failing # 0 \/ Oracle!Ignored(r, c)
  <2>1. a = r /\ b = q
    BY <1>0, <1>1, <1>2, <1>3, OracleTurn DEF s, t
  <2> QED
    BY <1>2, <2>1 DEF s, t
<1>4. CASE r.failing = 0 /\ ~Oracle!Ignored(r, c) /\ Oracle!Refused(r, c)
  <2>1. /\ a.applied = r.applied /\ a.seen = r.seen /\ a.last = r.last /\ a.dead = r.dead
        /\ a.failing = n + 1
        /\ a.errorCategory = IF r.dead THEN "TERMINAL_STATE" ELSE "CHAIN_CONTINUITY"
    BY <1>0, <1>2, <1>4, OracleTurn DEF s
  <2>2. /\ b.applied = q.applied /\ b.seen = q.seen /\ b.last = q.last /\ b.dead = q.dead
        /\ b.failing = m + 1
        /\ b.errorCategory = IF q.dead THEN "TERMINAL_STATE" ELSE "CHAIN_CONTINUITY"
    BY <1>0, <1>1, <1>2, <1>4, OracleTurn DEF t
  <2>3. m + 1 # 0
    OBVIOUS
  <2>4. SameButPlaced(a, b)
    BY <2>1, <2>2, <2>3 DEF SameButPlaced
  <2> QED
    BY <1>2, <2>4 DEF s, t
<1>5. CASE r.failing = 0 /\ ~Oracle!Ignored(r, c) /\ ~Oracle!Refused(r, c)
  <2>1. /\ a.applied = Append(r.applied, n + 1) /\ a.seen = r.seen \cup {c.id}
        /\ a.last = c.id /\ a.dead = (c.kind = "V")
        /\ a.failing = 0 /\ a.errorCategory = r.errorCategory
    BY <1>0, <1>2, <1>5, OracleTurn DEF s
  <2>2. /\ b.applied = Append(q.applied, m + 1) /\ b.seen = q.seen \cup {c.id}
        /\ b.last = c.id /\ b.dead = (c.kind = "V")
        /\ b.failing = 0 /\ b.errorCategory = q.errorCategory
    BY <1>0, <1>1, <1>2, <1>5, OracleTurn DEF t
  <2>3. PICK l : l = Len(q.applied)
    OBVIOUS
  <2>4. /\ l \in Nat /\ Len(a.applied) = l + 1 /\ Len(b.applied) = l + 1
        /\ a.applied[l + 1] = n + 1 /\ b.applied[l + 1] = m + 1
        /\ \A i \in 1 .. l : a.applied[i] = r.applied[i] /\ b.applied[i] = q.applied[i]
    <3>1. l \in Nat /\ l = Len(r.applied)
      BY <1>0, <2>3, LenProperties
    <3> QED
      BY <1>0, <2>1, <2>2, <2>3, <3>1, AppendProperties
  <2>5. ASSUME NEW i \in 1 .. l + 1 PROVE a.applied[i] = Kept[b.applied[i]]
    <3>1. CASE i = l + 1
      BY <2>4, <3>1
    <3>2. CASE i \in 1 .. l
      BY <2>3, <2>4, <3>2 DEF SameButPlaced
    <3> QED
      BY <2>4, <3>1, <3>2
  <2>6. SameButPlaced(a, b)
    <3>1. a.seen = b.seen /\ a.last = b.last /\ a.errorCategory = b.errorCategory
      BY <2>1, <2>2 DEF SameButPlaced
    <3>2. a.dead = b.dead
      BY <2>1, <2>2
    <3> QED
      BY <2>1, <2>2, <2>4, <2>5, <3>1, <3>2 DEF SameButPlaced
  <2> QED
    BY <1>2, <2>6 DEF s, t
<1> QED
  BY <1>3, <1>4, <1>5

LEMMA Dropped ==
  ASSUME Requested, op = "c2sp_lifecycle_vector"
  PROVE  SameButPlaced(Oracle!Locals(Seen(word))[Len(word)],
                       Oracle!Locals(Seen(Passed(Len(Kept))))[Len(Kept)])
<1> DEFINE v == Seen(word)
           u == Seen(Passed(Len(Kept)))
           f == Oracle!Locals(v)
           g == Oracle!Locals(u)
           c(n) == Len(KeptOf[n])
           S == {n \in Nat : SameButPlaced(f[n], g[c(n)])}
<1>0. Len(word) \in Nat /\ DOMAIN word = 1 .. Len(word) /\ Len(Kept) \in Nat
  BY RequestFacts, PassedOn
<1>1. Candidates(v) /\ Len(v) = Len(word) /\ \A k \in 1 .. Len(word) : v[k] = AsSeen(word[k])
  BY <1>0, SeenLog
<1>2. /\ Candidates(u) /\ Len(u) = Len(Kept)
      /\ \A k \in 1 .. Len(Kept) : u[k] = AsSeen(word[Kept[k]])
  <2> DEFINE p == Passed(Len(Kept))
  <2>1. DOMAIN p = 1 .. Len(Kept) /\ \A k \in 1 .. Len(Kept) : p[k] = word[Kept[k]]
    BY <1>0, PassedOn
  <2>2. \A k \in 1 .. Len(Kept) : \E j \in 1 .. Len(word) : p[k] = word[j]
    BY <2>1, PassedOn
  <2> HIDE DEF p
  <2>3. Candidates(Seen(p)) /\ Len(Seen(p)) = Len(Kept) /\ \A k \in 1 .. Len(Kept) : Seen(p)[k] = AsSeen(p[k])
    BY <1>0, <2>1, <2>2, SeenLog
  <2> QED
    BY <2>1, <2>3 DEF p
<1>3. /\ f[0] = Oracle!NothingRead /\ \A n \in 1 .. Len(word) : f[n] = Oracle!After(f[n - 1], v[n], n)
      /\ g[0] = Oracle!NothingRead /\ \A n \in 1 .. Len(Kept) : g[n] = Oracle!After(g[n - 1], u[n], n)
  BY <1>0, <1>1, <1>2, LocalsStep
<1>4. /\ \A n \in 0 .. Len(word) : Reached(f[n], n)
      /\ \A n \in 0 .. Len(Kept) : Reached(g[n], n)
  BY <1>1, <1>2, ReachedAlways
<1> HIDE DEF v, u, f, g
<1>5. KeptOf[0] = <<>> /\ \A n \in 1 .. Len(word) : KeptOf[n] = Keep(KeptOf[n - 1], n)
  BY <1>0, KeptsStep
<1>6. \A n \in 0 .. Len(word) : Listed(n)
  BY <1>0, KeptsListed
<1>7. 0 \in S
  <2>1. c(0) = 0
    BY <1>5, EmptySeq
  <2>2. SameButPlaced(Oracle!NothingRead, Oracle!NothingRead)
    <3>1. Len(<<>>) = 0
      BY EmptySeq
    <3> QED
      BY <3>1 DEF SameButPlaced, Oracle!NothingRead
  <2> QED
    BY <1>3, <2>1, <2>2
<1>8. ASSUME NEW n \in Nat, n < Len(word), n \in S PROVE n + 1 \in S
  <2>1. n \in 0 .. Len(word) /\ n + 1 \in 1 .. Len(word) /\ (n + 1) - 1 = n
    BY <1>0, <1>8
  <2>2. PICK m : m = c(n)
    OBVIOUS
  <2>3. /\ f[n + 1] = Oracle!After(f[n], AsSeen(word[n + 1]), n + 1)
        /\ KeptOf[n + 1] = Keep(KeptOf[n], n + 1)
    BY <1>1, <1>3, <1>5, <2>1
  <2>4. KeptOf[n] \in Seq(Nat) /\ m \in Nat /\ m <= Len(Kept)
    <3>1. Listed(n) /\ Listed(Len(word)) /\ n \in 0 .. Len(word)
      BY <1>0, <1>6, <2>1
    <3>2. KeptOf[n] \in Seq(Nat) /\ m <= Len(Kept)
      BY <2>2, <3>1 DEF Listed, Kept
    <3> QED
      BY <2>2, <3>2, LenProperties
  <2>5. Reached(f[n], n) /\ Reached(g[m], m) /\ SameButPlaced(f[n], g[m])
    BY <1>0, <1>4, <1>8, <2>1, <2>2, <2>4
  <2>6. CASE Keeps(n + 1)
    <3>1. KeptOf[n + 1] = Append(KeptOf[n], n + 1)
      BY <2>3, <2>6 DEF Keep
    <3>2. c(n + 1) = m + 1 /\ KeptOf[n + 1][m + 1] = n + 1
      BY <2>2, <2>4, <3>1, AppendProperties
    <3>3. m + 1 <= Len(Kept) /\ Kept[m + 1] = n + 1
      <4>1. Listed(Len(word)) /\ n + 1 \in 0 .. Len(word)
        BY <1>0, <1>6, <2>1
      <4>2. c(n + 1) <= Len(Kept) /\ \A i \in 1 .. c(n + 1) : KeptOf[n + 1][i] = Kept[i]
        BY <4>1 DEF Listed, Kept
      <4> QED
        BY <2>4, <3>2, <4>2
    <3>4. g[m + 1] = Oracle!After(g[m], AsSeen(word[n + 1]), m + 1)
      <4>1. m + 1 \in 1 .. Len(Kept) /\ (m + 1) - 1 = m
        BY <1>0, <2>4, <3>3
      <4> QED
        BY <1>2, <1>3, <3>3, <4>1
    <3>5. f[n].failing = 0 <=> g[m].failing = 0
      <4>1. g[m].failing \in 0 .. m /\ f[n].failing = IF g[m].failing = 0 THEN 0 ELSE Kept[g[m].failing]
        BY <2>5 DEF Reached, SameButPlaced
      <4>2. g[m].failing # 0 => g[m].failing \in 1 .. Len(Kept)
        BY <1>0, <2>4, <4>1
      <4>3. g[m].failing # 0 => Kept[g[m].failing] # 0
        BY <1>0, <4>2, PassedOn
      <4> QED
        BY <4>1, <4>3
    <3>6. SameButPlaced(f[n + 1], g[m + 1])
      BY <2>3, <2>4, <2>5, <3>3, <3>4, <3>5, SameTurn
    <3> QED
      BY <3>2, <3>6
  <2>7. CASE ~Keeps(n + 1)
    <3>1. KeptOf[n + 1] = KeptOf[n]
      BY <2>3, <2>7 DEF Keep
    <3>2. ~AsSeen(word[n + 1]).authenticated
      <4>1. ~word[n + 1].proven
        BY <2>7 DEF Keeps
      <4>2. "authenticated" \in DOMAIN word[n + 1]
        BY <1>0, <2>1, RequestFacts DEF IsLog
      <4> QED
        BY <4>1, <4>2 DEF AsSeen
    <3>3. f[n + 1] = f[n]
      BY <2>3, <3>2 DEF Oracle!After, Oracle!Ignored
    <3> QED
      BY <1>8, <3>1, <3>3
  <2> QED
    BY <2>6, <2>7
<1> HIDE DEF S
<1>9. 0 .. Len(word) \subseteq S
  BY <1>0, <1>7, <1>8, Inductive
<1>10. Len(word) \in S
  BY <1>0, <1>9
<1> QED
  BY <1>10 DEF S, f, g, v, u, Kept

-----------------------------------------------------------------------------
(* What the SDK makes of each prefix of what it is given.                  *)

Readings == Oracle!Locals(Seen(Passed(Len(Kept))))

Turned == Reducer!Locals(Passed(Len(Kept)), time)

\* The prefixes of what is passed on of a log, as the SDKs see it.
LEMMA PassedLog ==
  ASSUME Requested, op = "c2sp_lifecycle_vector", NEW n \in 0 .. Len(Kept)
  PROVE  /\ Candidates(Seen(Passed(n))) /\ Len(Seen(Passed(n))) = n
         /\ \A k \in 1 .. n : Seen(Passed(n))[k] = AsSeen(word[Kept[k]])
<1> DEFINE p == Passed(n)
<1>0. n \in Nat /\ n <= Len(Kept) /\ Len(Kept) \in Nat
  BY PassedOn
<1>1. DOMAIN p = 1 .. n /\ \A k \in 1 .. n : p[k] = word[Kept[k]]
  BY PassedOn
<1>2. \A k \in 1 .. n : \E j \in 1 .. Len(word) : p[k] = word[j]
  <2>1. \A k \in 1 .. n : k \in 1 .. Len(Kept)
    BY <1>0
  <2> QED
    BY <1>1, <2>1, PassedOn
<1> HIDE DEF p
<1>3. Candidates(Seen(p)) /\ Len(Seen(p)) = n /\ \A k \in 1 .. n : Seen(p)[k] = AsSeen(p[k])
  BY <1>0, <1>1, <1>2, SeenLog
<1> QED
  BY <1>1, <1>3 DEF p

LEMMA ExpectFields ==
  ASSUME NEW w, NEW r, r = Oracle!Locals(w)[Len(w)], NEW s, s = Oracle!Expect(w)
  PROVE  /\ s.failing = r.failing /\ s.errorCategory = r.errorCategory /\ s.applied = r.applied
         /\ s.valid <=> r.failing = 0 /\ r.applied # <<>>
<1>1. s.failing = r.failing /\ s.errorCategory = r.errorCategory /\ s.applied = r.applied
  BY DEF Oracle!Expect
<1>2. s.valid = (r.failing = 0 /\ r.applied # <<>>)
  BY DEF Oracle!Expect
<1> QED
  BY <1>1, <1>2

LEMMA PrefixOfLog ==
  ASSUME Requested, op = "c2sp_lifecycle_vector", NEW n \in 0 .. Len(Kept),
         NEW r, r = Readings[n], NEW s, s = Select(Passed(n))
  PROVE  /\ s.failing = r.failing /\ s.errorCategory = r.errorCategory /\ s.applied = r.applied
         /\ s.valid <=> r.failing = 0 /\ r.applied # <<>>
<1> DEFINE v == Seen(Passed(n))
           u == Seen(Passed(Len(Kept)))
<1>0. n \in Nat /\ n <= Len(Kept) /\ Len(Kept) \in Nat
  BY PassedOn
<1>1. Len(v) = n /\ \A k \in 1 .. n : v[k] = AsSeen(word[Kept[k]])
  BY PassedLog
<1>2. Len(u) = Len(Kept) /\ \A k \in 1 .. n : u[k] = AsSeen(word[Kept[k]])
  <2>1. Len(Kept) \in 0 .. Len(Kept) /\ \A k \in 1 .. n : k \in 1 .. Len(Kept)
    BY <1>0
  <2> QED
    BY <2>1, PassedLog
<1>3. s = Oracle!Expect(v)
  BY DEF Select
<1>4. Readings = Oracle!Locals(u)
  BY DEF Readings
<1> HIDE DEF v, u
<1>5. Oracle!Locals(v)[n] = Oracle!Locals(u)[n]
  <2>1. \A k \in 0 .. n : Oracle!Locals(v)[k] = Oracle!Locals(u)[k]
    <3>1. /\ Len(v) \in Nat /\ Len(u) \in Nat /\ n \in Nat
          /\ n <= Len(v) /\ n <= Len(u)
      BY <1>0, <1>1, <1>2
    <3>2. \A k \in 1 .. n : v[k] = u[k]
      BY <1>1, <1>2
    <3> QED
      BY <3>1, <3>2, SameReadings
  <2> QED
    BY <1>0, <2>1
<1>6. Oracle!Locals(v)[Len(v)] = r
  BY <1>1, <1>4, <1>5
<1> QED
  BY <1>3, <1>6, ExpectFields

LEMMA PrefixOfEvents ==
  ASSUME Requested, op = "lifecycle_vector", NEW n \in 0 .. Len(Kept),
         NEW r, r = Turned[n], NEW s, s = Select(Passed(n))
  PROVE  /\ s.failing = r.failing
         /\ s.valid <=> r.failing = 0 /\ r.count # 0
         /\ r.failing # 0 => s.errorCategory = r.errorCategory
         /\ r.failing = 0 /\ r.count = 0 => s.errorCategory = "SNAPSHOT_EMPTY"
<1> DEFINE v == Passed(n)
           u == Passed(Len(Kept))
<1>0. n \in Nat /\ n <= Len(Kept) /\ Len(Kept) \in Nat
  BY PassedOn
<1>1. Len(v) = n /\ \A k \in 1 .. n : v[k] = word[Kept[k]]
  BY PassedOn
<1>2. Len(u) = Len(Kept) /\ \A k \in 1 .. n : u[k] = word[Kept[k]]
  <2>1. Len(Kept) \in 0 .. Len(Kept) /\ \A k \in 1 .. n : k \in 1 .. Len(Kept)
    BY <1>0
  <2> QED
    BY <2>1, PassedOn
<1>3. s = Reducer!SnapshotAt(v, time)
  BY DEF Select
<1>4. Turned = Reducer!Locals(u, time)
  BY DEF Turned
<1> HIDE DEF v, u
<1>5. Reducer!Locals(v, time)[n] = Reducer!Locals(u, time)[n]
  <2>1. PICK day : day = time
    OBVIOUS
  <2>2. Len(v) \in Nat /\ Len(u) \in Nat /\ n <= Len(v) /\ n <= Len(u)
    BY <1>0, <1>1, <1>2
  <2>3. \A k \in 1 .. n : v[k] = u[k]
    BY <1>1, <1>2
  <2>4. \A k \in 0 .. n : Reducer!Locals(v, day)[k] = Reducer!Locals(u, day)[k]
    BY <1>0, <2>2, <2>3, SameEvents
  <2> QED
    BY <1>0, <2>1, <2>4
<1>6. Reducer!Locals(v, time)[Len(v)] = r
  BY <1>1, <1>4, <1>5
<1>7. s.failing = r.failing
  BY <1>3, <1>6 DEF Reducer!SnapshotAt
<1>8. s.valid <=> r.failing = 0 /\ r.count # 0
  <2>1. s.valid = (r.failing = 0 /\ ~ (r.failing = 0 /\ r.count = 0))
    BY <1>3, <1>6 DEF Reducer!SnapshotAt
  <2> QED
    BY <2>1
<1>9. /\ r.failing # 0 => s.errorCategory = r.errorCategory
      /\ r.failing = 0 /\ r.count = 0 => s.errorCategory = "SNAPSHOT_EMPTY"
  BY <1>3, <1>6 DEF Reducer!SnapshotAt
<1> QED
  BY <1>7, <1>8, <1>9

\* The position of the refusal settles the search, and no earlier one does.
Settled ==
  Selection.failing # 0 =>
    /\ Selection.failing \in 1 .. Len(Kept)
    /\ Blames(Selection.failing)
    /\ \A n \in 1 .. Selection.failing - 1 : ~Blames(n)

\* The SDK's selection is that of the request, with other positions.
LEMMA WholeLog ==
  ASSUME Requested, op = "c2sp_lifecycle_vector"
  PROVE  /\ Selection.valid <=> Select(word).valid
         /\ Select(word).applied = [k \in DOMAIN Selection.applied |-> Kept[Selection.applied[k]]]
         /\ Select(word).failing = IF Selection.failing = 0 THEN 0 ELSE Kept[Selection.failing]
         /\ Selection.failing \in 0 .. Len(Kept)
         /\ Selection.applied \in Seq(Nat)
<1> DEFINE L == Len(Kept)
<1>0. L \in Nat /\ Len(word) \in Nat /\ DOMAIN word = 1 .. Len(word)
  BY PassedOn, RequestFacts
<1>1. PICK q : q = Readings[L]
  OBVIOUS
<1>2. PICK r : r = Oracle!Locals(Seen(word))[Len(word)]
  OBVIOUS
<1>3. Candidates(Seen(word)) /\ Len(Seen(word)) = Len(word)
  BY <1>0, SeenLog
<1>4. Candidates(Seen(Passed(L))) /\ Len(Seen(Passed(L))) = L
  BY <1>0, PassedLog
<1>5. Reached(r, Len(word)) /\ Reached(q, L)
  BY <1>0, <1>1, <1>2, <1>3, <1>4, ReachedAlways DEF Readings
<1>6. SameButPlaced(r, q)
  BY <1>1, <1>2, Dropped DEF Readings
<1>7. PICK s, t : s = Select(word) /\ t = Selection
  OBVIOUS
<1>8. /\ s.failing = r.failing /\ s.applied = r.applied
      /\ s.valid <=> r.failing = 0 /\ r.applied # <<>>
  <2>1. s = Oracle!Expect(Seen(word)) /\ r = Oracle!Locals(Seen(word))[Len(Seen(word))]
    BY <1>2, <1>3, <1>7 DEF Select
  <2> QED
    BY <2>1, ExpectFields
<1>9. /\ t.failing = q.failing /\ t.applied = q.applied
      /\ t.valid <=> q.failing = 0 /\ q.applied # <<>>
  BY <1>0, <1>1, <1>7, PrefixOfLog DEF Selection
<1>10. r.applied \in Seq(Nat) /\ q.applied \in Seq(Nat) /\ q.failing \in 0 .. L
  BY <1>5 DEF Reached
<1>11. r.failing = IF q.failing = 0 THEN 0 ELSE Kept[q.failing]
  BY <1>6 DEF SameButPlaced
<1>12. r.failing = 0 <=> q.failing = 0
  <2>1. q.failing # 0 => q.failing \in 1 .. L
    BY <1>0, <1>10
  <2>2. q.failing # 0 => Kept[q.failing] # 0
    BY <1>0, <2>1, PassedOn
  <2> QED
    BY <1>11, <2>2
<1>13. r.applied = [k \in DOMAIN q.applied |-> Kept[q.applied[k]]]
  <2>1. /\ Len(r.applied) = Len(q.applied)
        /\ \A i \in 1 .. Len(q.applied) : r.applied[i] = Kept[q.applied[i]]
    BY <1>6 DEF SameButPlaced
  <2>2. /\ r.applied = [k \in 1 .. Len(r.applied) |-> r.applied[k]]
        /\ DOMAIN q.applied = 1 .. Len(q.applied)
    BY <1>10, LenProperties
  <2> QED
    BY <2>1, <2>2
<1>14. r.applied # <<>> <=> q.applied # <<>>
  <2>1. r.last = q.last
    BY <1>6 DEF SameButPlaced
  <2> QED
    BY <1>5, <2>1 DEF Reached
<1> QED
  BY <1>7, <1>8, <1>9, <1>10, <1>11, <1>12, <1>13, <1>14

\* A log that go is given and that is refused starts a lifecycle at once.
LEMMA IssuedFirst ==
  ASSUME Requested, op = "c2sp_lifecycle_vector", adapter = "go", Selection.failing # 0
  PROVE  \A n \in 1 .. Len(Kept) : Readings[n].last # NoId
<1> DEFINE L == Len(Kept)
           u == Seen(Passed(L))
           S == {n \in Nat : n = 0 \/ Readings[n].last # NoId}
<1>0. L \in Nat /\ Len(word) \in Nat /\ DOMAIN word = 1 .. Len(word)
  BY PassedOn, RequestFacts
<1>1. Candidates(u) /\ Len(u) = L /\ \A k \in 1 .. L : u[k] = AsSeen(word[Kept[k]])
  BY <1>0, PassedLog
<1>2. /\ Readings[0] = Oracle!NothingRead
      /\ \A n \in 1 .. L : Readings[n] = Oracle!After(Readings[n - 1], u[n], n)
  BY <1>0, <1>1, LocalsStep DEF Readings
<1>3. \A n \in 0 .. L : Reached(Readings[n], n)
  BY <1>1, ReachedAlways DEF Readings
<1> HIDE DEF u
<1>4. 1 <= L /\ Kept[1] = 1
  <2>1. Selection.failing \in 0 .. L
    BY WholeLog
  <2>2. Kept[1] = 1
    BY <1>0, <2>1, AllKept DEF Keeps
  <2> QED
    BY <1>0, <2>1, <2>2
<1>5. word[1].kind = "I" /\ word[1].authenticated /\ word[1].proven
  <2>1. Select(word).failing # 0
    <3>1. Select(word).failing = Kept[Selection.failing] /\ Selection.failing \in 1 .. L
      BY <1>0, WholeLog
    <3> QED
      BY <1>0, <3>1, PassedOn
  <2>2. Enumerates(word) /\ Oracle!Expect(Seen(word)).failing # 0
    BY <2>1, RequestFacts DEF Select
  <2> QED
    BY <2>2 DEF Enumerates
<1>6. u[1].kind = "I" /\ u[1].authenticated /\ u[1].id # NoId
  <2>1. u[1] = AsSeen(word[1]) /\ u[1].id # NoId
    BY <1>0, <1>1, <1>4 DEF Candidates
  <2>2. 1 \in 1 .. Len(word)
    BY <1>0, <1>4, PassedOn
  <2>3. DOMAIN word[1] = {"id", "prev", "kind", "authenticated", "proven", "values"}
    BY <2>2, RequestFacts DEF IsLog
  <2> QED
    BY <1>5, <2>1, <2>3 DEF AsSeen
<1>7. 0 \in S
  OBVIOUS
<1>8. ASSUME NEW n \in Nat, n < L, n \in S PROVE n + 1 \in S
  <2>1. PICK r, s, c : r = Readings[n] /\ s = Readings[n + 1] /\ c = u[n + 1]
    OBVIOUS
  <2>2. s = Oracle!After(r, c, n + 1) /\ DOMAIN r = OracleFields /\ c.id # NoId
    <3>1. n + 1 \in 1 .. L /\ (n + 1) - 1 = n /\ n \in 0 .. L
      BY <1>0, <1>8
    <3> QED
      BY <1>1, <1>2, <1>3, <2>1, <3>1 DEF Candidates, Reached
  <2>3. ASSUME n = 0 PROVE s.last # NoId
    <3>1. r = Oracle!NothingRead /\ c = u[1]
      BY <1>2, <2>1, <2>3
    <3>2. r.last = NoId /\ r.seen = {} /\ r.failing = 0
      BY <3>1 DEF Oracle!NothingRead
    <3>3. ~Oracle!Ignored(r, c) /\ ~Oracle!Refused(r, c)
      BY <1>6, <3>1, <3>2 DEF Oracle!Ignored, Oracle!Refused
    <3>4. s.last = c.id
      BY <2>2, <3>2, <3>3, OracleTurn
    <3> QED
      BY <2>2, <3>4
  <2>4. ASSUME n # 0 PROVE s.last # NoId
    <3>1. r.last # NoId
      BY <1>8, <2>1, <2>4
    <3>2. s.last = r.last \/ s.last = c.id
      BY <2>2, OracleTurn
    <3> QED
      BY <2>2, <3>1, <3>2
  <2>5. Readings[n + 1].last # NoId /\ n + 1 \in Nat
    BY <2>1, <2>3, <2>4
  <2> QED
    BY <2>5
<1> HIDE DEF S
<1>9. 0 .. L \subseteq S
  BY <1>0, <1>7, <1>8, Inductive
<1> QED
  BY <1>0, <1>9 DEF S

LEMMA SettledForLogs ==
  ASSUME Requested, op = "c2sp_lifecycle_vector", ~Selection.valid, adapter \in {"ts", "go"}
  PROVE  Settled
<1> SUFFICES ASSUME Selection.failing # 0 PROVE Settled
  BY DEF Settled
<1> DEFINE L == Len(Kept)
           s(n) == Select(Passed(n))
<1>0. L \in Nat
  BY PassedOn
<1>1. Candidates(Seen(Passed(L))) /\ Len(Seen(Passed(L))) = L
  BY <1>0, PassedLog
<1>2. /\ \A n \in 0 .. L : Reached(Readings[n], n)
      /\ FirstAt(Readings, L)
  BY <1>0, <1>1, ReachedAlways, ReadingsStick, FirstFailure DEF Readings
<1>3. PICK q : q = Readings
  OBVIOUS
<1>4. \A n \in 0 .. L :
        /\ s(n).failing = q[n].failing /\ s(n).errorCategory = q[n].errorCategory
        /\ s(n).valid <=> q[n].failing = 0 /\ q[n].applied # <<>>
  BY <1>3, PrefixOfLog
<1>5. PICK f : f = Selection.failing
  OBVIOUS
<1>6. f = q[L].failing /\ Selection = s(L) /\ L \in 0 .. L
  BY <1>0, <1>4, <1>5 DEF Selection
<1>7. /\ f \in 1 .. L
      /\ q[f].failing = f /\ q[f].errorCategory = q[L].errorCategory
      /\ \A n \in 0 .. f - 1 : q[n].failing = 0
      /\ q[L].errorCategory \in {"TERMINAL_STATE", "CHAIN_CONTINUITY"}
  <2>1. Reached(q[L], L) /\ FirstAt(q, L) /\ q[L].failing # 0
    BY <1>2, <1>3, <1>5, <1>6
  <2> QED
    BY <1>0, <1>6, <2>1 DEF Reached, FirstAt
<1>8. Blames(f)
  <2>1. ~s(f).valid /\ s(f).failing = f /\ s(f).errorCategory = s(L).errorCategory
    BY <1>0, <1>4, <1>7
  <2>2. f # 0
    BY <1>0, <1>7
  <2>3. Category(s(f)) = Category(Selection)
    BY <1>5, <1>6, <2>1, <2>2 DEF Category
  <2> QED
    BY <2>1, <2>3 DEF Blames
<1>9. ASSUME NEW n \in 1 .. f - 1 PROVE ~Blames(n)
  <2>1. n \in 0 .. L /\ n \in 0 .. f - 1 /\ f # 0
    BY <1>0, <1>7
  <2>2. s(n).failing = 0
    BY <1>4, <1>7, <2>1
  <2>3. CASE adapter = "ts"
    <3>1. Category(s(n)) = "GENESIS_REQUIRED"
      BY <2>2 DEF Category
    <3>2. Category(Selection) \in {"TERMINAL_STATE", "CHAIN_CONTINUITY"}
      BY <1>4, <1>5, <1>6, <1>7, <2>1 DEF Category
    <3> QED
      BY <2>3, <3>1, <3>2 DEF Blames
  <2>4. CASE adapter = "go"
    <3>1. q[n].last # NoId
      <4>1. n \in 1 .. L
        BY <1>0, <1>7
      <4> QED
        BY <1>3, <2>4, <4>1, IssuedFirst
    <3>2. Reached(q[n], n)
      BY <1>2, <1>3, <2>1
    <3>3. s(n).valid
      BY <1>4, <1>7, <2>1, <3>1, <3>2 DEF Reached
    <3> QED
      BY <3>3 DEF Blames
  <2> QED
    BY <2>3, <2>4
<1> QED
  BY <1>5, <1>7, <1>8, <1>9 DEF Settled

LEMMA SettledForEvents ==
  ASSUME Requested, op = "lifecycle_vector", ~Selection.valid, adapter = "ts"
  PROVE  Settled
<1> SUFFICES ASSUME Selection.failing # 0 PROVE Settled
  BY DEF Settled
<1> DEFINE L == Len(Kept)
           s(n) == Select(Passed(n))
<1>0. L \in Nat
  BY PassedOn
<1>1. Len(Passed(L)) = L
  BY <1>0, PassedOn
<1>2. PICK q : q = Turned
  OBVIOUS
<1>3. /\ FirstAt(q, L)
      /\ \A n \in 0 .. L : q[n].failing # 0 => q[n].errorCategory # "SNAPSHOT_EMPTY"
  <2>1. PICK day : day = time
    OBVIOUS
  <2>2. q = Reducer!Locals(Passed(L), day)
    BY <1>2, <2>1 DEF Turned
  <2> QED
    BY <1>0, <1>1, <2>2, EventsStick, FirstFailure, FieldsAlways
<1>4. \A n \in 0 .. L :
        /\ s(n).failing = q[n].failing
        /\ s(n).valid <=> q[n].failing = 0 /\ q[n].count # 0
        /\ q[n].failing # 0 => s(n).errorCategory = q[n].errorCategory
        /\ q[n].failing = 0 /\ q[n].count = 0 => s(n).errorCategory = "SNAPSHOT_EMPTY"
  BY <1>2, PrefixOfEvents
<1>5. PICK f : f = Selection.failing
  OBVIOUS
<1>6. f = q[L].failing /\ Selection = s(L) /\ L \in 0 .. L
  BY <1>0, <1>4, <1>5 DEF Selection
<1>7. f \in 1 .. L /\ q[f] = q[L] /\ \A n \in 0 .. f - 1 : q[n].failing = 0
  BY <1>0, <1>3, <1>5, <1>6 DEF FirstAt
<1>8. Category(Selection) = q[L].errorCategory /\ q[L].errorCategory # "SNAPSHOT_EMPTY"
  BY <1>3, <1>4, <1>5, <1>6 DEF Category
<1>9. Blames(f)
  <2>1. q[f].failing # 0 /\ f \in 0 .. L
    BY <1>0, <1>5, <1>6, <1>7
  <2>2. ~s(f).valid /\ Category(s(f)) = q[L].errorCategory
    BY <1>4, <1>7, <2>1 DEF Category
  <2> QED
    BY <1>8, <2>2 DEF Blames
<1>10. ASSUME NEW n \in 1 .. f - 1 PROVE ~Blames(n)
  <2>1. n \in 0 .. L /\ q[n].failing = 0
    BY <1>0, <1>7
  <2>2. ~s(n).valid => Category(s(n)) = "SNAPSHOT_EMPTY"
    BY <1>4, <2>1 DEF Category
  <2> QED
    BY <1>8, <2>2 DEF Blames
<1> QED
  BY <1>5, <1>7, <1>9, <1>10 DEF Settled

\* The SDK is asked about the events of the request as they are.
LEMMA WholeEvents ==
  ASSUME Requested, op = "lifecycle_vector"
  PROVE  /\ Selection = Select(word)
         /\ Selection.failing \in 0 .. Len(Kept)
         /\ \A k \in 1 .. Len(Kept) : Kept[k] = k
<1> DEFINE L == Len(Kept)
<1>0. L \in Nat /\ Len(word) \in Nat /\ word = [k \in 1 .. Len(word) |-> word[k]]
  BY PassedOn, RequestFacts
<1>1. L = Len(word) /\ \A k \in 1 .. L : Kept[k] = k
  BY <1>0, AllKept DEF Keeps
<1>2. Passed(L) = word
  <2>1. /\ Passed(L) = [k \in 1 .. L |-> Converted(word[Kept[k]])]
        /\ \A k \in 1 .. L : Passed(L)[k] = word[k]
    BY <1>0, <1>1, PassedOn DEF Passed
  <2>2. Passed(L) = [k \in 1 .. L |-> Passed(L)[k]]
    BY <2>1
  <2> QED
    BY <1>0, <1>1, <2>1, <2>2
<1>3. Selection = Select(word)
  BY <1>2 DEF Selection
<1>4. Selection.failing \in 0 .. L
  <2>1. PICK day : day = time
    OBVIOUS
  <2>2. Len(Passed(L)) = L
    BY <1>0, PassedOn
  <2>3. FirstAt(Turned, L)
    BY <1>0, <2>1, <2>2, EventsStick, FirstFailure DEF Turned
  <2>4. Selection.failing = Turned[L].failing
    BY <1>0, PrefixOfEvents DEF Selection
  <2> QED
    BY <2>3, <2>4 DEF FirstAt
<1> QED
  BY <1>1, <1>3, <1>4

-----------------------------------------------------------------------------
(* The first match from the last one on is the candidate that was applied. *)

\* Where the loop over the candidates looks first for the i-th applied one.
Since(list, i) == IF i = 1 THEN 1 ELSE list[i - 1] + 1

\* No applied candidate follows a copy of itself that its predecessor in the
\* list precedes, and what was read since the last one is ignored.
FirstCopies(u, r, n) ==
  r.failing = 0 =>
    /\ \A i \in 1 .. Len(r.applied) :
         /\ Since(r.applied, i) \in Nat /\ Since(r.applied, i) <= r.applied[i]
         /\ \A k \in Nat : Since(r.applied, i) <= k /\ k < r.applied[i] => u[k] # u[r.applied[i]]
    /\ Since(r.applied, Len(r.applied) + 1) \in Nat
    /\ Since(r.applied, Len(r.applied) + 1) <= n + 1
    /\ \A k \in Nat :
         Since(r.applied, Len(r.applied) + 1) <= k /\ k <= n => Oracle!Ignored(r, u[k])

LEMMA CopiesTurn ==
  ASSUME NEW u, NEW n \in Nat, NEW r, Reached(r, n), FirstCopies(u, r, n),
         NEW s, s = Oracle!After(r, u[n + 1], n + 1)
  PROVE  FirstCopies(u, s, n + 1)
<1>0. DOMAIN r = OracleFields /\ r.applied \in Seq(Nat) /\ Len(r.applied) \in Nat
  BY LenProperties DEF Reached
<1>1. CASE r.failing # 0 \/ Oracle!Ignored(r, u[n + 1])
  <2>1. s = r
    BY <1>0, <1>1, OracleTurn
  <2>2. \A k \in Nat : k <= n + 1 => k <= n \/ k = n + 1
    OBVIOUS
  <2> QED
    BY <1>1, <2>1, <2>2 DEF FirstCopies
<1>2. CASE r.failing = 0 /\ ~Oracle!Ignored(r, u[n + 1]) /\ Oracle!Refused(r, u[n + 1])
  <2>1. s.failing = n + 1
    BY <1>0, <1>2, OracleTurn
  <2> QED
    BY <2>1 DEF FirstCopies
<1>3. CASE r.failing = 0 /\ ~Oracle!Ignored(r, u[n + 1]) /\ ~Oracle!Refused(r, u[n + 1])
  <2>1. PICK a, b, l : a = r.applied /\ b = s.applied /\ l = Len(a)
    OBVIOUS
  <2>2. b = Append(a, n + 1)
    BY <1>0, <1>3, <2>1, OracleTurn
  <2>3. /\ a \in Seq(Nat) /\ l \in Nat /\ Len(b) = l + 1 /\ b[l + 1] = n + 1
        /\ \A i \in 1 .. l : b[i] = a[i]
    BY <1>0, <2>1, <2>2, AppendProperties
  <2>4. \A i \in 1 .. l + 1 : Since(b, i) = Since(a, i)
    <3>1. \A i \in 1 .. l + 1 : i = 1 \/ i - 1 \in 1 .. l
      BY <2>3
    <3> QED
      BY <2>3, <3>1 DEF Since
  <2>5. Since(b, l + 2) = n + 2
    BY <2>3 DEF Since
  <2>6. /\ Since(a, l + 1) \in Nat /\ Since(a, l + 1) <= n + 1
        /\ \A k \in Nat : Since(a, l + 1) <= k /\ k <= n => Oracle!Ignored(r, u[k])
        /\ \A i \in 1 .. l :
             /\ Since(a, i) \in Nat /\ Since(a, i) <= a[i]
             /\ \A k \in Nat : Since(a, i) <= k /\ k < a[i] => u[k] # u[a[i]]
    BY <1>3, <2>1 DEF FirstCopies
  <2>7. ASSUME NEW i \in 1 .. l + 1
        PROVE  /\ Since(b, i) \in Nat /\ Since(b, i) <= b[i]
               /\ \A k \in Nat : Since(b, i) <= k /\ k < b[i] => u[k] # u[b[i]]
    <3>1. CASE i \in 1 .. l
      BY <2>3, <2>4, <2>6, <3>1
    <3>2. CASE i = l + 1
      <4>1. Since(b, i) = Since(a, l + 1) /\ b[i] = n + 1
        BY <2>3, <2>4, <3>2
      <4>2. \A k \in Nat : k < n + 1 => k <= n
        OBVIOUS
      <4> QED
        BY <1>3, <2>6, <4>1, <4>2
    <3> QED
      BY <2>3, <3>1, <3>2
  <2>8. \A k \in Nat : ~ (n + 2 <= k /\ k <= n + 1)
    OBVIOUS
  <2>9. Len(b) + 1 = l + 2 /\ n + 2 \in Nat /\ n + 2 <= (n + 1) + 1
    BY <2>3
  <2> QED
    BY <2>1, <2>3, <2>5, <2>7, <2>8, <2>9 DEF FirstCopies
<1> QED
  BY <1>1, <1>2, <1>3

LEMMA CopiesAlways ==
  ASSUME NEW u, Candidates(u)
  PROVE  FirstCopies(u, Oracle!Locals(u)[Len(u)], Len(u))
<1> DEFINE f == Oracle!Locals(u)
           S == {n \in Nat : FirstCopies(u, f[n], n)}
<1>0. Len(u) \in Nat
  BY DEF Candidates
<1>1. f[0] = Oracle!NothingRead /\ \A n \in 1 .. Len(u) : f[n] = Oracle!After(f[n - 1], u[n], n)
  BY <1>0, LocalsStep
<1>2. \A n \in 0 .. Len(u) : Reached(f[n], n)
  BY ReachedAlways
<1> HIDE DEF f
<1>3. 0 \in S
  <2>1. f[0].applied = <<>>
    <3>1. Oracle!NothingRead.applied = <<>>
      BY DEF Oracle!NothingRead
    <3> QED
      BY <1>1, <3>1
  <2>2. Len(<<>>) = 0 /\ 1 .. 0 = {} /\ \A k \in Nat : ~ (1 <= k /\ k <= 0)
    BY EmptySeq
  <2>3. FirstCopies(u, f[0], 0)
    BY <2>1, <2>2 DEF FirstCopies, Since
  <2> QED
    BY <2>3
<1>4. ASSUME NEW n \in Nat, n < Len(u), n \in S PROVE n + 1 \in S
  <2>1. n + 1 \in 1 .. Len(u) /\ (n + 1) - 1 = n /\ n \in 0 .. Len(u)
    BY <1>0, <1>4
  <2>2. f[n + 1] = Oracle!After(f[n], u[n + 1], n + 1) /\ Reached(f[n], n)
    BY <1>1, <1>2, <2>1
  <2>3. FirstCopies(u, f[n], n)
    BY <1>4
  <2>4. FirstCopies(u, f[n + 1], n + 1)
    BY <2>2, <2>3, CopiesTurn
  <2> QED
    BY <2>4
<1> HIDE DEF S
<1>5. 0 .. Len(u) \subseteq S
  BY <1>0, <1>3, <1>4, Inductive
<1> QED
  BY <1>0, <1>5 DEF S, f

Matches(lo, p) == {k \in lo .. Len(word) : word[k].values = word[p].values}

\* go finds each applied candidate again.
LEMMA FoundAgain ==
  ASSUME Requested, op = "c2sp_lifecycle_vector", adapter = "go", Selection.valid,
         NEW i \in 1 .. Len(Selection.applied),
         NEW p, p = Selection.applied[i], NEW lo, lo = Since(Selection.applied, i)
  PROVE  Matches(lo, p) # {} /\ Min(Matches(lo, p)) = p
<1> DEFINE L == Len(Kept)
           u == Seen(Passed(L))
           M == Matches(lo, p)
<1>0. L \in Nat /\ Len(word) \in Nat /\ DOMAIN word = 1 .. Len(word)
  BY PassedOn, RequestFacts
<1>1. L = Len(word) /\ \A k \in 1 .. L : Kept[k] = k
  BY <1>0, AllKept DEF Keeps
<1>2. Candidates(u) /\ Len(u) = L /\ \A k \in 1 .. L : u[k] = AsSeen(word[k])
  BY <1>0, <1>1, PassedLog
<1>3. PICK r : r = Readings[L]
  OBVIOUS
<1>4. FirstCopies(u, r, L) /\ Reached(r, L)
  BY <1>0, <1>2, <1>3, CopiesAlways, ReachedAlways DEF Readings
<1>5. r.failing = 0 /\ r.applied = Selection.applied
  BY <1>0, <1>3, PrefixOfLog DEF Selection
<1> HIDE DEF u
<1>6. /\ lo \in Nat /\ lo <= p /\ p \in 1 .. L
      /\ \A k \in Nat : lo <= k /\ k < p => u[k] # u[p]
  BY <1>4, <1>5 DEF FirstCopies, Reached
<1>7. lo >= 1
  <2>1. CASE i = 1
    BY <2>1 DEF Since
  <2>2. CASE i # 1
    <3>1. Len(Selection.applied) \in Nat
      BY WholeLog, LenProperties
    <3>2. i - 1 \in 1 .. Len(Selection.applied)
      BY <2>2, <3>1
    <3>3. Selection.applied[i - 1] \in 1 .. L
      BY <1>4, <1>5, <3>2 DEF Reached
    <3> QED
      BY <1>0, <2>2, <3>3 DEF Since
  <2> QED
    BY <2>1, <2>2
<1>8. p \in M
  BY <1>0, <1>1, <1>6 DEF Matches
<1>9. ASSUME NEW k \in M PROVE p <= k
  <2>0. k \in Nat
    BY <1>0, <1>6 DEF Matches
  <2>1. SUFFICES ASSUME k < p PROVE FALSE
    BY <1>0, <1>6, <2>0
  <2>2. k \in 1 .. L /\ k \in Nat /\ lo <= k /\ word[k].values = word[p].values
    BY <1>0, <1>1, <1>6, <1>7 DEF Matches
  <2>3. Enumerates(word)
    BY RequestFacts
  <2>4. word[k] = word[p]
    BY <1>0, <1>1, <1>6, <2>2, <2>3 DEF Enumerates
  <2>5. u[k] = u[p]
    BY <1>2, <1>6, <2>2, <2>4
  <2> QED
    BY <1>6, <2>1, <2>2, <2>5
<1>10. \A k \in M : k \in Nat
  BY <1>0, <1>6 DEF Matches
<1> HIDE DEF M
<1>11. Min(M) = p
  BY <1>6, <1>8, <1>9, <1>10 DEF Min
<1> QED
  BY <1>8, <1>11 DEF M

-----------------------------------------------------------------------------
(* The adapters.                                                           *)

\* What the adapter asks the SDK about, and what the answer stands for.
LEMMA Whole ==
  ASSUME Requested
  PROVE  /\ Selection.valid <=> Select(word).valid
         /\ Selection.failing \in 0 .. Len(Kept)
         /\ Select(word).failing = IF Selection.failing = 0 THEN 0 ELSE Kept[Selection.failing]
         /\ op = "lifecycle_vector" => Selection.state = Select(word).state
<1>1. CASE op = "c2sp_lifecycle_vector"
  BY <1>1, WholeLog
<1>2. CASE op = "lifecycle_vector"
  <2>1. Selection.failing # 0 => Selection.failing \in 1 .. Len(Kept)
    BY <1>2, WholeEvents, PassedOn
  <2> QED
    BY <1>2, <2>1, WholeEvents
<1> QED
  BY <1>1, <1>2, RequestFacts

LEMMA SettledAlways ==
  ASSUME Requested, ~Selection.valid, ~Named
  PROVE  Settled
<1>1. CASE op = "c2sp_lifecycle_vector"
  BY <1>1, SettledForLogs, RequestFacts DEF Named
<1>2. CASE op = "lifecycle_vector"
  BY <1>2, SettledForEvents, RequestFacts DEF Named
<1> QED
  BY <1>1, <1>2, RequestFacts

\* go matches one applied candidate after the other.
Matching ==
  /\ op = "c2sp_lifecycle_vector" /\ adapter = "go" /\ Selection.valid
  /\ at \in Nat /\ 1 <= at /\ at <= Len(Selection.applied) + 1
  /\ free = Since(Selection.applied, at)
  /\ DOMAIN report = DOMAIN NoReport
  /\ report.ok
  /\ report.applied \in Seq(Nat) /\ Len(report.applied) = at - 1
  /\ \A i \in 1 .. at - 1 : report.applied[i] = Selection.applied[i]

\* No prefix that was tried settled the search.
Searching ==
  /\ ~Selection.valid /\ ~Named
  /\ at \in Nat /\ 1 <= at
  /\ Selection.failing # 0 => at <= Selection.failing
  /\ report = NoReport

\* The answer is the one the suite expects of the request.
Answered ==
  /\ Select(word).valid =>
       /\ report.ok
       /\ IF op = "lifecycle_vector" THEN report.state = {Select(word).state}
          ELSE report.applied = Select(word).applied
  /\ ~Select(word).valid =>
       ~report.ok /\ (Select(word).failing # 0 => report.failing = Select(word).failing)

ReportInv ==
  /\ Requested
  /\ phase = "rebuild" => report = NoReport /\ at = 1 /\ free = 1
  /\ phase = "match" => Matching
  /\ phase = "search" => Searching
  /\ phase = "reported" => Answered

LEMMA SameRequest ==
  ASSUME UNCHANGED request
  PROVE  /\ Selection' = Selection /\ Kept' = Kept /\ Select(word)' = Select(word)
         /\ Requested' = Requested /\ Named' = Named /\ op' = op /\ adapter' = adapter /\ word' = word
<1>1. word' = word /\ op' = op /\ adapter' = adapter /\ time' = time
  BY DEF request
<1>2. KeptOf' = KeptOf
  BY <1>1 DEF KeptOf, Keep, Keeps
<1>3. Kept' = Kept
  BY <1>1, <1>2 DEF Kept
<1>4. Passed(Len(Kept))' = Passed(Len(Kept))
  BY <1>1, <1>3 DEF Passed, Converted
<1>5. Selection' = Selection
  BY <1>1, <1>4 DEF Selection, Select
<1>6. Select(word)' = Select(word)
  BY <1>1 DEF Select
<1>7. Requested' = Requested /\ Named' = Named
  BY <1>1 DEF Requested, Named
<1> QED
  BY <1>1, <1>3, <1>5, <1>6, <1>7

LEMMA RebuildStep ==
  ASSUME Requested, report = NoReport, at = 1, free = 1, Rebuild
  PROVE  ReportInv'
<1>1. UNCHANGED request /\ at' = 1 /\ free' = 1
  BY DEF Rebuild
<1>2. /\ Selection' = Selection /\ Select(word)' = Select(word) /\ Requested'
      /\ Named' = Named /\ op' = op /\ adapter' = adapter
  BY <1>1, SameRequest
<1>3. /\ DOMAIN NoReport = {"ok", "applied", "state", "failing"}
      /\ NoReport.ok = FALSE /\ NoReport.applied = <<>> /\ NoReport.failing = 0
  BY DEF NoReport
<1>4. op \in {"c2sp_lifecycle_vector", "lifecycle_vector"}
  BY RequestFacts
<1>5. ASSUME Selection.valid, op = "lifecycle_vector", phase' = "reported",
             report' = [report EXCEPT !.ok = TRUE, !.state = {Selection.state}]
      PROVE  ReportInv'
  <2>1. report'.ok /\ report'.state = {Selection.state}
    BY <1>3, <1>5
  <2>2. Answered'
    BY <1>2, <1>5, <2>1, Whole DEF Answered
  <2> QED
    BY <1>2, <1>5, <2>2 DEF ReportInv
<1>6. ASSUME Selection.valid, op = "c2sp_lifecycle_vector", adapter = "go", phase' = "match",
             report' = [report EXCEPT !.ok = TRUE]
      PROVE  ReportInv'
  <2>1. DOMAIN report' = DOMAIN NoReport /\ report'.ok /\ report'.applied = <<>>
    BY <1>3, <1>6
  <2>2. <<>> \in Seq(Nat) /\ Len(<<>>) = 0
    BY EmptySeq
  <2>3. Len(Selection.applied) \in Nat
    BY <1>6, WholeLog, LenProperties
  <2>4. Since(Selection.applied, 1) = 1
    BY DEF Since
  <2>5. (DOMAIN NoReport)' = DOMAIN NoReport
    BY DEF NoReport
  <2>6. Matching'
    <3>1. op' = "c2sp_lifecycle_vector" /\ adapter' = "go" /\ Selection'.valid
      BY <1>2, <1>6
    <3>2. at' \in Nat /\ 1 <= at' /\ at' <= Len(Selection'.applied) + 1
      BY <1>1, <1>2, <2>3
    <3>3. free' = Since(Selection'.applied, at')
      BY <1>1, <1>2, <2>4
    <3>4. DOMAIN report' = (DOMAIN NoReport)' /\ report'.ok
      BY <2>1, <2>5
    <3>5. /\ report'.applied \in Seq(Nat) /\ Len(report'.applied) = at' - 1
          /\ \A i \in 1 .. at' - 1 : report'.applied[i] = Selection'.applied[i]
      BY <1>1, <2>1, <2>2
    <3> QED
      BY <3>1, <3>2, <3>3, <3>4, <3>5 DEF Matching
  <2> QED
    BY <1>2, <1>6, <2>6 DEF ReportInv
<1>7. ASSUME Selection.valid, op = "c2sp_lifecycle_vector", phase' = "reported",
             report' = [report EXCEPT !.ok = TRUE,
                          !.applied = [k \in DOMAIN Selection.applied |-> Kept[Selection.applied[k]]]]
      PROVE  ReportInv'
  <2>1. report'.ok /\ report'.applied = [k \in DOMAIN Selection.applied |-> Kept[Selection.applied[k]]]
    BY <1>3, <1>7
  <2>2. report'.applied = Select(word).applied /\ Select(word).valid
    BY <1>7, <2>1, WholeLog
  <2>3. Answered'
    BY <1>2, <1>7, <2>1, <2>2 DEF Answered
  <2> QED
    BY <1>2, <1>7, <2>3 DEF ReportInv
<1>8. ASSUME ~Selection.valid, phase' = "reported",
             report' = [report EXCEPT !.failing =
                          IF Selection.failing = 0 THEN 0 ELSE Kept[Selection.failing]]
      PROVE  ReportInv'
  <2>1. ~report'.ok /\ report'.failing = IF Selection.failing = 0 THEN 0 ELSE Kept[Selection.failing]
    BY <1>3, <1>8
  <2>2. Answered'
    BY <1>2, <1>8, <2>1, Whole DEF Answered
  <2> QED
    BY <1>2, <1>8, <2>2 DEF ReportInv
<1>9. ASSUME ~Selection.valid, ~Named, phase' = "search", report' = report
      PROVE  ReportInv'
  <2>1. Selection.failing # 0 => 1 <= Selection.failing
    BY Whole, PassedOn
  <2>2. Searching'
    BY <1>1, <1>2, <1>9, <2>1 DEF Searching, NoReport
  <2> QED
    BY <1>2, <1>9, <2>2 DEF ReportInv
<1> QED
  BY <1>5, <1>6, <1>7, <1>8, <1>9 DEF Rebuild

LEMMA MatchStep ==
  ASSUME Requested, phase = "match", Matching, MatchEvent
  PROVE  ReportInv'
<1>1. UNCHANGED request /\ at' = at + 1 /\ phase' = "match" /\ at <= Len(Selection.applied)
  BY DEF MatchEvent
<1>2. /\ Selection' = Selection /\ Requested' /\ op' = op /\ adapter' = adapter
  BY <1>1, SameRequest
<1>3. /\ op = "c2sp_lifecycle_vector" /\ adapter = "go" /\ Selection.valid
      /\ at \in Nat /\ 1 <= at /\ free = Since(Selection.applied, at)
      /\ DOMAIN report = DOMAIN NoReport /\ report.ok
      /\ report.applied \in Seq(Nat) /\ Len(report.applied) = at - 1
      /\ \A i \in 1 .. at - 1 : report.applied[i] = Selection.applied[i]
  BY DEF Matching
<1>4. Selection.applied \in Seq(Nat) /\ Len(Selection.applied) \in Nat
  BY <1>3, WholeLog, LenProperties
<1>5. at \in 1 .. Len(Selection.applied)
  BY <1>1, <1>3, <1>4
<1>6. PICK p : p = Selection.applied[at]
  OBVIOUS
<1>7. p \in Nat
  BY <1>4, <1>5, <1>6, ElementOfSeq
<1>8. Matches(free, p) # {} /\ Min(Matches(free, p)) = p
  BY <1>3, <1>5, <1>6, FoundAgain
<1>9. report' = [report EXCEPT !.applied = Append(@, p)] /\ free' = p + 1
  BY <1>6, <1>8 DEF MatchEvent, Matches
<1>10. DOMAIN report' = DOMAIN report /\ report'.ok = report.ok /\ report'.applied = Append(report.applied, p)
  <2>1. DOMAIN NoReport = {"ok", "applied", "state", "failing"}
    BY DEF NoReport
  <2> QED
    BY <1>3, <1>9, <2>1
<1>11. free' = Since(Selection.applied, at + 1)
  BY <1>3, <1>6, <1>9 DEF Since
<1>12. /\ report'.applied \in Seq(Nat) /\ Len(report'.applied) = at
       /\ \A i \in 1 .. at : report'.applied[i] = Selection.applied[i]
  <2>1. PICK a, n : a = report.applied /\ n = at - 1
    OBVIOUS
  <2>2. /\ Append(a, p) \in Seq(Nat) /\ Len(Append(a, p)) = n + 1
        /\ Append(a, p)[n + 1] = p /\ \A i \in 1 .. n : Append(a, p)[i] = a[i]
    BY <1>3, <1>7, <2>1, AppendProperties
  <2>3. n + 1 = at /\ \A i \in 1 .. at : i = at \/ i \in 1 .. n
    BY <1>3, <2>1
  <2> QED
    BY <1>3, <1>6, <1>10, <2>1, <2>2, <2>3
<1>13. (DOMAIN NoReport)' = DOMAIN NoReport
  BY DEF NoReport
<1>14. at + 1 \in Nat /\ 1 <= at + 1 /\ at + 1 <= Len(Selection.applied) + 1 /\ (at + 1) - 1 = at
  BY <1>1, <1>3, <1>4
<1>15. Matching'
  <2>1. op' = "c2sp_lifecycle_vector" /\ adapter' = "go" /\ Selection'.valid
    BY <1>2, <1>3
  <2>2. at' \in Nat /\ 1 <= at' /\ at' <= Len(Selection'.applied) + 1
    BY <1>1, <1>2, <1>14
  <2>3. free' = Since(Selection'.applied, at')
    BY <1>1, <1>2, <1>11
  <2>4. DOMAIN report' = (DOMAIN NoReport)' /\ report'.ok
    BY <1>3, <1>10, <1>13
  <2>5. /\ report'.applied \in Seq(Nat) /\ Len(report'.applied) = at' - 1
        /\ \A i \in 1 .. at' - 1 : report'.applied[i] = Selection'.applied[i]
    BY <1>1, <1>2, <1>12, <1>14
  <2> QED
    BY <2>1, <2>2, <2>3, <2>4, <2>5 DEF Matching
<1> QED
  BY <1>1, <1>2, <1>15 DEF ReportInv

LEMMA TryStep ==
  ASSUME Requested, phase = "search", Searching, TryPrefix
  PROVE  ReportInv'
<1>1. UNCHANGED request
  BY DEF TryPrefix
<1>2. /\ Selection' = Selection /\ Select(word)' = Select(word) /\ Requested' /\ Named' = Named
  BY <1>1, SameRequest
<1>3. /\ ~Selection.valid /\ ~Named /\ at \in Nat /\ 1 <= at /\ report = NoReport
      /\ Selection.failing # 0 => at <= Selection.failing
  BY DEF Searching
<1>4. Settled
  BY <1>3, SettledAlways
<1>5. Len(Kept) \in Nat /\ Selection.failing \in 0 .. Len(Kept)
  BY PassedOn, Whole
<1>6. CASE Blames(at)
  <2>1. report' = [report EXCEPT !.failing = Kept[at]] /\ phase' = "reported"
    BY <1>6 DEF TryPrefix
  <2>2. ~report'.ok /\ report'.failing = Kept[at]
    BY <1>3, <2>1 DEF NoReport
  <2>3. Selection.failing # 0 => at = Selection.failing
    <3>1. Selection.failing # 0 /\ at < Selection.failing => at \in 1 .. Selection.failing - 1
      BY <1>3, <1>5
    <3> QED
      BY <1>3, <1>4, <1>5, <1>6, <3>1 DEF Settled
  <2>4. Answered'
    BY <1>2, <1>3, <2>2, <2>3, Whole DEF Answered
  <2> QED
    BY <1>2, <2>1, <2>4 DEF ReportInv
<1>7. CASE ~Blames(at)
  <2>1. at' = at + 1 /\ phase' = phase /\ report' = report
    BY <1>7 DEF TryPrefix
  <2>2. Selection.failing # 0 => at + 1 <= Selection.failing
    BY <1>3, <1>4, <1>5, <1>7 DEF Settled
  <2>3. Searching'
    BY <1>2, <1>3, <2>1, <2>2 DEF Searching, NoReport
  <2> QED
    BY <1>2, <2>1, <2>3 DEF ReportInv
<1> QED
  BY <1>6, <1>7

LEMMA FinishStep ==
  ASSUME Requested, phase = "match" => Matching, phase = "search" => Searching, Finish
  PROVE  ReportInv'
<1>1. UNCHANGED request /\ report' = report /\ phase' = "reported"
  BY DEF Finish
<1>2. /\ Selection' = Selection /\ Select(word)' = Select(word) /\ Requested' /\ op' = op
  BY <1>1, SameRequest
<1>3. CASE phase = "match" /\ at > Len(Selection.applied)
  <2>1. /\ op = "c2sp_lifecycle_vector" /\ adapter = "go" /\ Selection.valid
        /\ at \in Nat /\ at <= Len(Selection.applied) + 1
        /\ report.ok /\ report.applied \in Seq(Nat) /\ Len(report.applied) = at - 1
        /\ \A i \in 1 .. at - 1 : report.applied[i] = Selection.applied[i]
    BY <1>3 DEF Matching
  <2>2. PICK l : l = Len(Selection.applied)
    OBVIOUS
  <2>3. Selection.applied \in Seq(Nat) /\ l \in Nat /\ DOMAIN Selection.applied = 1 .. l
    BY <2>1, <2>2, WholeLog, LenProperties
  <2>4. at - 1 = l
    BY <1>3, <2>1, <2>2, <2>3
  <2>5. report.applied = Selection.applied
    BY <2>1, <2>2, <2>3, <2>4, SeqEqual
  <2>6. Select(word).applied = Selection.applied
    <3>1. \A k \in 1 .. l : Selection.applied[k] \in 1 .. Len(Kept)
      <4>1. PICK r : r = Readings[Len(Kept)]
        OBVIOUS
      <4>2. r.applied = Selection.applied
        BY <2>1, <4>1, PassedOn, PrefixOfLog DEF Selection
      <4>3. Reached(r, Len(Kept))
        BY <2>1, <4>1, PassedOn, PassedLog, ReachedAlways DEF Readings
      <4> QED
        BY <2>2, <4>2, <4>3 DEF Reached
    <3>2. \A k \in 1 .. Len(Kept) : Kept[k] = k
      BY <2>1, PassedOn, RequestFacts, AllKept DEF Keeps
    <3>3. Select(word).applied = [k \in 1 .. l |-> Kept[Selection.applied[k]]]
      BY <2>1, <2>3, WholeLog
    <3>4. Selection.applied = [k \in 1 .. l |-> Selection.applied[k]]
      BY <2>2, <2>3
    <3>5. \A k \in 1 .. l : Kept[Selection.applied[k]] = Selection.applied[k]
      BY <3>1, <3>2
    <3> QED
      BY <3>3, <3>4, <3>5
  <2>7. Answered'
    BY <1>1, <1>2, <2>1, <2>5, <2>6, Whole DEF Answered
  <2> QED
    BY <1>1, <1>2, <2>7 DEF ReportInv
<1>4. CASE phase = "search" /\ at > Len(Kept)
  <2>1. /\ ~Selection.valid /\ at \in Nat /\ report = NoReport
        /\ Selection.failing # 0 => at <= Selection.failing
    BY <1>4 DEF Searching
  <2>2. Selection.failing = 0
    BY <1>4, <2>1, Whole, PassedOn
  <2>3. ~report.ok
    BY <2>1 DEF NoReport
  <2>4. Answered'
    BY <1>1, <1>2, <2>1, <2>2, <2>3, Whole DEF Answered
  <2> QED
    BY <1>1, <1>2, <2>4 DEF ReportInv
<1> QED
  BY <1>3, <1>4 DEF Finish

\* For every log and every list of events, however long, ReportInv holds.
THEOREM ReportInvariance == Spec => []ReportInv
<1>1. Init => ReportInv
  BY DEF Init, ReportInv, Requested
<1>2. ReportInv /\ [Next]_vars => ReportInv'
  <2> SUFFICES ASSUME ReportInv, [Next]_vars PROVE ReportInv'
    OBVIOUS
  <2>1. CASE Rebuild
    BY <2>1, RebuildStep DEF ReportInv, Rebuild
  <2>2. CASE MatchEvent
    BY <2>2, MatchStep DEF ReportInv, MatchEvent
  <2>3. CASE TryPrefix
    BY <2>3, TryStep DEF ReportInv, TryPrefix
  <2>4. CASE Finish
    BY <2>4, FinishStep DEF ReportInv
  <2>5. CASE UNCHANGED vars
    <3>1. /\ UNCHANGED request /\ phase' = phase /\ at' = at /\ free' = free /\ report' = report
      BY <2>5 DEF vars, request
    <3>2. /\ Selection' = Selection /\ Select(word)' = Select(word) /\ Requested' = Requested
          /\ Named' = Named /\ op' = op /\ adapter' = adapter
      BY <3>1, SameRequest
    <3> QED
      BY <3>1, <3>2 DEF ReportInv, Matching, Searching, Answered, NoReport
  <2> QED
    BY <2>1, <2>2, <2>3, <2>4, <2>5 DEF Next
<1> QED
  BY <1>1, <1>2, PTL DEF Spec

\* Whatever the adapter drops or matches, an accepted request is answered with
\* what the suite expects to have taken effect.
THEOREM ReportsSelectionAlways == Spec => []ReportsSelection
<1>1. ReportInv => ReportsSelection
  BY DEF ReportInv, Answered, ReportsSelection, Done
<1> QED
  BY <1>1, ReportInvariance, PTL

\* Whatever the adapter drops or searches for, a refused request is answered
\* with the position that the suite expects.
THEOREM ReportsRefusalAlways == Spec => []ReportsRefusal
<1>1. ReportInv => ReportsRefusal
  BY DEF ReportInv, Answered, ReportsRefusal, Done
<1> QED
  BY <1>1, ReportInvariance, PTL
=============================================================================
