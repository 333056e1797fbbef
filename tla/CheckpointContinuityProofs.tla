--------------------- MODULE CheckpointContinuityProofs ---------------------
(***************************************************************************)
(* CheckpointContinuity for logs of any size: a Merkle proof is accepted   *)
(* by the client that climbs it, a mutilated one is not, a correct SDK     *)
(* passes every case, and a case that passes has left the right checkpoint *)
(* in the store.                                                           *)
(***************************************************************************)
EXTENDS CheckpointContinuity, SequenceTheorems, WellFoundedInduction, TLAPS

-----------------------------------------------------------------------------
(* Induction over the set of the numbers reached.                          *)

\* A set of numbers that is not empty has a least element.
LEMMA LeastNumber ==
  ASSUME NEW S, S \subseteq Nat, S # {}
  PROVE  \E x \in S : \A y \in S : x <= y
<1> DEFINE R == OpToRel(<, Nat)
<1>1. IsWellFoundedOn(R, Nat)
  BY NatLessThanWellFounded
<1>2. \A x, y \in Nat : x < y => <<x, y>> \in R
  BY DEF OpToRel
<1> HIDE DEF R
<1>3. PICK x \in S : \A y \in S : ~ (<<y, x>> \in R)
  BY <1>1, WFMin, Zenon
<1>4. \A y \in S : ~ (y < x)
  BY <1>2, <1>3
<1> QED
  BY <1>4

\* A set that holds 0 and with each number below a bound the next holds them all.
LEMMA Inductive ==
  ASSUME NEW N \in Nat, NEW S, 0 \in S, \A n \in Nat : n < N /\ n \in S => n + 1 \in S
  PROVE  0 .. N \subseteq S
<1> SUFFICES ASSUME (0 .. N) \ S # {} PROVE FALSE
  OBVIOUS
<1> DEFINE D == (0 .. N) \ S
<1>0. D \subseteq Nat /\ D # {}
  OBVIOUS
<1> HIDE DEF D
<1>1. PICK m \in D : \A y \in D : m <= y
  BY <1>0, LeastNumber
<1>2. m # 0 /\ m - 1 \in 0 .. N /\ m - 1 < N
  BY <1>1 DEF D
<1>3. PICK k : k = m - 1
  OBVIOUS
<1>4. k \in Nat /\ k < N /\ k \in S /\ k + 1 = m
  BY <1>1, <1>2, <1>3 DEF D
<1>5. m \in S
  BY <1>4
<1> QED
  BY <1>1, <1>5 DEF D

\* A set that holds each number up to a bound as soon as it holds the smaller
\* ones holds them all.
LEMMA Complete ==
  ASSUME NEW N \in Nat, NEW S, \A n \in 0 .. N : (\A k \in 0 .. N : k < n => k \in S) => n \in S
  PROVE  0 .. N \subseteq S
<1> DEFINE D == (0 .. N) \ S
<1> SUFFICES ASSUME D # {} PROVE FALSE
  OBVIOUS
<1>0. D \subseteq Nat
  OBVIOUS
<1> HIDE DEF D
<1>1. PICK m \in D : \A y \in D : m <= y
  BY <1>0, LeastNumber
<1>2. m \in 0 .. N /\ m \notin S
  BY <1>1 DEF D
<1>3. \A k \in 0 .. N : k < m => k \in S
  BY <1>1, <1>2 DEF D
<1> QED
  BY <1>2, <1>3

-----------------------------------------------------------------------------
(* Powers of two.                                                          *)

\* A function that gives 1 for 0 and doubles from there on.
LEMMA PowerExists ==
  \E f : f = [i \in 0 .. MaxSize |-> IF i = 0 THEN 1 ELSE 2 * f[i - 1]]
<1> DEFINE Solves(f, m) == f = [i \in 0 .. m |-> IF i = 0 THEN 1 ELSE 2 * f[i - 1]]
           Solved == {m \in Nat : \E f : Solves(f, m)}
<1>0. MaxSize \in Nat
  BY SizeAssumption
<1>1. 0 \in Solved
  <2> DEFINE f == [i \in 0 .. 0 |-> 1]
  <2>1. Solves(f, 0)
    OBVIOUS
  <2> QED
    BY <2>1
<1>2. ASSUME NEW m \in Nat, m \in Solved PROVE m + 1 \in Solved
  <2>1. PICK f : Solves(f, m)
    BY <1>2
  <2> DEFINE g == [i \in 0 .. m + 1 |-> IF i <= m THEN f[i] ELSE 2 * f[m]]
             h == [i \in 0 .. m + 1 |-> IF i = 0 THEN 1 ELSE 2 * g[i - 1]]
  <2>2. ASSUME NEW i \in 0 .. m + 1 PROVE g[i] = h[i]
    <3>1. CASE i = 0
      BY <2>1, <3>1
    <3>2. CASE i \in 1 .. m
      <4>1. f[i] = 2 * f[i - 1]
        BY <2>1, <3>2
      <4>2. g[i] = f[i] /\ g[i - 1] = f[i - 1]
        BY <3>2
      <4> QED
        BY <3>2, <4>1, <4>2
    <3>3. CASE i = m + 1
      <4>1. g[i] = 2 * f[m] /\ g[i - 1] = f[m]
        BY <3>3
      <4> QED
        BY <3>3, <4>1
    <3> QED
      BY <3>1, <3>2, <3>3
  <2>3. g = h
    <3> HIDE DEF Solved
    <3> QED
      BY <2>2
  <2>4. Solves(g, m + 1)
    BY <2>3
  <2> HIDE DEF Solves, g, h
  <2> QED
    BY <2>4
<1> HIDE DEF Solved
<1>3. MaxSize \in Solved
  BY <1>0, <1>1, <1>2, Inductive
<1> QED
  BY <1>3 DEF Solved

\* The powers by doubling, each above its exponent.
LEMMA Doubling ==
  /\ Power[0] = 1
  /\ \A i \in 1 .. MaxSize : Power[i] = 2 * Power[i - 1]
  /\ \A i \in 0 .. MaxSize : Power[i] \in Nat /\ Power[i] > i
<1>0. MaxSize \in Nat
  BY SizeAssumption
<1>1. Power = [i \in 0 .. MaxSize |-> IF i = 0 THEN 1 ELSE 2 * Power[i - 1]]
  BY PowerExists DEF Power
<1>2. Power[0] = 1 /\ \A i \in 1 .. MaxSize : Power[i] = 2 * Power[i - 1]
  <2>1. PICK f : f = Power
    OBVIOUS
  <2>2. f = [i \in 0 .. MaxSize |-> IF i = 0 THEN 1 ELSE 2 * f[i - 1]]
    BY <1>1, <2>1
  <2>3. f[0] = 1 /\ \A i \in 1 .. MaxSize : f[i] = 2 * f[i - 1]
    BY <1>0, <2>2
  <2> QED
    BY <2>1, <2>3
<1> DEFINE S == {i \in Nat : Power[i] \in Nat /\ Power[i] > i}
<1>3. 0 \in S
  BY <1>2
<1>4. ASSUME NEW i \in Nat, i < MaxSize, i \in S PROVE i + 1 \in S
  <2>1. i + 1 \in 1 .. MaxSize /\ (i + 1) - 1 = i
    BY <1>0, <1>4
  <2>2. Power[i + 1] = 2 * Power[i]
    BY <1>2, <2>1
  <2> QED
    BY <1>4, <2>2
<1> HIDE DEF S
<1>5. 0 .. MaxSize \subseteq S
  BY <1>0, <1>3, <1>4, Inductive
<1> QED
  BY <1>2, <1>5 DEF S

\* A power of two is 1 or twice another one.
LEMMA Halves ==
  ASSUME NEW P \in Powers
  PROVE  /\ P \in Nat /\ P >= 1
         /\ P # 1 => P \div 2 \in Powers /\ P = 2 * (P \div 2) /\ P \div 2 \in Nat /\ P \div 2 >= 1
<1>1. PICK i \in 0 .. MaxSize : P = Power[i]
  BY DEF Powers
<1>2. P \in Nat /\ P >= 1
  BY <1>1, Doubling, SizeAssumption
<1>3. ASSUME P # 1
      PROVE P \div 2 \in Powers /\ P = 2 * (P \div 2) /\ P \div 2 \in Nat /\ P \div 2 >= 1
  <2>1. i \in 1 .. MaxSize /\ i - 1 \in 0 .. MaxSize
    BY <1>1, <1>3, Doubling, SizeAssumption
  <2>2. PICK Q : Q = Power[i - 1]
    OBVIOUS
  <2>3. Q \in Nat /\ Q >= 1 /\ Q \in Powers /\ P = 2 * Q
    BY <1>1, <2>1, <2>2, Doubling, SizeAssumption DEF Powers
  <2> QED
    BY <2>3
<1> QED
  BY <1>2, <1>3

\* A power below another is at most half of it.
LEMMA Apart ==
  ASSUME NEW P \in Powers, NEW Q \in Powers, P < Q
  PROVE  2 * P <= Q
<1> DEFINE Far(m) == \A i, j \in 0 .. MaxSize : i + m = j => Power[i] < Power[j] /\ 2 * Power[i] <= Power[j]
           S == {m \in Nat : m # 0 => Far(m)}
<1>0. MaxSize \in Nat
  BY SizeAssumption
<1>1. 0 \in S
  OBVIOUS
<1>2. ASSUME NEW m \in Nat, m < MaxSize, m \in S PROVE m + 1 \in S
  <2> SUFFICES ASSUME NEW i \in 0 .. MaxSize, NEW j \in 0 .. MaxSize, i + (m + 1) = j
               PROVE  Power[i] < Power[j] /\ 2 * Power[i] <= Power[j]
    OBVIOUS
  <2>1. /\ j - 1 \in 0 .. MaxSize /\ i + m = j - 1 /\ j \in 1 .. MaxSize
        /\ Power[j] = 2 * Power[j - 1]
        /\ Power[i] \in Nat /\ Power[i] > i /\ Power[j - 1] \in Nat
    BY <1>0, Doubling
  <2>2. Power[i] <= Power[j - 1]
    <3>1. CASE m = 0
      <4>1. j - 1 = i
        BY <2>1, <3>1
      <4> QED
        BY <2>1, <4>1
    <3>2. CASE m # 0
      BY <1>2, <2>1, <3>2
    <3> QED
      BY <3>1, <3>2
  <2>3. PICK a, b : a = Power[i] /\ b = Power[j - 1]
    OBVIOUS
  <2> QED
    BY <2>1, <2>2, <2>3
<1>3. 0 .. MaxSize \subseteq S
  <2> HIDE DEF S
  <2> QED
    BY <1>0, <1>1, <1>2, Inductive
<1>4. PICK i \in 0 .. MaxSize, j \in 0 .. MaxSize : P = Power[i] /\ Q = Power[j]
  BY DEF Powers
<1>5. ASSUME NEW m \in 0 .. MaxSize, m # 0 PROVE Far(m)
  BY <1>3, <1>5
<1>6. P \in Nat /\ Q \in Nat
  BY Halves
<1> HIDE DEF S
<1>7. CASE i < j
  <2>1. j - i \in 0 .. MaxSize /\ j - i # 0 /\ i + (j - i) = j
    BY <1>0, <1>7
  <2> QED
    BY <1>4, <1>5, <2>1
<1>8. CASE i = j
  BY <1>4, <1>6, <1>8
<1>9. CASE j < i
  <2>1. i - j \in 0 .. MaxSize /\ i - j # 0 /\ j + (i - j) = i
    BY <1>0, <1>9
  <2>2. Q < P
    BY <1>4, <1>5, <2>1
  <2> QED
    BY <1>6, <2>2
<1> QED
  BY <1>0, <1>7, <1>8, <1>9

\* There is one power of two below a size that is not less than its half.
LEMMA SplitUnique ==
  ASSUME NEW n \in Nat, NEW k \in Powers, k < n, n <= 2 * k
  PROVE  Split(n) = k
<1>1. ASSUME NEW j \in Powers, j < n, n <= 2 * j PROVE j = k
  <2>1. j \in Nat /\ k \in Nat
    BY Halves
  <2>2. CASE j < k
    BY <1>1, <2>1, <2>2, Apart
  <2>3. CASE k < j
    BY <1>1, <2>1, <2>3, Apart
  <2> QED
    BY <2>1, <2>2, <2>3
<1> DEFINE Q(j) == j < n /\ n <= 2 * j
<1>2. Q(k) /\ \A j \in Powers : Q(j) => j = k
  BY <1>1
<1> HIDE DEF Q
<1>3. (CHOOSE j \in Powers : Q(j)) = k
  BY <1>2
<1> QED
  BY <1>3 DEF Split, Q

\* Every log of more than one entry has a split.
LEMMA Splits ==
  ASSUME NEW n \in 2 .. MaxSize
  PROVE  /\ Split(n) \in Powers /\ Split(n) \in Nat /\ Split(n) >= 1
         /\ Split(n) < n /\ n <= 2 * Split(n)
<1> DEFINE Found(m) == \E k \in Powers : k < m /\ m <= 2 * k
           S == {m \in Nat : m >= 2 => Found(m)}
<1>0. MaxSize \in Nat /\ MaxSize >= 2
  BY SizeAssumption
<1>1. 0 \in S
  OBVIOUS
<1>2. ASSUME NEW m \in Nat, m < MaxSize, m \in S PROVE m + 1 \in S
  <2> SUFFICES ASSUME m + 1 >= 2 PROVE Found(m + 1)
    OBVIOUS
  <2>1. CASE m = 1
    <3>1. 1 \in Powers
      BY <1>0, Doubling DEF Powers
    <3> QED
      BY <2>1, <3>1
  <2>2. CASE m # 1
    <3>1. PICK k \in Powers : k < m /\ m <= 2 * k
      BY <1>2, <2>2
    <3>2. PICK i \in 0 .. MaxSize : k = Power[i]
      BY DEF Powers
    <3>3. k \in Nat /\ k > i /\ i \in Nat
      BY <1>0, <3>2, Doubling
    <3>4. CASE m + 1 <= 2 * k
      BY <3>1, <3>3, <3>4
    <3>5. CASE m = 2 * k
      <4>1. i + 1 \in 1 .. MaxSize /\ (i + 1) - 1 = i /\ i + 1 \in 0 .. MaxSize
        BY <1>0, <1>2, <3>1, <3>3
      <4>2. Power[i + 1] = m
        BY <3>2, <3>5, <4>1, Doubling
      <4>3. m \in Powers
        BY <4>1, <4>2 DEF Powers
      <4> QED
        BY <4>3, <2>2
    <3> QED
      BY <3>1, <3>3, <3>4, <3>5
  <2> QED
    BY <2>1, <2>2
<1>3. 0 .. MaxSize \subseteq S
  <2> HIDE DEF S
  <2> QED
    BY <1>0, <1>1, <1>2, Inductive
<1>4. n \in 0 .. MaxSize /\ n \in Nat /\ n >= 2
  BY <1>0
<1>5. PICK k \in Powers : k < n /\ n <= 2 * k
  BY <1>3, <1>4
<1>6. Split(n) = k
  BY <1>4, <1>5, SplitUnique
<1>7. k \in Nat /\ k >= 1
  BY Halves
<1> QED
  BY <1>5, <1>6, <1>7

-----------------------------------------------------------------------------
(* Logs, and what is defined by halving them.                              *)

\* What a log is, spelt out.
LEMMA LogFacts ==
  ASSUME NEW log \in Logs
  PROVE  /\ log \in Seq(Leaves) /\ Len(log) \in Nat /\ Len(log) >= 1 /\ Len(log) <= MaxSize
         /\ Len(log) \in 0 .. MaxSize
BY SizeAssumption DEF Logs

\* The two halves of a log are logs, the left one as long as the split.
LEMMA Parts ==
  ASSUME NEW log \in Logs, Len(log) # 1
  PROVE  LET k == Split(Len(log)) IN
         /\ k \in Powers /\ k \in Nat /\ k >= 1 /\ k < Len(log) /\ Len(log) <= 2 * k
         /\ Left(log) \in Logs /\ Len(Left(log)) = k
         /\ Right(log) \in Logs /\ Len(Right(log)) = Len(log) - k
         /\ \A i \in 1 .. k : Left(log)[i] = log[i]
         /\ \A i \in 1 .. Len(log) - k : Right(log)[i] = log[k + i]
<1> DEFINE n == Len(log)
           k == Split(n)
<1>0. log \in Seq(Leaves) /\ n \in Nat /\ n >= 1 /\ n <= MaxSize
  BY LogFacts
<1>1. n \in 2 .. MaxSize /\ log \in Seq(Leaves) /\ n \in Nat
  <2>1. n # 1
    OBVIOUS
  <2> HIDE DEF n
  <2> QED
    BY <1>0, <2>1, SizeAssumption
<1>2. k \in Powers /\ k \in Nat /\ k >= 1 /\ k < n /\ n <= 2 * k
  BY <1>1, Splits
<1>3. PICK s : s = k
  OBVIOUS
<1> HIDE DEF k
<1>4. /\ SubSeq(log, 1, s) \in Seq(Leaves) /\ Len(SubSeq(log, 1, s)) = s
      /\ \A i \in 1 .. s : SubSeq(log, 1, s)[i] = log[i]
  BY <1>1, <1>2, <1>3
<1>5. /\ SubSeq(log, s + 1, n) \in Seq(Leaves) /\ Len(SubSeq(log, s + 1, n)) = n - s
      /\ \A i \in 1 .. n - s : SubSeq(log, s + 1, n)[i] = log[s + i]
  BY <1>1, <1>2, <1>3
<1>6. s \in 1 .. MaxSize /\ n - s \in 1 .. MaxSize
  BY <1>0, <1>2, <1>3, SizeAssumption
<1> QED
  BY <1>1, <1>2, <1>3, <1>4, <1>5, <1>6 DEF Left, Right, Logs, k

Small(m) == {log \in Logs : Len(log) <= m}

TreeOf(log, f) == IF Len(log) = 1 THEN log ELSE <<f[Left(log)], f[Right(log)]>>

PathsOf(log, f) ==
  [index \in 0 .. Len(log) - 1 |->
     IF Len(log) = 1 THEN <<>>
     ELSE IF index < Split(Len(log)) THEN Append(f[Left(log)][index], Tree[Right(log)])
     ELSE Append(f[Right(log)][index - Split(Len(log))], Tree[Left(log)])]

ProofsOf(log, f) ==
  [m \in 1 .. Len(log) |-> [complete \in BOOLEAN |->
     IF m = Len(log) THEN (IF complete THEN <<>> ELSE <<Tree[log]>>)
     ELSE IF m <= Split(Len(log)) THEN Append(f[Left(log)][m][complete], Tree[Right(log)])
     ELSE Append(f[Right(log)][m - Split(Len(log))][FALSE], Tree[Left(log)])]]

\* The recursions have solutions: what is shorter comes first.
LEMMA TreeExists ==
  \E f : f = [log \in Logs |-> TreeOf(log, f)]
<1> DEFINE Solves(f, m) == f = [log \in Small(m) |-> TreeOf(log, f)]
           Solved == {m \in Nat : \E f : Solves(f, m)}
<1>0. MaxSize \in Nat
  BY SizeAssumption
<1>1. 0 \in Solved
  <2> DEFINE f == [log \in Small(0) |-> log]
  <2>1. Small(0) = {}
    BY LogFacts DEF Small
  <2>2. f = [log \in Small(0) |-> TreeOf(log, f)]
    BY <2>1
  <2> HIDE DEF f
  <2> QED
    BY <2>2
<1>2. ASSUME NEW m \in Nat, m \in Solved PROVE m + 1 \in Solved
  <2>1. PICK f : Solves(f, m)
    BY <1>2
  <2> DEFINE g == [log \in Small(m + 1) |-> TreeOf(log, f)]
  <2>2. \A log \in Small(m) : log \in Small(m + 1) /\ f[log] = TreeOf(log, f) /\ g[log] = f[log]
    <3>1. \A log \in Small(m) : log \in Small(m + 1)
      BY LogFacts DEF Small
    <3> QED
      BY <2>1, <3>1
  <2>3. ASSUME NEW log \in Small(m + 1) PROVE TreeOf(log, f) = TreeOf(log, g)
    <3>1. CASE Len(log) = 1
      BY <3>1 DEF TreeOf
    <3>2. CASE Len(log) # 1
      <4>1. Left(log) \in Small(m) /\ Right(log) \in Small(m)
        BY <3>2, Parts DEF Small
      <4>2. g[Left(log)] = f[Left(log)] /\ g[Right(log)] = f[Right(log)]
        BY <2>2, <4>1
      <4> HIDE DEF g
      <4> QED
        BY <4>2 DEF TreeOf
    <3> QED
      BY <3>1, <3>2
  <2>4. g = [log \in Small(m + 1) |-> TreeOf(log, g)]
    <3> DEFINE h == [log \in Small(m + 1) |-> TreeOf(log, g)]
    <3>1. \A log \in Small(m + 1) : g[log] = h[log]
      BY <2>3
    <3>2. g = h
      <4> HIDE DEF Solved, Solves
      <4> QED
        BY <3>1
    <3> QED
      BY <3>2
  <2> HIDE DEF g
  <2> QED
    BY <2>4
<1> HIDE DEF Solved
<1>3. MaxSize \in Solved
  BY <1>0, <1>1, <1>2, Inductive
<1>4. Small(MaxSize) = Logs
  BY LogFacts DEF Small
<1> QED
  BY <1>3, <1>4 DEF Solved

\* The same for the audit paths.
LEMMA PathsExists ==
  \E f : f = [log \in Logs |-> PathsOf(log, f)]
<1> DEFINE Solves(f, m) == f = [log \in Small(m) |-> PathsOf(log, f)]
           Solved == {m \in Nat : \E f : Solves(f, m)}
<1>0. MaxSize \in Nat
  BY SizeAssumption
<1>1. 0 \in Solved
  <2> DEFINE f == [log \in Small(0) |-> log]
  <2>1. Small(0) = {}
    BY LogFacts DEF Small
  <2>2. f = [log \in Small(0) |-> PathsOf(log, f)]
    BY <2>1
  <2> HIDE DEF f
  <2> QED
    BY <2>2
<1>2. ASSUME NEW m \in Nat, m \in Solved PROVE m + 1 \in Solved
  <2>1. PICK f : Solves(f, m)
    BY <1>2
  <2> DEFINE g == [log \in Small(m + 1) |-> PathsOf(log, f)]
  <2>2. \A log \in Small(m) : log \in Small(m + 1) /\ f[log] = PathsOf(log, f) /\ g[log] = f[log]
    <3>1. \A log \in Small(m) : log \in Small(m + 1)
      BY LogFacts DEF Small
    <3> QED
      BY <2>1, <3>1
  <2>3. ASSUME NEW log \in Small(m + 1) PROVE PathsOf(log, f) = PathsOf(log, g)
    <3>1. CASE Len(log) = 1
      BY <3>1 DEF PathsOf
    <3>2. CASE Len(log) # 1
      <4>1. Left(log) \in Small(m) /\ Right(log) \in Small(m)
        BY <3>2, Parts DEF Small
      <4>2. g[Left(log)] = f[Left(log)] /\ g[Right(log)] = f[Right(log)]
        BY <2>2, <4>1
      <4> HIDE DEF g
      <4> QED
        BY <4>2 DEF PathsOf
    <3> QED
      BY <3>1, <3>2
  <2>4. g = [log \in Small(m + 1) |-> PathsOf(log, g)]
    <3> DEFINE h == [log \in Small(m + 1) |-> PathsOf(log, g)]
    <3>1. \A log \in Small(m + 1) : g[log] = h[log]
      BY <2>3
    <3>2. g = h
      <4> HIDE DEF Solved, Solves
      <4> QED
        BY <3>1
    <3> QED
      BY <3>2
  <2> HIDE DEF g
  <2> QED
    BY <2>4
<1> HIDE DEF Solved
<1>3. MaxSize \in Solved
  BY <1>0, <1>1, <1>2, Inductive
<1>4. Small(MaxSize) = Logs
  BY LogFacts DEF Small
<1> QED
  BY <1>3, <1>4 DEF Solved

\* The same for the consistency proofs.
LEMMA ProofsExists ==
  \E f : f = [log \in Logs |-> ProofsOf(log, f)]
<1> DEFINE Solves(f, m) == f = [log \in Small(m) |-> ProofsOf(log, f)]
           Solved == {m \in Nat : \E f : Solves(f, m)}
<1>0. MaxSize \in Nat
  BY SizeAssumption
<1>1. 0 \in Solved
  <2> DEFINE f == [log \in Small(0) |-> log]
  <2>1. Small(0) = {}
    BY LogFacts DEF Small
  <2>2. f = [log \in Small(0) |-> ProofsOf(log, f)]
    BY <2>1
  <2> HIDE DEF f
  <2> QED
    BY <2>2
<1>2. ASSUME NEW m \in Nat, m \in Solved PROVE m + 1 \in Solved
  <2>1. PICK f : Solves(f, m)
    BY <1>2
  <2> DEFINE g == [log \in Small(m + 1) |-> ProofsOf(log, f)]
  <2>2. \A log \in Small(m) : log \in Small(m + 1) /\ f[log] = ProofsOf(log, f) /\ g[log] = f[log]
    <3>1. \A log \in Small(m) : log \in Small(m + 1)
      BY LogFacts DEF Small
    <3> QED
      BY <2>1, <3>1
  <2>3. ASSUME NEW log \in Small(m + 1) PROVE ProofsOf(log, f) = ProofsOf(log, g)
    <3>1. CASE Len(log) = 1
      BY <3>1 DEF ProofsOf
    <3>2. CASE Len(log) # 1
      <4>1. Left(log) \in Small(m) /\ Right(log) \in Small(m)
        BY <3>2, Parts DEF Small
      <4>2. g[Left(log)] = f[Left(log)] /\ g[Right(log)] = f[Right(log)]
        BY <2>2, <4>1
      <4> HIDE DEF g
      <4> QED
        BY <4>2 DEF ProofsOf
    <3> QED
      BY <3>1, <3>2
  <2>4. g = [log \in Small(m + 1) |-> ProofsOf(log, g)]
    <3> DEFINE h == [log \in Small(m + 1) |-> ProofsOf(log, g)]
    <3>1. \A log \in Small(m + 1) : g[log] = h[log]
      BY <2>3
    <3>2. g = h
      <4> HIDE DEF Solved, Solves
      <4> QED
        BY <3>1
    <3> QED
      BY <3>2
  <2> HIDE DEF g
  <2> QED
    BY <2>4
<1> HIDE DEF Solved
<1>3. MaxSize \in Solved
  BY <1>0, <1>1, <1>2, Inductive
<1>4. Small(MaxSize) = Logs
  BY LogFacts DEF Small
<1> QED
  BY <1>3, <1>4 DEF Solved

\* What Tree, AuditPath and Subproof say of a log: there are functions that solve
\* their equations, so that what is chosen does.
LEMMA TreeStep ==
  ASSUME NEW log \in Logs
  PROVE  Tree[log] = IF Len(log) = 1 THEN log ELSE <<Tree[Left(log)], Tree[Right(log)]>>
<1>1. Tree = [l \in Logs |-> TreeOf(l, Tree)]
  BY TreeExists DEF Tree, TreeOf
<1> QED
  BY <1>1 DEF TreeOf

\* The path of a leaf, by the half it is in.
LEMMA PathStep ==
  ASSUME NEW log \in Logs, NEW index \in 0 .. Len(log) - 1
  PROVE  AuditPath[log][index] =
           IF Len(log) = 1 THEN <<>>
           ELSE IF index < Split(Len(log)) THEN Append(AuditPath[Left(log)][index], Tree[Right(log)])
           ELSE Append(AuditPath[Right(log)][index - Split(Len(log))], Tree[Left(log)])
<1>1. AuditPath = [l \in Logs |-> PathsOf(l, AuditPath)]
  BY PathsExists DEF AuditPath, PathsOf
<1>2. AuditPath[log] = PathsOf(log, AuditPath)
  BY <1>1
<1> QED
  BY <1>2 DEF PathsOf

\* The proof of a size, by the half it ends in.
LEMMA ProofStep ==
  ASSUME NEW log \in Logs, NEW m \in 1 .. Len(log), NEW complete \in BOOLEAN
  PROVE  Subproof[log][m][complete] =
           IF m = Len(log) THEN (IF complete THEN <<>> ELSE <<Tree[log]>>)
           ELSE IF m <= Split(Len(log)) THEN Append(Subproof[Left(log)][m][complete], Tree[Right(log)])
           ELSE Append(Subproof[Right(log)][m - Split(Len(log))][FALSE], Tree[Left(log)])
<1>1. Subproof = [l \in Logs |-> ProofsOf(l, Subproof)]
  BY ProofsExists DEF Subproof, ProofsOf
<1>2. Subproof[log] = ProofsOf(log, Subproof)
  BY <1>1
<1>3. Subproof[log][m] = ProofsOf(log, Subproof)[m]
  BY <1>2
<1> QED
  BY <1>3 DEF ProofsOf

-----------------------------------------------------------------------------
(* Climbing, one node at a time.                                           *)

\* A number by its half and the rest.
LEMMA Half ==
  ASSUME NEW n \in Nat
  PROVE  /\ n % 2 \in {0, 1} /\ n = 2 * (n \div 2) + (n % 2)
         /\ n \div 2 \in Nat /\ n \div 2 <= n /\ (n # 0 => n \div 2 < n)
OBVIOUS

\* A level up, a position is one again.
LEMMA UpFacts ==
  ASSUME NEW p \in Positions
  PROVE  /\ p.fn \in Nat /\ p.sn \in Nat /\ p = [fn |-> p.fn, sn |-> p.sn]
         /\ Up(p) \in Positions /\ Up(p).fn = p.fn \div 2 /\ Up(p).sn = p.sn \div 2
         /\ p.fn # 0 => Up(p).fn < p.fn
<1>1. p.fn \in 0 .. MaxSize /\ p.sn \in 0 .. MaxSize /\ p = [fn |-> p.fn, sn |-> p.sn]
  BY DEF Positions
<1>2. PICK a, b : a = p.fn /\ b = p.sn
  OBVIOUS
<1>3. /\ a \div 2 \in 0 .. MaxSize /\ b \div 2 \in 0 .. MaxSize
      /\ a \in Nat /\ b \in Nat /\ (a # 0 => a \div 2 < a)
  BY <1>1, <1>2, Half, SizeAssumption
<1> QED
  BY <1>1, <1>2, <1>3 DEF Up, Positions

Below(m) == {p \in Positions : p.fn < m}

EvenOf(p, f) == IF p.fn % 2 = 0 /\ p.fn # 0 THEN f[Up(p)] ELSE p

OddOf(p, f) == IF p.fn % 2 = 1 THEN f[Up(p)] ELSE p

\* Halving ends: the recursions over positions have solutions.
LEMMA EvenExists ==
  \E f : f = [p \in Positions |-> EvenOf(p, f)]
<1> DEFINE Solves(f, m) == f = [p \in Below(m) |-> EvenOf(p, f)]
           Solved == {m \in Nat : \E f : Solves(f, m)}
<1>0. MaxSize \in Nat /\ MaxSize + 1 \in Nat
  BY SizeAssumption
<1>1. 0 \in Solved
  <2> DEFINE f == [p \in Below(0) |-> p]
  <2>1. Below(0) = {}
    BY SizeAssumption DEF Below, Positions
  <2>2. f = [p \in Below(0) |-> EvenOf(p, f)]
    BY <2>1
  <2> HIDE DEF f
  <2> QED
    BY <2>2
<1>2. ASSUME NEW m \in Nat, m \in Solved PROVE m + 1 \in Solved
  <2>1. PICK f : Solves(f, m)
    BY <1>2
  <2> DEFINE g == [p \in Below(m + 1) |-> EvenOf(p, f)]
  <2>2. \A p \in Below(m) : p \in Below(m + 1) /\ f[p] = EvenOf(p, f) /\ g[p] = f[p]
    <3>1. \A p \in Below(m) : p \in Below(m + 1)
      BY SizeAssumption DEF Below, Positions
    <3> QED
      BY <2>1, <3>1
  <2>3. ASSUME NEW p \in Below(m + 1) PROVE EvenOf(p, f) = EvenOf(p, g)
    <3>1. CASE ~(p.fn % 2 = 0 /\ p.fn # 0)
      BY <3>1 DEF EvenOf
    <3>2. CASE p.fn % 2 = 0 /\ p.fn # 0
      <4>1. Up(p) \in Below(m)
        BY <3>2, UpFacts, SizeAssumption DEF Below, Positions
      <4>2. g[Up(p)] = f[Up(p)]
        BY <2>2, <4>1
      <4> HIDE DEF g
      <4> QED
        BY <4>2 DEF EvenOf
    <3> QED
      BY <3>1, <3>2
  <2>4. g = [p \in Below(m + 1) |-> EvenOf(p, g)]
    <3> DEFINE h == [p \in Below(m + 1) |-> EvenOf(p, g)]
    <3>1. \A p \in Below(m + 1) : g[p] = h[p]
      BY <2>3
    <3>2. g = h
      <4> HIDE DEF Solved, Solves
      <4> QED
        BY <3>1
    <3> QED
      BY <3>2
  <2> HIDE DEF g
  <2> QED
    BY <2>4
<1> HIDE DEF Solved
<1>3. MaxSize + 1 \in Solved
  BY <1>0, <1>1, <1>2, Inductive
<1>4. Below(MaxSize + 1) = Positions
  <2>1. \A p \in Positions : p.fn < MaxSize + 1
    BY SizeAssumption DEF Positions
  <2> QED
    BY <2>1 DEF Below
<1> QED
  BY <1>3, <1>4 DEF Solved

\* The same for right children.
LEMMA OddExists ==
  \E f : f = [p \in Positions |-> OddOf(p, f)]
<1> DEFINE Solves(f, m) == f = [p \in Below(m) |-> OddOf(p, f)]
           Solved == {m \in Nat : \E f : Solves(f, m)}
<1>0. MaxSize \in Nat /\ MaxSize + 1 \in Nat
  BY SizeAssumption
<1>1. 0 \in Solved
  <2> DEFINE f == [p \in Below(0) |-> p]
  <2>1. Below(0) = {}
    BY SizeAssumption DEF Below, Positions
  <2>2. f = [p \in Below(0) |-> OddOf(p, f)]
    BY <2>1
  <2> HIDE DEF f
  <2> QED
    BY <2>2
<1>2. ASSUME NEW m \in Nat, m \in Solved PROVE m + 1 \in Solved
  <2>1. PICK f : Solves(f, m)
    BY <1>2
  <2> DEFINE g == [p \in Below(m + 1) |-> OddOf(p, f)]
  <2>2. \A p \in Below(m) : p \in Below(m + 1) /\ f[p] = OddOf(p, f) /\ g[p] = f[p]
    <3>1. \A p \in Below(m) : p \in Below(m + 1)
      BY SizeAssumption DEF Below, Positions
    <3> QED
      BY <2>1, <3>1
  <2>3. ASSUME NEW p \in Below(m + 1) PROVE OddOf(p, f) = OddOf(p, g)
    <3>1. CASE ~(p.fn % 2 = 1)
      BY <3>1 DEF OddOf
    <3>2. CASE p.fn % 2 = 1
      <4>1. Up(p) \in Below(m)
        BY <3>2, UpFacts, SizeAssumption DEF Below, Positions
      <4>2. g[Up(p)] = f[Up(p)]
        BY <2>2, <4>1
      <4> HIDE DEF g
      <4> QED
        BY <4>2 DEF OddOf
    <3> QED
      BY <3>1, <3>2
  <2>4. g = [p \in Below(m + 1) |-> OddOf(p, g)]
    <3> DEFINE h == [p \in Below(m + 1) |-> OddOf(p, g)]
    <3>1. \A p \in Below(m + 1) : g[p] = h[p]
      BY <2>3
    <3>2. g = h
      <4> HIDE DEF Solved, Solves
      <4> QED
        BY <3>1
    <3> QED
      BY <3>2
  <2> HIDE DEF g
  <2> QED
    BY <2>4
<1> HIDE DEF Solved
<1>3. MaxSize + 1 \in Solved
  BY <1>0, <1>1, <1>2, Inductive
<1>4. Below(MaxSize + 1) = Positions
  <2>1. \A p \in Positions : p.fn < MaxSize + 1
    BY SizeAssumption DEF Positions
  <2> QED
    BY <2>1 DEF Below
<1> QED
  BY <1>3, <1>4 DEF Solved

\* What SkipEven and SkipOdd say of a position.
LEMMA EvenStep ==
  ASSUME NEW p \in Positions
  PROVE  SkipEven[p] = IF p.fn % 2 = 0 /\ p.fn # 0 THEN SkipEven[Up(p)] ELSE p
<1>1. SkipEven = [q \in Positions |-> EvenOf(q, SkipEven)]
  BY EvenExists DEF SkipEven, EvenOf
<1> QED
  BY <1>1 DEF EvenOf

\* And of one that is a right child.
LEMMA OddStep ==
  ASSUME NEW p \in Positions
  PROVE  SkipOdd[p] = IF p.fn % 2 = 1 THEN SkipOdd[Up(p)] ELSE p
<1>1. SkipOdd = [q \in Positions |-> OddOf(q, SkipOdd)]
  BY OddExists DEF SkipOdd, OddOf
<1> QED
  BY <1>1 DEF OddOf

Start(from, start) == [at |-> from, old |-> start, new |-> start, surplus |-> FALSE]

Climbs(f, from, start, path, N) ==
  f = [i \in 0 .. N |-> IF i = 0 THEN Start(from, start) ELSE Step(f[i - 1], path[i])]

\* There are the states of a climb.
LEMMA ClimbingExists ==
  ASSUME NEW from, NEW start, NEW path, NEW N \in Nat
  PROVE  \E f : Climbs(f, from, start, path, N)
<1> USE DEF Climbs
<1> DEFINE Solves(f, m) == Climbs(f, from, start, path, m)
           Solved == {m \in Nat : \E f : Solves(f, m)}
<1>1. 0 \in Solved
  <2> DEFINE f == [i \in 0 .. 0 |-> Start(from, start)]
  <2>1. Solves(f, 0)
    OBVIOUS
  <2> QED
    BY <2>1
<1>2. ASSUME NEW m \in Nat, m \in Solved PROVE m + 1 \in Solved
  <2>1. PICK f : Solves(f, m)
    BY <1>2
  <2> DEFINE more == Step(f[m], path[m + 1])
             g == [i \in 0 .. m + 1 |-> IF i <= m THEN f[i] ELSE more]
             h == [i \in 0 .. m + 1 |-> IF i = 0 THEN Start(from, start) ELSE Step(g[i - 1], path[i])]
  <2>2. ASSUME NEW i \in 0 .. m + 1 PROVE g[i] = h[i]
    <3>1. CASE i = 0
      BY <2>1, <3>1
    <3>2. CASE i \in 1 .. m
      <4>1. f[i] = Step(f[i - 1], path[i])
        BY <2>1, <3>2
      <4>2. g[i] = f[i] /\ g[i - 1] = f[i - 1]
        BY <3>2
      <4> QED
        BY <3>2, <4>1, <4>2
    <3>3. CASE i = m + 1
      <4>1. g[i] = more /\ g[i - 1] = f[m]
        BY <3>3
      <4> QED
        BY <3>3, <4>1
    <3> QED
      BY <3>1, <3>2, <3>3
  <2>3. g = h
    <3> HIDE DEF Solved
    <3> QED
      BY <2>2
  <2>4. Solves(g, m + 1)
    BY <2>3
  <2> HIDE DEF Solves, g, h
  <2> QED
    BY <2>4
<1> HIDE DEF Solved
<1>3. N \in Solved
  BY <1>1, <1>2, Inductive
<1> QED
  BY <1>3 DEF Solved

\* A climb begins at its start and takes one node after another.
LEMMA ClimbStep ==
  ASSUME NEW from, NEW start, NEW path, Len(path) \in Nat
  PROVE  LET state == Climbing(from, start, path) IN
         /\ state[0] = Start(from, start)
         /\ \A i \in 1 .. Len(path) : state[i] = Step(state[i - 1], path[i])
<1> DEFINE N == Len(path)
           state == Climbing(from, start, path)
<1>1. \E f : Climbs(f, from, start, path, Len(path))
  BY ClimbingExists
<1>2. state = [i \in 0 .. N |-> IF i = 0 THEN Start(from, start) ELSE Step(state[i - 1], path[i])]
  BY <1>1 DEF Climbing, Start, Climbs
<1> HIDE DEF state, N
<1>3. N \in Nat
  BY DEF N
<1>4. state[0] = Start(from, start) /\ \A i \in 1 .. N : state[i] = Step(state[i - 1], path[i])
  BY <1>2, <1>3
<1> QED
  BY <1>4 DEF state, N

\* Paths that begin alike are climbed alike as far.
LEMMA SameClimb ==
  ASSUME NEW from, NEW start, NEW v, Len(v) \in Nat, NEW w, Len(w) \in Nat,
         NEW N \in Nat, N <= Len(v), N <= Len(w), \A i \in 1 .. N : v[i] = w[i]
  PROVE  Climbing(from, start, v)[N] = Climbing(from, start, w)[N]
<1> DEFINE f == Climbing(from, start, v)
           g == Climbing(from, start, w)
           S == {i \in Nat : f[i] = g[i]}
<1>1. /\ f[0] = g[0]
      /\ \A i \in 1 .. Len(v) : f[i] = Step(f[i - 1], v[i])
      /\ \A i \in 1 .. Len(w) : g[i] = Step(g[i - 1], w[i])
  BY ClimbStep
<1> HIDE DEF f, g
<1>2. 0 \in S
  BY <1>1
<1>3. ASSUME NEW i \in Nat, i < N, i \in S PROVE i + 1 \in S
  <2>1. i + 1 \in 1 .. Len(v) /\ i + 1 \in 1 .. Len(w) /\ i + 1 \in 1 .. N /\ (i + 1) - 1 = i
    BY <1>3
  <2>2. f[i + 1] = Step(f[i], v[i + 1]) /\ g[i + 1] = Step(g[i], w[i + 1])
    BY <1>1, <2>1
  <2> QED
    BY <1>3, <2>1, <2>2
<1> HIDE DEF S
<1>4. 0 .. N \subseteq S
  BY <1>2, <1>3, Inductive
<1> QED
  BY <1>4 DEF S, f, g

\* The last node is climbed last.
LEMMA ClimbAppend ==
  ASSUME NEW from, NEW start, NEW T, NEW path \in Seq(T), NEW node
  PROVE  Climb(from, start, Append(path, node)) = Step(Climb(from, start, path), node)
<1> DEFINE w == Append(path, node)
           n == Len(path)
<1>1. n \in Nat /\ Len(w) = n + 1 /\ w[n + 1] = node /\ \A i \in 1 .. n : w[i] = path[i]
  OBVIOUS
<1> HIDE DEF w, n
<1>2. Climbing(from, start, w)[n] = Climbing(from, start, path)[n]
  BY <1>1, SameClimb DEF n
<1>3. Climbing(from, start, w)[n + 1] = Step(Climbing(from, start, w)[n], w[n + 1])
  <2>1. n + 1 \in 1 .. Len(w) /\ (n + 1) - 1 = n /\ Len(w) \in Nat
    BY <1>1
  <2> QED
    BY <2>1, ClimbStep
<1> QED
  BY <1>1, <1>2, <1>3 DEF Climb, w, n

\* What a step does to a state, whatever the state.
LEMMA StepFacts ==
  ASSUME NEW s, NEW node, Step(s, node).surplus = FALSE
  PROVE  /\ s.surplus = FALSE /\ s.at.sn # 0
         /\ s.at.fn % 2 = 1 \/ s.at.fn = s.at.sn =>
              /\ Step(s, node).at = Up(SkipEven[s.at])
              /\ Step(s, node).old = <<node, s.old>> /\ Step(s, node).new = <<node, s.new>>
         /\ ~(s.at.fn % 2 = 1 \/ s.at.fn = s.at.sn) =>
              /\ Step(s, node).at = Up(s.at)
              /\ Step(s, node).old = s.old /\ Step(s, node).new = <<s.new, node>>
BY DEF Step

\* A node that goes to the left of what is below.
LEMMA StepOver ==
  ASSUME NEW s, NEW node, Step(s, node).surplus = FALSE, s.at.fn % 2 = 1 \/ s.at.fn = s.at.sn
  PROVE  /\ Step(s, node).at = Up(SkipEven[s.at])
         /\ Step(s, node).old = <<node, s.old>> /\ Step(s, node).new = <<node, s.new>>
BY StepFacts

\* A node that goes to the right.
LEMMA StepUnder ==
  ASSUME NEW s, NEW node, Step(s, node).surplus = FALSE, s.at.fn % 2 # 1, s.at.fn # s.at.sn
  PROVE  /\ Step(s, node).at = Up(s.at)
         /\ Step(s, node).old = s.old /\ Step(s, node).new = <<s.new, node>>
BY StepFacts

-----------------------------------------------------------------------------
(* A climb in one half of a log beside the climb in the whole.             *)

\* A position in a left half that is full, and in a right half: P is the size,
\* on the level reached, of the left half.
AsLeft(p, q, P) ==
  /\ P \in Powers /\ p \in Positions /\ q \in Positions
  /\ q.fn = p.fn /\ p.fn <= p.sn /\ p.sn = P - 1
  /\ P <= q.sn /\ q.sn < 2 * P

AsRight(p, q, P) ==
  /\ P \in Powers /\ p \in Positions /\ q \in Positions
  /\ q.fn = p.fn + P /\ q.sn = p.sn + P
  /\ p.fn <= p.sn /\ p.sn < P

\* Both positions go up a level together.
LEMMA LeftUp ==
  ASSUME NEW p, NEW q, NEW P, AsLeft(p, q, P), P # 1
  PROVE  AsLeft(Up(p), Up(q), P \div 2)
<1>1. p \in Positions /\ q \in Positions /\ P \in Powers
  BY DEF AsLeft
<1>2. PICK a, b, c, d, H : a = p.fn /\ b = p.sn /\ c = q.fn /\ d = q.sn /\ H = P \div 2
  OBVIOUS
<1>3. a \in Nat /\ b \in Nat /\ c \in Nat /\ d \in Nat /\ H \in Nat /\ H >= 1 /\ P = 2 * H /\ H \in Powers
  BY <1>1, <1>2, UpFacts, Halves
<1>4. c = a /\ a <= b /\ b = P - 1 /\ P <= d /\ d < 2 * P
  BY <1>2 DEF AsLeft
<1>5. c \div 2 = a \div 2 /\ a \div 2 <= b \div 2 /\ b \div 2 = H - 1 /\ H <= d \div 2 /\ d \div 2 < 2 * H
  BY <1>3, <1>4
<1>6. /\ Up(p) \in Positions /\ Up(p).fn = a \div 2 /\ Up(p).sn = b \div 2
      /\ Up(q) \in Positions /\ Up(q).fn = c \div 2 /\ Up(q).sn = d \div 2
  BY <1>1, <1>2, UpFacts
<1> QED
  BY <1>2, <1>3, <1>5, <1>6 DEF AsLeft

\* And in a right half.
LEMMA RightUp ==
  ASSUME NEW p, NEW q, NEW P, AsRight(p, q, P), P # 1
  PROVE  AsRight(Up(p), Up(q), P \div 2)
<1>1. p \in Positions /\ q \in Positions /\ P \in Powers
  BY DEF AsRight
<1>2. PICK a, b, c, d, H : a = p.fn /\ b = p.sn /\ c = q.fn /\ d = q.sn /\ H = P \div 2
  OBVIOUS
<1>3. a \in Nat /\ b \in Nat /\ c \in Nat /\ d \in Nat /\ H \in Nat /\ H >= 1 /\ P = 2 * H /\ H \in Powers
  BY <1>1, <1>2, UpFacts, Halves
<1>4. c = a + P /\ d = b + P /\ a <= b /\ b < P
  BY <1>2 DEF AsRight
<1>5. c \div 2 = (a \div 2) + H /\ d \div 2 = (b \div 2) + H /\ a \div 2 <= b \div 2 /\ b \div 2 < H
  BY <1>3, <1>4
<1>6. /\ Up(p) \in Positions /\ Up(p).fn = a \div 2 /\ Up(p).sn = b \div 2
      /\ Up(q) \in Positions /\ Up(q).fn = c \div 2 /\ Up(q).sn = d \div 2
  BY <1>1, <1>2, UpFacts
<1> QED
  BY <1>2, <1>3, <1>5, <1>6 DEF AsRight

\* What the numbers of a position in a half say of the sides.
LEMMA LeftFacts ==
  ASSUME NEW p, NEW q, NEW P, AsLeft(p, q, P)
  PROVE  /\ p \in Positions /\ q \in Positions /\ P \in Nat /\ P >= 1
         /\ p.fn \in Nat /\ p.sn \in Nat /\ q.sn \in Nat /\ q.fn = p.fn /\ q.fn # q.sn /\ q.sn # 0
         /\ p.sn # 0 <=> P # 1
         /\ p.fn % 2 = 1 => P # 1
         /\ P # 1 => p.sn % 2 = 1
         /\ P = 1 => p.fn = 0 /\ p.sn = 0 /\ q.sn = 1
<1>1. p \in Positions /\ q \in Positions /\ P \in Powers
  BY DEF AsLeft
<1>2. PICK a, b, c, d : a = p.fn /\ b = p.sn /\ c = q.fn /\ d = q.sn
  OBVIOUS
<1>3. a \in Nat /\ b \in Nat /\ c \in Nat /\ d \in Nat /\ P \in Nat /\ P >= 1
  BY <1>1, <1>2, UpFacts, Halves
<1>4. c = a /\ a <= b /\ b = P - 1 /\ P <= d /\ d < 2 * P
  BY <1>2 DEF AsLeft
<1>5. P # 1 => b % 2 = 1
  <2> SUFFICES ASSUME P # 1 PROVE b % 2 = 1
    OBVIOUS
  <2>1. PICK H \in Nat : P = 2 * H
    BY <1>1, Halves
  <2> QED
    BY <1>3, <1>4, <2>1
<1> QED
  BY <1>1, <1>2, <1>3, <1>4, <1>5

\* And in a right half.
LEMMA RightFacts ==
  ASSUME NEW p, NEW q, NEW P, AsRight(p, q, P)
  PROVE  /\ p \in Positions /\ q \in Positions /\ P \in Nat /\ P >= 1
         /\ p.fn \in Nat /\ p.sn \in Nat /\ q.fn \in Nat /\ q.sn \in Nat /\ q.sn # 0 /\ q.fn # 0
         /\ p.fn = p.sn <=> q.fn = q.sn
         /\ p.sn # 0 => P # 1
         /\ P # 1 => q.fn % 2 = p.fn % 2
         /\ p.sn = 0 => p.fn = 0 /\ q.fn = P /\ q.sn = P
<1>1. p \in Positions /\ q \in Positions /\ P \in Powers
  BY DEF AsRight
<1>2. PICK a, b, c, d : a = p.fn /\ b = p.sn /\ c = q.fn /\ d = q.sn
  OBVIOUS
<1>3. a \in Nat /\ b \in Nat /\ c \in Nat /\ d \in Nat /\ P \in Nat /\ P >= 1
  BY <1>1, <1>2, UpFacts, Halves
<1>4. c = a + P /\ d = b + P /\ a <= b /\ b < P
  BY <1>2 DEF AsRight
<1>5. P # 1 => c % 2 = a % 2
  <2> SUFFICES ASSUME P # 1 PROVE c % 2 = a % 2
    OBVIOUS
  <2>1. PICK H \in Nat : P = 2 * H
    BY <1>1, Halves
  <2> QED
    BY <1>3, <1>4, <2>1
<1> QED
  BY <1>1, <1>2, <1>3, <1>4, <1>5

\* Both climbs go up past the same levels.
LEMMA LeftSkips ==
  ASSUME NEW p0, NEW q0, NEW P0, AsLeft(p0, q0, P0)
  PROVE  \E R \in Powers : AsLeft(SkipOdd[p0], SkipOdd[q0], R)
<1> DEFINE S == {n \in Nat : \A p, q \in Positions, P \in Powers :
                   p.fn = n /\ AsLeft(p, q, P) => \E R \in Powers : AsLeft(SkipOdd[p], SkipOdd[q], R)}
<1>1. ASSUME NEW n \in 0 .. MaxSize, \A k \in 0 .. MaxSize : k < n => k \in S
      PROVE  n \in S
  <2> SUFFICES ASSUME NEW p \in Positions, NEW q \in Positions, NEW P \in Powers,
                      p.fn = n, AsLeft(p, q, P)
               PROVE  \E R \in Powers : AsLeft(SkipOdd[p], SkipOdd[q], R)
    BY SizeAssumption
  <2>1. CASE p.fn % 2 = 1
    <3>1. /\ P # 1 /\ SkipOdd[p] = SkipOdd[Up(p)] /\ SkipOdd[q] = SkipOdd[Up(q)]
      BY <2>1, LeftFacts, OddStep
    <3>2. AsLeft(Up(p), Up(q), P \div 2) /\ P \div 2 \in Powers
      BY <3>1, LeftUp, Halves
    <3>3. /\ Up(p) \in Positions /\ Up(q) \in Positions /\ Up(p).fn < n /\ Up(p).fn \in 0 .. MaxSize
      <4>1. p.fn # 0
        BY <2>1
      <4> QED
        BY <4>1, UpFacts DEF Positions
    <3> QED
      BY <1>1, <3>1, <3>2, <3>3
  <2>2. CASE p.fn % 2 # 1
    <3>1. SkipOdd[p] = p /\ SkipOdd[q] = q
      BY <2>2, LeftFacts, OddStep
    <3> QED
      BY <3>1
  <2> QED
    BY <2>1, <2>2
<1>2. 0 .. MaxSize \subseteq S
  <2> HIDE DEF S
  <2> QED
    BY <1>1, Complete, SizeAssumption
<1>3. p0 \in Positions /\ q0 \in Positions /\ P0 \in Powers /\ p0.fn \in 0 .. MaxSize
  BY DEF AsLeft, Positions
<1> QED
  BY <1>2, <1>3

\* And in a right half, as long as a sibling follows.
LEMMA RightSkips ==
  ASSUME NEW p0, NEW q0, NEW P0, AsRight(p0, q0, P0), p0.fn < p0.sn
  PROVE  \E R \in Powers : AsRight(SkipOdd[p0], SkipOdd[q0], R)
<1> DEFINE S == {n \in Nat : \A p, q \in Positions, P \in Powers :
                   p.fn = n /\ AsRight(p, q, P) /\ p.fn < p.sn =>
                     \E R \in Powers : AsRight(SkipOdd[p], SkipOdd[q], R)}
<1>1. ASSUME NEW n \in 0 .. MaxSize, \A k \in 0 .. MaxSize : k < n => k \in S
      PROVE  n \in S
  <2> SUFFICES ASSUME NEW p \in Positions, NEW q \in Positions, NEW P \in Powers,
                      p.fn = n, AsRight(p, q, P), p.fn < p.sn
               PROVE  \E R \in Powers : AsRight(SkipOdd[p], SkipOdd[q], R)
    BY SizeAssumption
  <2>0. P # 1 /\ q.fn % 2 = p.fn % 2
    BY RightFacts
  <2>1. CASE p.fn % 2 = 1
    <3>1. SkipOdd[p] = SkipOdd[Up(p)] /\ SkipOdd[q] = SkipOdd[Up(q)]
      BY <2>0, <2>1, OddStep
    <3>2. AsRight(Up(p), Up(q), P \div 2) /\ P \div 2 \in Powers
      BY <2>0, RightUp, Halves
    <3>3. Up(p) \in Positions /\ Up(q) \in Positions /\ Up(p).fn < n /\ Up(p).fn \in 0 .. MaxSize
      <4>1. p.fn # 0
        BY <2>1
      <4> QED
        BY <4>1, UpFacts DEF Positions
    <3>4. Up(p).fn < Up(p).sn
      <4>1. PICK a, b : a = p.fn /\ b = p.sn
        OBVIOUS
      <4>2. a \in Nat /\ b \in Nat /\ a % 2 = 1 /\ a < b
        BY <2>1, <4>1, RightFacts
      <4>3. a \div 2 < b \div 2
        BY <4>2
      <4> QED
        BY <4>1, <4>3, UpFacts
    <3> QED
      BY <1>1, <3>1, <3>2, <3>3, <3>4
  <2>2. CASE p.fn % 2 # 1
    <3>1. SkipOdd[p] = p /\ SkipOdd[q] = q
      BY <2>0, <2>2, OddStep
    <3> QED
      BY <3>1
  <2> QED
    BY <2>1, <2>2
<1>2. 0 .. MaxSize \subseteq S
  <2> HIDE DEF S
  <2> QED
    BY <1>1, Complete, SizeAssumption
<1>3. p0 \in Positions /\ q0 \in Positions /\ P0 \in Powers /\ p0.fn \in 0 .. MaxSize
  BY DEF AsRight, Positions
<1> QED
  BY <1>2, <1>3

\* So do those past the levels where the node has no sibling.
LEMMA RightSkipsEven ==
  ASSUME NEW p0, NEW q0, NEW P0, AsRight(p0, q0, P0), p0.fn = p0.sn, p0.sn # 0
  PROVE  \E R \in Powers : R # 1 /\ AsRight(SkipEven[p0], SkipEven[q0], R)
<1> DEFINE S == {n \in Nat : \A p, q \in Positions, P \in Powers :
                   p.fn = n /\ AsRight(p, q, P) /\ p.fn = p.sn /\ p.sn # 0 =>
                     \E R \in Powers : R # 1 /\ AsRight(SkipEven[p], SkipEven[q], R)}
<1>1. ASSUME NEW n \in 0 .. MaxSize, \A k \in 0 .. MaxSize : k < n => k \in S
      PROVE  n \in S
  <2> SUFFICES ASSUME NEW p \in Positions, NEW q \in Positions, NEW P \in Powers,
                      p.fn = n, AsRight(p, q, P), p.fn = p.sn, p.sn # 0
               PROVE  \E R \in Powers : R # 1 /\ AsRight(SkipEven[p], SkipEven[q], R)
    BY SizeAssumption
  <2>0. P # 1 /\ q.fn % 2 = p.fn % 2 /\ q.fn # 0 /\ p.fn # 0
    BY RightFacts
  <2>1. CASE p.fn % 2 = 0
    <3>1. SkipEven[p] = SkipEven[Up(p)] /\ SkipEven[q] = SkipEven[Up(q)]
      BY <2>0, <2>1, EvenStep
    <3>2. AsRight(Up(p), Up(q), P \div 2) /\ P \div 2 \in Powers
      BY <2>0, RightUp, Halves
    <3>3. Up(p) \in Positions /\ Up(q) \in Positions /\ Up(p).fn < n /\ Up(p).fn \in 0 .. MaxSize
      BY <2>0, UpFacts DEF Positions
    <3>4. Up(p).fn = Up(p).sn /\ Up(p).sn # 0
      <4>1. PICK a : a = p.fn
        OBVIOUS
      <4>2. a \in Nat /\ a # 0 /\ a % 2 = 0
        BY <2>0, <2>1, <4>1, RightFacts
      <4>3. a \div 2 # 0
        BY <4>2
      <4> QED
        BY <4>1, <4>3, UpFacts
    <3> QED
      BY <1>1, <3>1, <3>2, <3>3, <3>4
  <2>2. CASE p.fn % 2 # 0
    <3>1. SkipEven[p] = p /\ SkipEven[q] = q
      BY <2>0, <2>2, EvenStep
    <3> QED
      BY <2>0, <3>1
  <2> QED
    BY <2>1, <2>2
<1>2. 0 .. MaxSize \subseteq S
  <2> HIDE DEF S
  <2> QED
    BY <1>1, Complete, SizeAssumption
<1>3. p0 \in Positions /\ q0 \in Positions /\ P0 \in Powers /\ p0.fn \in 0 .. MaxSize
  BY DEF AsRight, Positions
<1> QED
  BY <1>2, <1>3

\* The root of a full tree is skipped up to in one go.
LEMMA PowerSkipsEven ==
  ASSUME NEW P0 \in Powers, P0 <= MaxSize
  PROVE  SkipEven[[fn |-> P0, sn |-> P0]] = [fn |-> 1, sn |-> 1]
<1> DEFINE S == {n \in Nat : n \in Powers => SkipEven[[fn |-> n, sn |-> n]] = [fn |-> 1, sn |-> 1]}
<1>1. ASSUME NEW n \in 0 .. MaxSize, \A k \in 0 .. MaxSize : k < n => k \in S
      PROVE  n \in S
  <2> SUFFICES ASSUME n \in Powers PROVE SkipEven[[fn |-> n, sn |-> n]] = [fn |-> 1, sn |-> 1]
    BY SizeAssumption
  <2>1. [fn |-> n, sn |-> n] \in Positions /\ n \in Nat /\ n >= 1
    BY Halves DEF Positions
  <2>2. CASE n = 1
    <3>1. 1 % 2 = 1
      OBVIOUS
    <3> QED
      BY <2>1, <2>2, <3>1, EvenStep
  <2>3. CASE n # 1
    <3>1. PICK k : k = n \div 2
      OBVIOUS
    <3>2. k \in Powers /\ k \in Nat /\ n = 2 * k /\ k >= 1
      BY <2>3, <3>1, Halves
    <3>3. n % 2 = 0 /\ n # 0 /\ k < n /\ k \in 0 .. MaxSize
      BY <2>1, <3>2, SizeAssumption
    <3>4. Up([fn |-> n, sn |-> n]) = [fn |-> k, sn |-> k]
      BY <3>1 DEF Up
    <3>5. SkipEven[[fn |-> n, sn |-> n]] = SkipEven[[fn |-> k, sn |-> k]]
      BY <2>1, <3>3, <3>4, EvenStep
    <3> QED
      BY <1>1, <3>2, <3>3, <3>5
  <2> QED
    BY <2>2, <2>3
<1>2. 0 .. MaxSize \subseteq S
  <2> HIDE DEF S
  <2> QED
    BY <1>1, Complete, SizeAssumption
<1>3. P0 \in 0 .. MaxSize
  BY Halves, SizeAssumption
<1> QED
  BY <1>2, <1>3

\* And its last leaf, to the root.
LEMMA PowerSkipsOdd ==
  ASSUME NEW P0 \in Powers, P0 <= MaxSize
  PROVE  SkipOdd[[fn |-> P0 - 1, sn |-> P0 - 1]] = [fn |-> 0, sn |-> 0]
<1> DEFINE S == {n \in Nat : n \in Powers => SkipOdd[[fn |-> n - 1, sn |-> n - 1]] = [fn |-> 0, sn |-> 0]}
<1>1. ASSUME NEW n \in 0 .. MaxSize, \A k \in 0 .. MaxSize : k < n => k \in S
      PROVE  n \in S
  <2> SUFFICES ASSUME n \in Powers PROVE SkipOdd[[fn |-> n - 1, sn |-> n - 1]] = [fn |-> 0, sn |-> 0]
    BY SizeAssumption
  <2>1. [fn |-> n - 1, sn |-> n - 1] \in Positions /\ n \in Nat /\ n >= 1
    BY Halves, SizeAssumption DEF Positions
  <2>2. CASE n = 1
    <3>1. 0 % 2 = 0 /\ n - 1 = 0
      BY <2>2
    <3> QED
      BY <2>1, <3>1, OddStep
  <2>3. CASE n # 1
    <3>1. PICK k : k = n \div 2
      OBVIOUS
    <3>2. k \in Powers /\ k \in Nat /\ n = 2 * k /\ k >= 1
      BY <2>3, <3>1, Halves
    <3>3. (n - 1) % 2 = 1 /\ (n - 1) \div 2 = k - 1 /\ k < n /\ k \in 0 .. MaxSize
      BY <2>1, <3>2, SizeAssumption
    <3>4. Up([fn |-> n - 1, sn |-> n - 1]) = [fn |-> k - 1, sn |-> k - 1]
      BY <3>3 DEF Up
    <3>5. SkipOdd[[fn |-> n - 1, sn |-> n - 1]] = SkipOdd[[fn |-> k - 1, sn |-> k - 1]]
      BY <2>1, <3>3, <3>4, OddStep
    <3> QED
      BY <1>1, <3>2, <3>3, <3>5
  <2> QED
    BY <2>2, <2>3
<1>2. 0 .. MaxSize \subseteq S
  <2> HIDE DEF S
  <2> QED
    BY <1>1, Complete, SizeAssumption
<1>3. P0 \in 0 .. MaxSize
  BY Halves, SizeAssumption
<1> QED
  BY <1>2, <1>3

BesideLeft(s, t) ==
  /\ s.surplus = FALSE /\ t.surplus = FALSE /\ s.old = t.old /\ s.new = t.new
  /\ \E P \in Powers : AsLeft(s.at, t.at, P)

BesideRight(s, t) ==
  /\ s.surplus = FALSE /\ t.surplus = FALSE /\ s.old = t.old /\ s.new = t.new
  /\ \E P \in Powers : AsRight(s.at, t.at, P)

\* A node that the climb in the left half takes is taken alike in the whole.
LEMMA LeftStep ==
  ASSUME NEW s, NEW t, NEW node, BesideLeft(s, t), Step(s, node).surplus = FALSE
  PROVE  BesideLeft(Step(s, node), Step(t, node))
<1>1. PICK P \in Powers : AsLeft(s.at, t.at, P)
  BY DEF BesideLeft
<1>2. s.at.sn # 0 /\ s.surplus = FALSE
  BY StepFacts
<1>3. P # 1 /\ t.at.sn # 0 /\ t.at.fn = s.at.fn /\ s.at.sn % 2 = 1 /\ t.at.fn # t.at.sn
  BY <1>1, <1>2, LeftFacts
<1>4. Step(t, node).surplus = FALSE
  BY <1>3 DEF Step, BesideLeft
<1>5. AsLeft(Up(s.at), Up(t.at), P \div 2) /\ P \div 2 \in Powers
  BY <1>1, <1>3, LeftUp, Halves
<1>6. s.old = t.old /\ s.new = t.new
  BY DEF BesideLeft
<1>7. CASE s.at.fn % 2 = 1
  <2>1. s.at \in Positions /\ t.at \in Positions
    BY <1>1 DEF AsLeft
  <2>2. SkipEven[s.at] = s.at /\ SkipEven[t.at] = t.at
    BY <1>3, <1>7, <2>1, EvenStep
  <2>3. /\ Step(s, node).at = Up(SkipEven[s.at])
        /\ Step(s, node).old = <<node, s.old>> /\ Step(s, node).new = <<node, s.new>>
    BY <1>7, StepOver
  <2>4. /\ Step(t, node).at = Up(SkipEven[t.at])
        /\ Step(t, node).old = <<node, t.old>> /\ Step(t, node).new = <<node, t.new>>
    <3>1. t.at.fn % 2 = 1
      BY <1>3, <1>7
    <3> QED
      BY <1>4, <3>1, StepOver
  <2> QED
    BY <1>4, <1>5, <1>6, <2>2, <2>3, <2>4 DEF BesideLeft
<1>8. CASE s.at.fn % 2 # 1
  <2>1. s.at.fn # s.at.sn
    BY <1>3, <1>8
  <2>2. /\ Step(s, node).at = Up(s.at)
        /\ Step(s, node).old = s.old /\ Step(s, node).new = <<s.new, node>>
    BY <1>8, <2>1, StepUnder
  <2>3. /\ Step(t, node).at = Up(t.at)
        /\ Step(t, node).old = t.old /\ Step(t, node).new = <<t.new, node>>
    <3>1. t.at.fn % 2 # 1 /\ t.at.fn # t.at.sn
      BY <1>3, <1>8
    <3> QED
      BY <1>4, <3>1, StepUnder
  <2> QED
    BY <1>4, <1>5, <1>6, <2>2, <2>3 DEF BesideLeft
<1> QED
  BY <1>7, <1>8

\* The same in the right half.
LEMMA RightStep ==
  ASSUME NEW s, NEW t, NEW node, BesideRight(s, t), Step(s, node).surplus = FALSE
  PROVE  BesideRight(Step(s, node), Step(t, node))
<1>1. PICK P \in Powers : AsRight(s.at, t.at, P)
  BY DEF BesideRight
<1>2. s.at.sn # 0 /\ s.surplus = FALSE
  BY StepFacts
<1>3. /\ P # 1 /\ t.at.sn # 0 /\ t.at.fn % 2 = s.at.fn % 2
      /\ s.at.fn = s.at.sn <=> t.at.fn = t.at.sn
  BY <1>1, <1>2, RightFacts
<1>4. Step(t, node).surplus = FALSE
  BY <1>3 DEF Step, BesideRight
<1>5. s.old = t.old /\ s.new = t.new
  BY DEF BesideRight
<1>6. CASE s.at.fn % 2 = 1 \/ s.at.fn = s.at.sn
  <2>1. s.at \in Positions /\ t.at \in Positions
    BY <1>1 DEF AsRight
  <2>2. \E R \in Powers : R # 1 /\ AsRight(SkipEven[s.at], SkipEven[t.at], R)
    <3>1. CASE s.at.fn % 2 = 1
      <4>1. SkipEven[s.at] = s.at /\ SkipEven[t.at] = t.at
        BY <1>3, <2>1, <3>1, EvenStep
      <4> QED
        BY <1>1, <1>3, <4>1
    <3>2. CASE s.at.fn = s.at.sn
      BY <1>1, <1>2, <3>2, RightSkipsEven
    <3> QED
      BY <1>6, <3>1, <3>2
  <2>3. \E R \in Powers : AsRight(Up(SkipEven[s.at]), Up(SkipEven[t.at]), R)
    BY <2>2, RightUp, Halves
  <2>4. /\ Step(s, node).at = Up(SkipEven[s.at])
        /\ Step(s, node).old = <<node, s.old>> /\ Step(s, node).new = <<node, s.new>>
    BY <1>6, StepOver
  <2>5. /\ Step(t, node).at = Up(SkipEven[t.at])
        /\ Step(t, node).old = <<node, t.old>> /\ Step(t, node).new = <<node, t.new>>
    <3>1. t.at.fn % 2 = 1 \/ t.at.fn = t.at.sn
      BY <1>3, <1>6
    <3> QED
      BY <1>4, <3>1, StepOver
  <2> QED
    BY <1>4, <1>5, <2>3, <2>4, <2>5 DEF BesideRight
<1>7. CASE ~(s.at.fn % 2 = 1 \/ s.at.fn = s.at.sn)
  <2>1. \E R \in Powers : AsRight(Up(s.at), Up(t.at), R)
    BY <1>1, <1>3, RightUp, Halves
  <2>2. /\ Step(s, node).at = Up(s.at)
        /\ Step(s, node).old = s.old /\ Step(s, node).new = <<s.new, node>>
    BY <1>7, StepUnder
  <2>3. /\ Step(t, node).at = Up(t.at)
        /\ Step(t, node).old = t.old /\ Step(t, node).new = <<t.new, node>>
    <3>1. t.at.fn % 2 # 1 /\ t.at.fn # t.at.sn
      BY <1>3, <1>7
    <3> QED
      BY <1>4, <3>1, StepUnder
  <2> QED
    BY <1>4, <1>5, <2>1, <2>2, <2>3 DEF BesideRight
<1> QED
  BY <1>6, <1>7

\* Nothing is surplus before something that is not.
LEMMA NoSurplusBefore ==
  ASSUME NEW from, NEW start, NEW path, Len(path) \in Nat, Climb(from, start, path).surplus = FALSE
  PROVE  \A i \in 0 .. Len(path) : Climbing(from, start, path)[i].surplus = FALSE
<1> DEFINE N == Len(path)
           f == Climbing(from, start, path)
           S == {i \in Nat : f[N - i].surplus = FALSE}
<1>1. /\ N \in Nat /\ f[N].surplus = FALSE
      /\ \A i \in 1 .. N : f[i] = Step(f[i - 1], path[i])
  BY ClimbStep DEF Climb
<1> HIDE DEF N, f
<1>2. 0 \in S
  BY <1>1
<1>3. ASSUME NEW i \in Nat, i < N, i \in S PROVE i + 1 \in S
  <2>1. PICK j : j = N - i
    OBVIOUS
  <2>2. j \in 1 .. N /\ N - (i + 1) = j - 1 /\ f[j].surplus = FALSE
    BY <1>1, <1>3, <2>1
  <2>3. f[j] = Step(f[j - 1], path[j])
    BY <1>1, <2>2
  <2>4. Step(f[j - 1], path[j]).surplus = FALSE
    BY <2>2, <2>3
  <2>5. f[j - 1].surplus = FALSE
    BY <2>4, StepFacts
  <2> QED
    BY <2>2, <2>5
<1>4. 0 .. N \subseteq S
  <2> HIDE DEF S
  <2> QED
    BY <1>1, <1>2, <1>3, Inductive
<1>5. ASSUME NEW i \in 0 .. N PROVE f[i].surplus = FALSE
  <2>1. N - i \in 0 .. N /\ N - (N - i) = i
    BY <1>1
  <2> QED
    BY <1>4, <2>1
<1> QED
  BY <1>5 DEF N, f

\* All nodes of a path in the left half are taken alike.
LEMMA ClimbLeft ==
  ASSUME NEW p, NEW q, NEW P \in Powers, AsLeft(p, q, P), NEW start, NEW path, Len(path) \in Nat,
         Climb(p, start, path).surplus = FALSE
  PROVE  BesideLeft(Climb(p, start, path), Climb(q, start, path))
<1> DEFINE N == Len(path)
           f == Climbing(p, start, path)
           g == Climbing(q, start, path)
           S == {i \in Nat : BesideLeft(f[i], g[i])}
<1>1. /\ N \in Nat /\ f[0] = Start(p, start) /\ g[0] = Start(q, start)
      /\ \A i \in 1 .. N : f[i] = Step(f[i - 1], path[i]) /\ g[i] = Step(g[i - 1], path[i])
      /\ \A i \in 0 .. N : f[i].surplus = FALSE
  <2>1. f[0] = Start(p, start) /\ \A i \in 1 .. N : f[i] = Step(f[i - 1], path[i])
    BY ClimbStep
  <2>2. g[0] = Start(q, start) /\ \A i \in 1 .. N : g[i] = Step(g[i - 1], path[i])
    BY ClimbStep
  <2>3. \A i \in 0 .. N : f[i].surplus = FALSE
    BY NoSurplusBefore
  <2> HIDE DEF f, g
  <2> QED
    BY <2>1, <2>2, <2>3
<1> HIDE DEF N, f, g
<1>2. 0 \in S
  BY <1>1 DEF BesideLeft, Start
<1>3. ASSUME NEW i \in Nat, i < N, i \in S PROVE i + 1 \in S
  <2>1. i + 1 \in 1 .. N /\ i + 1 \in 0 .. N /\ (i + 1) - 1 = i
    BY <1>1, <1>3
  <2>2. /\ f[i + 1] = Step(f[i], path[i + 1]) /\ g[i + 1] = Step(g[i], path[i + 1])
        /\ f[i + 1].surplus = FALSE
    BY <1>1, <2>1
  <2>3. BesideLeft(f[i + 1], g[i + 1])
    BY <1>3, <2>2, LeftStep
  <2> QED
    BY <2>1, <2>3
<1>4. 0 .. N \subseteq S
  <2> HIDE DEF S
  <2> QED
    BY <1>1, <1>2, <1>3, Inductive
<1> QED
  BY <1>1, <1>4 DEF Climb, N, f, g

\* And of a path in the right half.
LEMMA ClimbRight ==
  ASSUME NEW p, NEW q, NEW P \in Powers, AsRight(p, q, P), NEW start, NEW path, Len(path) \in Nat,
         Climb(p, start, path).surplus = FALSE
  PROVE  BesideRight(Climb(p, start, path), Climb(q, start, path))
<1> DEFINE N == Len(path)
           f == Climbing(p, start, path)
           g == Climbing(q, start, path)
           S == {i \in Nat : BesideRight(f[i], g[i])}
<1>1. /\ N \in Nat /\ f[0] = Start(p, start) /\ g[0] = Start(q, start)
      /\ \A i \in 1 .. N : f[i] = Step(f[i - 1], path[i]) /\ g[i] = Step(g[i - 1], path[i])
      /\ \A i \in 0 .. N : f[i].surplus = FALSE
  <2>1. f[0] = Start(p, start) /\ \A i \in 1 .. N : f[i] = Step(f[i - 1], path[i])
    BY ClimbStep
  <2>2. g[0] = Start(q, start) /\ \A i \in 1 .. N : g[i] = Step(g[i - 1], path[i])
    BY ClimbStep
  <2>3. \A i \in 0 .. N : f[i].surplus = FALSE
    BY NoSurplusBefore
  <2> HIDE DEF f, g
  <2> QED
    BY <2>1, <2>2, <2>3
<1> HIDE DEF N, f, g
<1>2. 0 \in S
  BY <1>1 DEF BesideRight, Start
<1>3. ASSUME NEW i \in Nat, i < N, i \in S PROVE i + 1 \in S
  <2>1. i + 1 \in 1 .. N /\ i + 1 \in 0 .. N /\ (i + 1) - 1 = i
    BY <1>1, <1>3
  <2>2. /\ f[i + 1] = Step(f[i], path[i + 1]) /\ g[i + 1] = Step(g[i], path[i + 1])
        /\ f[i + 1].surplus = FALSE
    BY <1>1, <2>1
  <2>3. BesideRight(f[i + 1], g[i + 1])
    BY <1>3, <2>2, RightStep
  <2> QED
    BY <2>1, <2>3
<1>4. 0 .. N \subseteq S
  <2> HIDE DEF S
  <2> QED
    BY <1>1, <1>2, <1>3, Inductive
<1> QED
  BY <1>1, <1>4 DEF Climb, N, f, g

\* A climb that has used up its path and arrived.
Done(s) == s.surplus = FALSE /\ s.at.sn = 0

\* The root of the left half takes that of the right half for its sibling, and
\* the other way round: both lead to the root of the whole.
LEMMA LeftEnd ==
  ASSUME NEW s, NEW t, NEW node, BesideLeft(s, t), s.at.sn = 0
  PROVE  /\ Step(t, node).surplus = FALSE /\ Step(t, node).at = [fn |-> 0, sn |-> 0]
         /\ Step(t, node).old = s.old /\ Step(t, node).new = <<s.new, node>>
<1>1. PICK P \in Powers : AsLeft(s.at, t.at, P)
  BY DEF BesideLeft
<1>2. t.at.fn = 0 /\ t.at.sn = 1
  BY <1>1, LeftFacts
<1>3. Step(t, node).surplus = FALSE
  BY <1>2 DEF Step, BesideLeft
<1>4. Up(t.at) = [fn |-> 0, sn |-> 0]
  <2>1. 0 \div 2 = 0 /\ 1 \div 2 = 0
    OBVIOUS
  <2> QED
    BY <1>2, <2>1 DEF Up
<1>5. ~(t.at.fn % 2 = 1 \/ t.at.fn = t.at.sn)
  <2>1. 0 % 2 = 0
    OBVIOUS
  <2> QED
    BY <1>2, <2>1
<1> QED
  BY <1>3, <1>4, <1>5, StepFacts DEF BesideLeft

\* And the root of the right half takes that of the left one.
LEMMA RightEnd ==
  ASSUME NEW s, NEW t, NEW node, BesideRight(s, t), s.at.sn = 0
  PROVE  /\ Step(t, node).surplus = FALSE /\ Step(t, node).at = [fn |-> 0, sn |-> 0]
         /\ Step(t, node).old = <<node, s.old>> /\ Step(t, node).new = <<node, s.new>>
<1>1. PICK P \in Powers : AsRight(s.at, t.at, P)
  BY DEF BesideRight
<1>2. t.at.fn = P /\ t.at.sn = P /\ t.at \in Positions /\ P \in Nat /\ P >= 1
  BY <1>1, RightFacts
<1>3. t.at = [fn |-> P, sn |-> P] /\ P <= MaxSize
  BY <1>2, UpFacts, SizeAssumption DEF Positions
<1>4. Step(t, node).surplus = FALSE
  BY <1>2 DEF Step, BesideRight
<1>5. Up(SkipEven[t.at]) = [fn |-> 0, sn |-> 0]
  <2>1. 1 \div 2 = 0
    OBVIOUS
  <2>2. SkipEven[t.at] = [fn |-> 1, sn |-> 1]
    BY <1>3, PowerSkipsEven
  <2> QED
    BY <2>1, <2>2 DEF Up
<1>6. t.at.fn % 2 = 1 \/ t.at.fn = t.at.sn
  BY <1>2
<1>7. s.old = t.old /\ s.new = t.new
  BY DEF BesideRight
<1>8. /\ Step(t, node).at = Up(SkipEven[t.at])
      /\ Step(t, node).old = <<node, t.old>> /\ Step(t, node).new = <<node, t.new>>
  BY <1>4, <1>6, StepFacts
<1> QED
  BY <1>4, <1>5, <1>7, <1>8

\* A climb that ends at the root of the left half ends, with the root of the right
\* half for a last node, at the root of the whole.
LEMMA LeftWhole ==
  ASSUME NEW p, NEW q, NEW P \in Powers, AsLeft(p, q, P), NEW start,
         NEW T, NEW path \in Seq(T), NEW node,
         Done(Climb(p, start, path))
  PROVE  LET s == Climb(p, start, path)
             end == Climb(q, start, Append(path, node)) IN
         /\ Done(end)
         /\ end.old = s.old /\ end.new = <<s.new, node>>
<1>1. PICK s, t : s = Climb(p, start, path) /\ t = Climb(q, start, path)
  OBVIOUS
<1>2. Len(path) \in Nat /\ s.surplus = FALSE
  BY <1>1 DEF Done
<1>3. BesideLeft(s, t)
  BY <1>1, <1>2, ClimbLeft
<1>4. s.at.sn = 0
  BY <1>1 DEF Done
<1>5. Climb(q, start, Append(path, node)) = Step(t, node)
  BY <1>1, ClimbAppend
<1>6. /\ Step(t, node).surplus = FALSE /\ Step(t, node).at = [fn |-> 0, sn |-> 0]
      /\ Step(t, node).old = s.old /\ Step(t, node).new = <<s.new, node>>
  BY <1>3, <1>4, LeftEnd
<1>7. Done(Step(t, node))
  BY <1>6 DEF Done
<1> QED
  BY <1>1, <1>5, <1>6, <1>7

\* The other way round.
LEMMA RightWhole ==
  ASSUME NEW p, NEW q, NEW P \in Powers, AsRight(p, q, P), NEW start,
         NEW T, NEW path \in Seq(T), NEW node,
         Done(Climb(p, start, path))
  PROVE  LET s == Climb(p, start, path)
             end == Climb(q, start, Append(path, node)) IN
         /\ Done(end)
         /\ end.old = <<node, s.old>> /\ end.new = <<node, s.new>>
<1>1. PICK s, t : s = Climb(p, start, path) /\ t = Climb(q, start, path)
  OBVIOUS
<1>2. Len(path) \in Nat /\ s.surplus = FALSE
  BY <1>1 DEF Done
<1>3. BesideRight(s, t)
  BY <1>1, <1>2, ClimbRight
<1>4. s.at.sn = 0
  BY <1>1 DEF Done
<1>5. Climb(q, start, Append(path, node)) = Step(t, node)
  BY <1>1, ClimbAppend
<1>6. /\ Step(t, node).surplus = FALSE /\ Step(t, node).at = [fn |-> 0, sn |-> 0]
      /\ Step(t, node).old = <<node, s.old>> /\ Step(t, node).new = <<node, s.new>>
  BY <1>3, <1>4, RightEnd
<1>7. Done(Step(t, node))
  BY <1>6 DEF Done
<1> QED
  BY <1>1, <1>5, <1>6, <1>7

-----------------------------------------------------------------------------
(* Inclusion.                                                              *)

Trees == {Tree[log] : log \in Logs}

Reached(log, index) ==
  Climb([fn |-> index, sn |-> Len(log) - 1], <<log[index + 1]>>, AuditPath[log][index])

IncludedAt(log, index) ==
  /\ AuditPath[log][index] \in Seq(Trees)
  /\ Done(Reached(log, index))
  /\ Reached(log, index).new = Tree[log]

\* A leaf is its own root.
LEMMA IncludedLeaf ==
  ASSUME NEW log \in Logs, Len(log) = 1
  PROVE  IncludedAt(log, 0)
<1>1. AuditPath[log][0] = <<>>
  <2>1. 0 \in 0 .. Len(log) - 1
    OBVIOUS
  <2> QED
    BY <2>1, PathStep
<1>2. Tree[log] = <<log[1]>>
  <2>1. Tree[log] = log /\ log \in Seq(Leaves)
    BY TreeStep, LogFacts
  <2>2. log = <<log[1]>>
    BY <2>1
  <2> QED
    BY <2>1, <2>2
<1>3. Reached(log, 0) = Start([fn |-> 0, sn |-> 0], <<log[1]>>)
  <2>1. Reached(log, 0) = Climb([fn |-> 0, sn |-> 0], <<log[1]>>, <<>>)
    BY <1>1 DEF Reached
  <2>2. Len(<<>>) = 0
    OBVIOUS
  <2> QED
    BY <2>1, <2>2, ClimbStep DEF Climb
<1> QED
  BY <1>1, <1>2, <1>3 DEF IncludedAt, Start, Done

\* A path of the left half.
LEMMA IncludedLeft ==
  ASSUME NEW log \in Logs, Len(log) # 1, NEW index \in Nat, index < Split(Len(log)),
         IncludedAt(Left(log), index)
  PROVE  IncludedAt(log, index)
<1>1. PICK n, k, l, r : n = Len(log) /\ k = Split(Len(log)) /\ l = Left(log) /\ r = Right(log)
  OBVIOUS
<1>2. /\ n \in Nat /\ n <= MaxSize /\ k \in Powers /\ k \in Nat /\ k >= 1 /\ k < n /\ n <= 2 * k
      /\ l \in Logs /\ Len(l) = k /\ r \in Logs /\ \A i \in 1 .. k : l[i] = log[i]
  BY <1>1, Parts, LogFacts
<1>3. PICK path : path = AuditPath[l][index]
  OBVIOUS
<1>4. path \in Seq(Trees) /\ Len(path) \in Nat
  BY <1>1, <1>3 DEF IncludedAt
<1>5. AuditPath[log][index] = Append(path, Tree[r])
  <2>1. index \in 0 .. Len(log) - 1
    BY <1>1, <1>2
  <2> QED
    BY <1>1, <1>3, <2>1, PathStep
<1>6. Tree[log] = <<Tree[l], Tree[r]>> /\ Tree[r] \in Trees
  BY <1>1, <1>2, TreeStep DEF Trees
<1>7. PICK p, q, start : /\ p = [fn |-> index, sn |-> k - 1] /\ q = [fn |-> index, sn |-> n - 1]
                         /\ start = <<log[index + 1]>>
  OBVIOUS
<1>8. AsLeft(p, q, k)
  BY <1>1, <1>2, <1>7, SizeAssumption DEF AsLeft, Positions
<1>9. Reached(l, index) = Climb(p, start, path)
  <2>1. index + 1 \in 1 .. k
    BY <1>1, <1>2
  <2> QED
    BY <1>2, <1>3, <1>7, <2>1 DEF Reached
<1>10. /\ Done(Climb(p, start, path))
       /\ Climb(p, start, path).new = Tree[l]
  BY <1>1, <1>9 DEF IncludedAt
<1>11. PICK node : node = Tree[r]
  OBVIOUS
<1>12. Reached(log, index) = Climb(q, start, Append(path, node))
  BY <1>1, <1>5, <1>7, <1>11 DEF Reached
<1>13. Done(Reached(log, index)) /\ Reached(log, index).new = <<Tree[l], Tree[r]>>
  <2>1. PICK root, end : root = Tree[l] /\ end = Climb(q, start, Append(path, node))
    OBVIOUS
  <2>2. k \in Powers /\ path \in Seq(Trees)
    BY <1>2, <1>4
  <2>3. Done(Climb(p, start, path))
    BY <1>10
  <2>4. Climb(p, start, path).new = root
    BY <1>10, <2>1
  <2>5. Done(end)
    BY <1>8, <2>1, <2>2, <2>3, LeftWhole
  <2>6. end.new = <<root, node>>
    BY <1>8, <2>1, <2>2, <2>3, <2>4, LeftWhole
  <2> QED
    BY <1>11, <1>12, <2>1, <2>5, <2>6
<1> QED
  BY <1>4, <1>5, <1>6, <1>13, AppendProperties DEF IncludedAt

\* A path of the right half.
LEMMA IncludedRight ==
  ASSUME NEW log \in Logs, Len(log) # 1, NEW index \in Nat, index >= Split(Len(log)), index < Len(log),
         IncludedAt(Right(log), index - Split(Len(log)))
  PROVE  IncludedAt(log, index)
<1>1. PICK n, k, l, r : n = Len(log) /\ k = Split(Len(log)) /\ l = Left(log) /\ r = Right(log)
  OBVIOUS
<1>2. /\ n \in Nat /\ n <= MaxSize /\ k \in Powers /\ k \in Nat /\ k >= 1 /\ k < n /\ n <= 2 * k
      /\ l \in Logs /\ r \in Logs /\ Len(r) = n - k /\ \A i \in 1 .. n - k : r[i] = log[k + i]
  BY <1>1, Parts, LogFacts
<1>3. PICK j, path : j = index - k /\ path = AuditPath[r][j]
  OBVIOUS
<1>4. path \in Seq(Trees) /\ Len(path) \in Nat /\ j \in Nat /\ j < n - k
  BY <1>1, <1>2, <1>3 DEF IncludedAt
<1>5. AuditPath[log][index] = Append(path, Tree[l])
  <2>1. index \in 0 .. Len(log) - 1 /\ ~(index < k)
    BY <1>1, <1>2
  <2> QED
    BY <1>1, <1>2, <1>3, <2>1, PathStep
<1>6. Tree[log] = <<Tree[l], Tree[r]>> /\ Tree[l] \in Trees
  BY <1>1, <1>2, TreeStep DEF Trees
<1>7. PICK p, q, start : /\ p = [fn |-> j, sn |-> n - k - 1] /\ q = [fn |-> index, sn |-> n - 1]
                         /\ start = <<log[index + 1]>>
  OBVIOUS
<1>8. AsRight(p, q, k)
  <2>1. /\ index = j + k /\ n - 1 = (n - k - 1) + k /\ j <= n - k - 1 /\ n - k - 1 < k
        /\ index \in 0 .. MaxSize /\ n - 1 \in 0 .. MaxSize
        /\ j \in 0 .. MaxSize /\ n - k - 1 \in 0 .. MaxSize
    <3>1. index < n /\ index >= k
      BY <1>1
    <3>2. k \in Nat /\ n \in Nat /\ k >= 1 /\ n <= 2 * k /\ n <= MaxSize /\ j = index - k
      BY <1>2, <1>3
    <3>3. index = j + k /\ n - 1 = (n - k - 1) + k /\ j <= n - k - 1 /\ n - k - 1 < k
      BY <3>1, <3>2
    <3>4. index <= MaxSize /\ n - 1 <= MaxSize /\ j <= MaxSize /\ n - k - 1 <= MaxSize /\ n - k - 1 \in Nat
      BY <1>4, <3>1, <3>2, SizeAssumption
    <3> QED
      BY <1>4, <3>1, <3>2, <3>3, <3>4, SizeAssumption
  <2>2. p.fn = j /\ p.sn = n - k - 1 /\ q.fn = index /\ q.sn = n - 1 /\ p \in Positions /\ q \in Positions
    BY <1>7, <2>1 DEF Positions
  <2> QED
    BY <1>2, <2>1, <2>2 DEF AsRight
<1>9. Reached(r, j) = Climb(p, start, path)
  <2>1. j + 1 \in 1 .. n - k /\ k + (j + 1) = index + 1
    BY <1>2, <1>3, <1>4
  <2> QED
    BY <1>2, <1>3, <1>7, <2>1 DEF Reached
<1>10. /\ Done(Climb(p, start, path))
       /\ Climb(p, start, path).new = Tree[r]
  BY <1>1, <1>3, <1>9 DEF IncludedAt
<1>11. PICK node : node = Tree[l]
  OBVIOUS
<1>12. Reached(log, index) = Climb(q, start, Append(path, node))
  BY <1>1, <1>5, <1>7, <1>11 DEF Reached
<1>13. Done(Reached(log, index)) /\ Reached(log, index).new = <<Tree[l], Tree[r]>>
  <2>1. PICK root, end : root = Tree[r] /\ end = Climb(q, start, Append(path, node))
    OBVIOUS
  <2>2. k \in Powers /\ path \in Seq(Trees)
    BY <1>2, <1>4
  <2>3. Done(Climb(p, start, path))
    BY <1>10
  <2>4. Climb(p, start, path).new = root
    BY <1>10, <2>1
  <2>5. Done(end)
    BY <1>8, <2>1, <2>2, <2>3, RightWhole
  <2>6. end.new = <<node, root>>
    BY <1>8, <2>1, <2>2, <2>3, <2>4, RightWhole
  <2> QED
    BY <1>11, <1>12, <2>1, <2>5, <2>6
<1> QED
  BY <1>4, <1>5, <1>6, <1>13, AppendProperties DEF IncludedAt

\* By induction over the length of the log.
LEMMA IncludedEverywhere ==
  \A log \in Logs : \A index \in 0 .. Len(log) - 1 : IncludedAt(log, index)
<1> DEFINE S == {n \in Nat : \A log \in Logs : Len(log) = n =>
                   \A index \in 0 .. n - 1 : IncludedAt(log, index)}
<1>1. ASSUME NEW n \in 0 .. MaxSize, \A k \in 0 .. MaxSize : k < n => k \in S
      PROVE  n \in S
  <2> SUFFICES ASSUME NEW log \in Logs, Len(log) = n, NEW index \in 0 .. n - 1
               PROVE  IncludedAt(log, index)
    BY SizeAssumption
  <2>0. n \in Nat /\ n >= 1 /\ index \in Nat
    BY LogFacts
  <2>1. CASE n = 1
    <3>1. index = 0
      BY <2>1
    <3> QED
      BY <2>1, <3>1, IncludedLeaf
  <2>2. CASE n # 1
    <3>1. PICK k, l, r : k = Split(n) /\ l = Left(log) /\ r = Right(log)
      OBVIOUS
    <3>2. /\ k \in Nat /\ k >= 1 /\ k < n
          /\ l \in Logs /\ Len(l) = k /\ r \in Logs /\ Len(r) = n - k
      BY <2>2, <3>1, Parts
    <3>3. k \in 0 .. MaxSize /\ n - k \in 0 .. MaxSize /\ n - k < n
      BY <2>0, <3>2, SizeAssumption
    <3>4. k \in S /\ n - k \in S
      BY <1>1, <3>2, <3>3
    <3>5. CASE index < k
      <4>1. index \in 0 .. k - 1
        BY <2>0, <3>2, <3>5
      <4>2. IncludedAt(l, index)
        BY <3>2, <3>4, <4>1
      <4> QED
        BY <2>0, <2>2, <3>1, <3>5, <4>2, IncludedLeft
    <3>6. CASE index >= k
      <4>1. index - k \in 0 .. (n - k) - 1 /\ index < n
        BY <2>0, <3>2, <3>6
      <4>2. IncludedAt(r, index - k)
        BY <3>2, <3>4, <4>1
      <4> QED
        BY <2>0, <2>2, <3>1, <3>6, <4>1, <4>2, IncludedRight
    <3> QED
      BY <2>0, <3>2, <3>5, <3>6
  <2> QED
    BY <2>1, <2>2
<1>2. 0 .. MaxSize \subseteq S
  <2> HIDE DEF S
  <2> QED
    BY <1>1, Complete, SizeAssumption
<1>3. ASSUME NEW log \in Logs, NEW index \in 0 .. Len(log) - 1 PROVE IncludedAt(log, index)
  <2>1. Len(log) \in S
    BY <1>2, LogFacts
  <2> QED
    BY <2>1
<1> QED
  BY <1>3

\* The audit path of every leaf of every log is accepted by the client that
\* climbs it: audit_path of generate_c2sp_fixtures.py against RFC 9162.
THEOREM AuditPathsInclude ==
  \A log \in Logs : \A index \in 0 .. Len(log) - 1 : Included(log, index, AuditPath[log][index])
<1> SUFFICES ASSUME NEW log \in Logs, NEW index \in 0 .. Len(log) - 1
             PROVE  Included(log, index, AuditPath[log][index])
  OBVIOUS
<1>1. IncludedAt(log, index)
  BY IncludedEverywhere
<1> QED
  BY <1>1 DEF Included, IncludedAt, Reached, Done

-----------------------------------------------------------------------------
(* Consistency.                                                            *)

Prior(log, m) == SubSeq(log, 1, m)

\* The first m entries of a log are a log.
LEMMA PriorFacts ==
  ASSUME NEW log \in Logs, NEW m \in 1 .. Len(log)
  PROVE  /\ Prior(log, m) \in Logs /\ Len(Prior(log, m)) = m
         /\ \A i \in 1 .. m : Prior(log, m)[i] = log[i]
<1>1. log \in Seq(Leaves) /\ Len(log) \in Nat /\ Len(log) <= MaxSize /\ m \in Nat /\ m >= 1 /\ m <= Len(log)
  BY LogFacts
<1>2. /\ Prior(log, m) \in Seq(Leaves) /\ Len(Prior(log, m)) = m
      /\ \A i \in 1 .. m : Prior(log, m)[i] = log[i]
  BY <1>1 DEF Prior
<1>3. m \in 1 .. MaxSize
  BY <1>1, SizeAssumption
<1> QED
  BY <1>2, <1>3 DEF Logs

\* All entries are the whole.
LEMMA PriorAll ==
  ASSUME NEW log \in Logs
  PROVE  Prior(log, Len(log)) = log
BY LogFacts, SubSeqFull DEF Prior

\* Up to the split, they are entries of the left half.
LEMMA PriorLeft ==
  ASSUME NEW log \in Logs, Len(log) # 1, NEW m \in 1 .. Split(Len(log))
  PROVE  Prior(Left(log), m) = Prior(log, m)
<1>1. PICK n, k, l : n = Len(log) /\ k = Split(Len(log)) /\ l = Left(log)
  OBVIOUS
<1>2. n \in Nat /\ k \in Nat /\ k < n /\ l \in Logs /\ Len(l) = k /\ \A i \in 1 .. k : l[i] = log[i]
  BY <1>1, Parts, LogFacts
<1>3. m \in 1 .. Len(l) /\ m \in 1 .. Len(log) /\ m \in Nat /\ m <= k
  BY <1>1, <1>2
<1>4. PICK v, w : v = Prior(l, m) /\ w = Prior(log, m)
  OBVIOUS
<1>5. /\ v \in Seq(Leaves) /\ w \in Seq(Leaves) /\ Len(v) = m /\ Len(w) = m
      /\ \A i \in 1 .. m : v[i] = l[i] /\ w[i] = log[i]
  BY <1>2, <1>3, <1>4, PriorFacts, LogFacts
<1>6. \A i \in 1 .. m : v[i] = w[i]
  BY <1>2, <1>3, <1>5
<1> QED
  BY <1>1, <1>4, <1>5, <1>6, SeqEqual

\* Past the split, they are the left half and entries of the right one.
LEMMA PriorRight ==
  ASSUME NEW log \in Logs, Len(log) # 1, NEW m \in Nat, Split(Len(log)) < m, m <= Len(log)
  PROVE  Tree[Prior(log, m)] = <<Tree[Left(log)], Tree[Prior(Right(log), m - Split(Len(log)))]>>
<1>1. PICK n, k, l, r, p, j : /\ n = Len(log) /\ k = Split(Len(log)) /\ l = Left(log) /\ r = Right(log)
                              /\ p = Prior(log, m) /\ j = m - k
  OBVIOUS
<1>2. /\ n \in Nat /\ k \in Nat /\ k >= 1 /\ k < n /\ k \in Powers /\ n <= 2 * k
      /\ l \in Logs /\ Len(l) = k /\ \A i \in 1 .. k : l[i] = log[i]
      /\ r \in Logs /\ Len(r) = n - k /\ \A i \in 1 .. n - k : r[i] = log[k + i]
  BY <1>1, Parts, LogFacts
<1>3. k < m /\ m <= n
  BY <1>1
<1>4. m \in 1 .. Len(log) /\ j \in 1 .. Len(r) /\ j \in Nat /\ k + j = m
  BY <1>1, <1>2, <1>3
<1>5. p \in Logs /\ Len(p) = m /\ \A i \in 1 .. m : p[i] = log[i]
  BY <1>1, <1>4, PriorFacts
<1>6. Split(m) = k
  BY <1>2, <1>3, SplitUnique
<1>7. PICK pl, pr : pl = Left(p) /\ pr = Right(p)
  OBVIOUS
<1>8. /\ m # 1 /\ pl \in Logs /\ Len(pl) = k /\ \A i \in 1 .. k : pl[i] = p[i]
      /\ pr \in Logs /\ Len(pr) = j /\ \A i \in 1 .. j : pr[i] = p[k + i]
  <2>1. m # 1 /\ m - k = j
    BY <1>1, <1>2, <1>3
  <2> QED
    BY <1>5, <1>6, <1>7, <2>1, Parts
<1>9. pl = l
  <2>1. \A i \in 1 .. k : pl[i] = l[i]
    <3>1. \A i \in 1 .. k : i \in 1 .. m
      BY <1>2, <1>3
    <3> QED
      BY <1>2, <1>5, <1>8, <3>1
  <2> QED
    BY <1>2, <1>8, <2>1, LogFacts, SeqEqual
<1>10. pr = Prior(r, j)
  <2>1. PICK v : v = Prior(r, j)
    OBVIOUS
  <2>2. v \in Logs /\ Len(v) = j /\ \A i \in 1 .. j : v[i] = r[i]
    BY <1>2, <1>4, <2>1, PriorFacts
  <2>3. \A i \in 1 .. j : pr[i] = v[i]
    <3>1. \A i \in 1 .. j : k + i \in 1 .. m /\ i \in 1 .. n - k
      BY <1>2, <1>3, <1>4
    <3> QED
      BY <1>2, <1>5, <1>8, <2>2, <3>1
  <2>4. pr = v
    BY <1>8, <2>2, <2>3, LogFacts, SeqEqual
  <2> QED
    BY <2>1, <2>4
<1>11. Tree[p] = <<Tree[l], Tree[Prior(r, j)]>>
  BY <1>5, <1>7, <1>8, <1>9, <1>10, TreeStep
<1> QED
  BY <1>1, <1>11

\* A size between a power of two and twice that is no power.
LEMMA NoPower ==
  ASSUME NEW k \in Powers, NEW m \in Nat, k < m, m < 2 * k
  PROVE  m \notin Powers
BY Apart, Halves

Proof(log, m) == Subproof[log][m][FALSE]

Followed(log, m) ==
  Climb(SkipOdd[[fn |-> m - 1, sn |-> Len(log) - 1]], Head(Proof(log, m)), Tail(Proof(log, m)))

Proves(log, m) ==
  /\ Proof(log, m) \in Seq(Trees) /\ Proof(log, m) # <<>>
  /\ Subproof[log][m][TRUE] \in Seq(Trees)
  /\ m # Len(log) => Subproof[log][m][TRUE] # <<>>
  /\ Proof(log, m) = IF m \in Powers THEN <<Tree[Prior(log, m)]>> \o Subproof[log][m][TRUE]
                     ELSE Subproof[log][m][TRUE]
  /\ Done(Followed(log, m))
  /\ Followed(log, m).old = Tree[Prior(log, m)] /\ Followed(log, m).new = Tree[log]

\* A log proves itself: the proof is its root, or nothing when the client knows it.
LEMMA ProvesAll ==
  ASSUME NEW log \in Logs, Len(log) \in Powers
  PROVE  Proves(log, Len(log))
<1>1. PICK n, root : n = Len(log) /\ root = Tree[log]
  OBVIOUS
<1>2. n \in Nat /\ n >= 1 /\ n <= MaxSize /\ n \in Powers
  BY <1>1, LogFacts
<1>3. Subproof[log][n][TRUE] = <<>> /\ Proof(log, n) = <<root>>
  <2>1. n \in 1 .. Len(log)
    BY <1>1, <1>2
  <2> QED
    BY <1>1, <2>1, ProofStep DEF Proof
<1>4. root \in Trees
  BY <1>1 DEF Trees
<1>5. /\ <<root>> \in Seq(Trees) /\ <<>> \in Seq(Trees) /\ <<root>> # <<>>
      /\ <<root>> \o <<>> = <<root>> /\ Head(<<root>>) = root /\ Tail(<<root>>) = <<>>
  BY <1>4
<1>6. Followed(log, n) = Start([fn |-> 0, sn |-> 0], root)
  <2>1. Followed(log, n) = Climb([fn |-> 0, sn |-> 0], root, <<>>)
    BY <1>1, <1>2, <1>3, <1>5, PowerSkipsOdd DEF Followed
  <2>2. Len(<<>>) = 0
    OBVIOUS
  <2> QED
    BY <2>1, <2>2, ClimbStep DEF Climb
<1>7. Prior(log, n) = log
  BY <1>1, PriorAll
<1> QED
  BY <1>1, <1>2, <1>3, <1>5, <1>6, <1>7 DEF Proves, Done, Start

\* The smaller log is within the left half.
LEMMA ProvesLeft ==
  ASSUME NEW log \in Logs, Len(log) # 1, NEW m \in 1 .. Split(Len(log)), Proves(Left(log), m)
  PROVE  Proves(log, m)
<1>1. PICK n, k, l, r : n = Len(log) /\ k = Split(Len(log)) /\ l = Left(log) /\ r = Right(log)
  OBVIOUS
<1>2. /\ n \in Nat /\ n <= MaxSize /\ k \in Powers /\ k \in Nat /\ k >= 1 /\ k < n /\ n <= 2 * k
      /\ l \in Logs /\ Len(l) = k /\ r \in Logs
  BY <1>1, Parts, LogFacts
<1>3. PICK full, some, root, node : /\ full = Proof(l, m) /\ some = Subproof[l][m][TRUE]
                                    /\ root = Tree[l] /\ node = Tree[r]
  OBVIOUS
<1>4. full \in Seq(Trees) /\ full # <<>> /\ some \in Seq(Trees) /\ node \in Trees
  BY <1>1, <1>2, <1>3 DEF Proves, Trees
<1>5. Proof(log, m) = Append(full, node) /\ Subproof[log][m][TRUE] = Append(some, node)
  <2>1. m \in 1 .. Len(log) /\ m # Len(log) /\ m <= k
    BY <1>1, <1>2
  <2> QED
    BY <1>1, <1>3, <2>1, ProofStep DEF Proof
<1>6. Tree[log] = <<root, node>>
  BY <1>1, <1>3, TreeStep
<1>7. Prior(l, m) = Prior(log, m)
  BY <1>1, PriorLeft
<1>8. PICK tree : tree = Tree[Prior(log, m)]
  OBVIOUS
<1>9. tree \in Trees
  <2>1. m \in 1 .. Len(log)
    BY <1>1, <1>2
  <2> QED
    BY <1>8, <2>1, PriorFacts DEF Trees
<1>10. Append(full, node) = IF m \in Powers THEN <<tree>> \o Append(some, node) ELSE Append(some, node)
  <2>1. full = IF m \in Powers THEN <<tree>> \o some ELSE some
    BY <1>1, <1>3, <1>7, <1>8 DEF Proves
  <2>2. Append(<<tree>> \o some, node) = <<tree>> \o Append(some, node)
    BY <1>4, <1>9
  <2> QED
    BY <2>1, <2>2
<1>11. PICK p, q, head, tail : /\ p = SkipOdd[[fn |-> m - 1, sn |-> k - 1]]
                               /\ q = SkipOdd[[fn |-> m - 1, sn |-> n - 1]]
                               /\ head = Head(full) /\ tail = Tail(full)
  OBVIOUS
<1>12. PICK R \in Powers : AsLeft(p, q, R)
  <2>1. PICK p0, q0 : p0 = [fn |-> m - 1, sn |-> k - 1] /\ q0 = [fn |-> m - 1, sn |-> n - 1]
    OBVIOUS
  <2>2. m \in 1 .. k
    BY <1>1
  <2>3. AsLeft(p0, q0, k)
    BY <1>2, <2>1, <2>2, SizeAssumption DEF AsLeft, Positions
  <2> QED
    BY <1>11, <2>1, <2>3, LeftSkips
<1>13. tail \in Seq(Trees) /\ Head(Append(full, node)) = head /\ Tail(Append(full, node)) = Append(tail, node)
  BY <1>4, <1>11, HeadTailAppend, HeadTailProperties
<1>14. PICK end, whole : end = Climb(p, head, tail) /\ whole = Climb(q, head, Append(tail, node))
  OBVIOUS
<1>15. Followed(l, m) = end
  BY <1>2, <1>3, <1>11, <1>14 DEF Followed
<1>16. Followed(log, m) = whole
  BY <1>1, <1>5, <1>11, <1>13, <1>14 DEF Followed
<1>17. Done(end) /\ end.old = tree /\ end.new = root
  BY <1>1, <1>3, <1>7, <1>8, <1>15 DEF Proves
<1>18. Done(whole) /\ whole.old = end.old /\ whole.new = <<end.new, node>>
  BY <1>12, <1>13, <1>14, <1>17, LeftWhole
<1>19. Append(full, node) \in Seq(Trees) /\ Append(some, node) \in Seq(Trees)
       /\ Append(full, node) # <<>> /\ Append(some, node) # <<>>
  BY <1>4, AppendProperties
<1> QED
  BY <1>5, <1>6, <1>8, <1>10, <1>16, <1>17, <1>18, <1>19 DEF Proves

\* The smaller log takes in the left half.
LEMMA ProvesRight ==
  ASSUME NEW log \in Logs, Len(log) # 1, NEW m \in Nat, Split(Len(log)) < m, m < Len(log),
         Proves(Right(log), m - Split(Len(log)))
  PROVE  Proves(log, m)
<1>1. PICK n, k, l, r, j : /\ n = Len(log) /\ k = Split(Len(log)) /\ l = Left(log) /\ r = Right(log)
                           /\ j = m - k
  OBVIOUS
<1>2. /\ n \in Nat /\ n <= MaxSize /\ k \in Powers /\ k \in Nat /\ k >= 1 /\ k < n /\ n <= 2 * k
      /\ l \in Logs /\ r \in Logs /\ Len(r) = n - k
  BY <1>1, Parts, LogFacts
<1>3. k < m /\ m < n
  BY <1>1
<1>4. j \in 1 .. n - k /\ j # n - k /\ j \in Nat /\ m \notin Powers
  <2>1. m < 2 * k
    BY <1>2, <1>3
  <2> QED
    BY <1>1, <1>2, <1>3, <2>1, NoPower
<1>5. PICK full, root, node : full = Proof(r, j) /\ root = Tree[r] /\ node = Tree[l]
  OBVIOUS
<1>6. full \in Seq(Trees) /\ full # <<>> /\ node \in Trees
  BY <1>1, <1>2, <1>5 DEF Proves, Trees
<1>7. Proof(log, m) = Append(full, node) /\ Subproof[log][m][TRUE] = Append(full, node)
  <2>1. m \in 1 .. Len(log) /\ m # Len(log) /\ ~(m <= k)
    BY <1>1, <1>2, <1>3
  <2> QED
    BY <1>1, <1>5, <2>1, ProofStep DEF Proof
<1>8. Tree[log] = <<node, root>>
  BY <1>1, <1>5, TreeStep
<1>9. PICK tree : tree = Tree[Prior(r, j)]
  OBVIOUS
<1>10. Tree[Prior(log, m)] = <<node, tree>>
  <2>1. m <= Len(log)
    BY <1>1, <1>2, <1>3
  <2> QED
    BY <1>1, <1>5, <1>9, <2>1, PriorRight
<1>11. PICK p, q, head, tail : /\ p = SkipOdd[[fn |-> j - 1, sn |-> n - k - 1]]
                               /\ q = SkipOdd[[fn |-> m - 1, sn |-> n - 1]]
                               /\ head = Head(full) /\ tail = Tail(full)
  OBVIOUS
<1>12. PICK R \in Powers : AsRight(p, q, R)
  <2>1. PICK p0, q0 : p0 = [fn |-> j - 1, sn |-> n - k - 1] /\ q0 = [fn |-> m - 1, sn |-> n - 1]
    OBVIOUS
  <2>2. /\ j - 1 \in 0 .. MaxSize /\ n - k - 1 \in 0 .. MaxSize
        /\ m - 1 \in 0 .. MaxSize /\ n - 1 \in 0 .. MaxSize
        /\ m - 1 = (j - 1) + k /\ n - 1 = (n - k - 1) + k /\ j - 1 < n - k - 1 /\ n - k - 1 < k
    <3>1. /\ k \in Nat /\ k >= 1 /\ n \in Nat /\ n <= MaxSize /\ n <= 2 * k
          /\ j = m - k /\ k < m /\ m < n
      BY <1>1, <1>2, <1>3
    <3>2. m - 1 = (j - 1) + k /\ n - 1 = (n - k - 1) + k /\ j - 1 < n - k - 1 /\ n - k - 1 < k
      BY <3>1
    <3>3. /\ j - 1 <= MaxSize /\ n - k - 1 <= MaxSize /\ m - 1 <= MaxSize /\ n - 1 <= MaxSize
          /\ j - 1 \in Nat /\ n - k - 1 \in Nat /\ m - 1 \in Nat /\ n - 1 \in Nat
      BY <3>1, SizeAssumption
    <3> QED
      BY <3>2, <3>3, SizeAssumption
  <2>3. /\ p0.fn = j - 1 /\ p0.sn = n - k - 1 /\ q0.fn = m - 1 /\ q0.sn = n - 1
        /\ p0 \in Positions /\ q0 \in Positions
    BY <2>1, <2>2 DEF Positions
  <2>4. AsRight(p0, q0, k) /\ p0.fn < p0.sn
    BY <1>2, <1>4, <2>2, <2>3 DEF AsRight
  <2> QED
    BY <1>11, <2>1, <2>4, RightSkips
<1>13. tail \in Seq(Trees) /\ Head(Append(full, node)) = head /\ Tail(Append(full, node)) = Append(tail, node)
  BY <1>6, <1>11, HeadTailAppend, HeadTailProperties
<1>14. PICK end, whole : end = Climb(p, head, tail) /\ whole = Climb(q, head, Append(tail, node))
  OBVIOUS
<1>15. Followed(r, j) = end
  BY <1>2, <1>5, <1>11, <1>14 DEF Followed
<1>16. Followed(log, m) = whole
  BY <1>1, <1>7, <1>11, <1>13, <1>14 DEF Followed
<1>17. Done(end) /\ end.old = tree /\ end.new = root
  BY <1>1, <1>5, <1>9, <1>15 DEF Proves
<1>18. Done(whole) /\ whole.old = <<node, end.old>> /\ whole.new = <<node, end.new>>
  BY <1>12, <1>13, <1>14, <1>17, RightWhole
<1>19. Append(full, node) \in Seq(Trees) /\ Append(full, node) # <<>>
  BY <1>6, AppendProperties
<1> QED
  BY <1>4, <1>7, <1>8, <1>10, <1>16, <1>17, <1>18, <1>19 DEF Proves

\* By induction over the length of the larger log.
LEMMA ProvesEverywhere ==
  \A log \in Logs : \A m \in 1 .. Len(log) : m # Len(log) \/ m \in Powers => Proves(log, m)
<1> DEFINE S == {n \in Nat : \A log \in Logs : Len(log) = n =>
                   \A m \in 1 .. n : m # n \/ m \in Powers => Proves(log, m)}
<1>1. ASSUME NEW n \in 0 .. MaxSize, \A k \in 0 .. MaxSize : k < n => k \in S
      PROVE  n \in S
  <2> SUFFICES ASSUME NEW log \in Logs, Len(log) = n, NEW m \in 1 .. n, m # n \/ m \in Powers
               PROVE  Proves(log, m)
    BY SizeAssumption
  <2>0. n \in Nat /\ n >= 1 /\ m \in Nat /\ m >= 1 /\ m <= n
    BY LogFacts
  <2>1. CASE m = n
    BY <2>1, ProvesAll
  <2>2. CASE m # n
    <3>0. n # 1
      BY <2>0, <2>2
    <3>1. PICK k, l, r : k = Split(n) /\ l = Left(log) /\ r = Right(log)
      OBVIOUS
    <3>2. /\ k \in Nat /\ k >= 1 /\ k < n /\ k \in Powers
          /\ l \in Logs /\ Len(l) = k /\ r \in Logs /\ Len(r) = n - k
      BY <3>0, <3>1, Parts
    <3>3. k \in 0 .. MaxSize /\ n - k \in 0 .. MaxSize /\ n - k < n
      BY <2>0, <3>2, SizeAssumption
    <3>4. k \in S /\ n - k \in S
      BY <1>1, <3>2, <3>3
    <3>5. CASE m <= k
      <4>1. m \in 1 .. k
        BY <2>0, <3>2, <3>5
      <4>2. Proves(l, m)
        BY <3>2, <3>4, <4>1
      <4> QED
        BY <3>0, <3>1, <4>1, <4>2, ProvesLeft
    <3>6. CASE k < m
      <4>1. m - k \in 1 .. n - k /\ m - k # n - k /\ m < n
        BY <2>0, <2>2, <3>2, <3>6
      <4>2. Proves(r, m - k)
        BY <3>2, <3>4, <4>1
      <4> QED
        BY <2>0, <3>0, <3>1, <3>6, <4>1, <4>2, ProvesRight
    <3> QED
      BY <2>0, <3>2, <3>5, <3>6
  <2> QED
    BY <2>1, <2>2
<1>2. 0 .. MaxSize \subseteq S
  <2> HIDE DEF S
  <2> QED
    BY <1>1, Complete, SizeAssumption
<1>3. ASSUME NEW log \in Logs, NEW m \in 1 .. Len(log), m # Len(log) \/ m \in Powers PROVE Proves(log, m)
  <2>1. Len(log) \in S
    BY <1>2, LogFacts
  <2> QED
    BY <1>3, <2>1
<1> QED
  BY <1>3

\* The client adds the root that a proof leaves out as known.
LEMMA Follows ==
  ASSUME NEW log \in Logs, NEW m \in 1 .. Len(log), m # Len(log)
  PROVE  LET proof == Subproof[log][m][TRUE]
             end == Follow(Prior(log, m), log, proof) IN
         /\ proof \in Seq(Trees) /\ proof # <<>>
         /\ end = Followed(log, m)
         /\ Done(end) /\ end.old = Tree[Prior(log, m)] /\ end.new = Tree[log]
<1>1. Proves(log, m)
  BY ProvesEverywhere
<1>2. Len(Prior(log, m)) = m
  BY PriorFacts
<1>3. Follow(Prior(log, m), log, Subproof[log][m][TRUE]) = Followed(log, m)
  BY <1>1, <1>2 DEF Follow, Followed, Proves
<1> QED
  BY <1>1, <1>3 DEF Proves

\* The consistency proof from every size of a log to its whole is accepted by the
\* client that climbs it, whatever the two sizes: subproof of
\* consistency_vectors.py against RFC 9162.
THEOREM ConsistencyProofsLead ==
  \A log \in Logs : \A m \in 1 .. Len(log) - 1 :
    LET known == SubSeq(log, 1, m)
        end == Follow(known, log, Subproof[log][m][TRUE]) IN
    ~end.surplus /\ end.at.sn = 0 /\ end.old = Tree[known] /\ end.new = Tree[log]
<1> SUFFICES ASSUME NEW log \in Logs, NEW m \in 1 .. Len(log) - 1
             PROVE  LET known == SubSeq(log, 1, m)
                        end == Follow(known, log, Subproof[log][m][TRUE]) IN
                    ~end.surplus /\ end.at.sn = 0 /\ end.old = Tree[known] /\ end.new = Tree[log]
  OBVIOUS
<1>1. m \in 1 .. Len(log) /\ m # Len(log)
  BY LogFacts
<1> QED
  BY <1>1, Follows DEF Prior, Done

-----------------------------------------------------------------------------
(* Proofs that are not accepted: one without its last node, one with a     *)
(* node too many, one with a node changed.                                 *)

\* A proof has a last node.
LEMMA SplitLast ==
  ASSUME NEW T, NEW v \in Seq(T), v # <<>>
  PROVE  /\ Front(v) \in Seq(T) /\ Len(Front(v)) = Len(v) - 1
         /\ \E last \in T : v = Append(Front(v), last)
<1>1. PICK n : n = Len(v)
  OBVIOUS
<1>2. n \in Nat /\ n >= 1
  BY <1>1
<1>3. PICK w : w = Front(v)
  OBVIOUS
<1>4. w \in Seq(T) /\ Len(w) = n - 1 /\ \A i \in 1 .. n - 1 : w[i] = v[i]
  BY <1>1, <1>2, <1>3 DEF Front
<1>5. v[n] \in T
  BY <1>1, <1>2
<1>6. v = Append(w, v[n])
  <2>1. PICK u : u = Append(w, v[n])
    OBVIOUS
  <2>2. u \in Seq(T) /\ Len(u) = n /\ \A i \in 1 .. n - 1 : u[i] = v[i]
    BY <1>2, <1>4, <1>5, <2>1
  <2>3. u[n] = v[n]
    BY <1>2, <1>4, <1>5, <2>1
  <2>4. \A i \in 1 .. n : u[i] = v[i]
    <3>1. \A i \in 1 .. n : i \in 1 .. n - 1 \/ i = n
      BY <1>2
    <3> QED
      BY <2>2, <2>3, <3>1
  <2>5. u = v
    BY <1>1, <2>2, <2>4, SeqEqual
  <2> QED
    BY <2>1, <2>5
<1> QED
  BY <1>1, <1>3, <1>4, <1>5, <1>6

\* A root is not empty, and is no triple.
LEMMA TreeFacts ==
  ASSUME NEW tree \in Trees
  PROVE  tree # <<>> /\ \A a, b, c : tree # <<a, b, c>>
<1>1. PICK log \in Logs : tree = Tree[log]
  BY DEF Trees
<1>2. CASE Len(log) = 1
  <2>1. tree \in Seq(Leaves) /\ Len(tree) = 1
    BY <1>1, <1>2, TreeStep, LogFacts
  <2>2. \A a, b, c : Len(<<a, b, c>>) = 3
    OBVIOUS
  <2> QED
    BY <2>1, <2>2
<1>3. CASE Len(log) # 1
  <2>1. PICK x, y : tree = <<x, y>>
    BY <1>1, <1>3, TreeStep
  <2> QED
    BY <2>1
<1> QED
  BY <1>2, <1>3

\* What the client climbs from and along: the root it knows, for a power of two.
From(log, m) == SkipOdd[[fn |-> m - 1, sn |-> Len(log) - 1]]

Along(log, m, proof) == IF m \in Powers THEN <<Tree[Prior(log, m)]>> \o proof ELSE proof

\* The client climbs along the proof and the root it may add.
LEMMA FollowAlong ==
  ASSUME NEW log \in Logs, NEW m \in 1 .. Len(log), NEW proof, proof # <<>>
  PROVE  Follow(Prior(log, m), log, proof) =
           Climb(From(log, m), Head(Along(log, m, proof)), Tail(Along(log, m, proof)))
BY PriorFacts DEF Follow, From, Along

\* Of a proof that is shorter by its last node, the climb does not arrive.
LEMMA ShortStops ==
  ASSUME NEW log \in Logs, NEW m \in 1 .. Len(log), m # Len(log), NEW v \in Seq(Trees), v # <<>>,
         NEW node \in Trees, Subproof[log][m][TRUE] = Append(v, node)
  PROVE  Follow(Prior(log, m), log, v).at.sn # 0
<1>1. PICK tree, p : tree = Tree[Prior(log, m)] /\ p = From(log, m)
  OBVIOUS
<1>2. tree \in Trees
  BY <1>1, PriorFacts DEF Trees
<1>3. PICK short, full : short = Along(log, m, v) /\ full = Along(log, m, Append(v, node))
  OBVIOUS
<1>4. short \in Seq(Trees) /\ short # <<>> /\ full = Append(short, node)
  BY <1>1, <1>2, <1>3 DEF Along
<1>5. PICK h, w : h = Head(short) /\ w = Tail(short)
  OBVIOUS
<1>6. w \in Seq(Trees) /\ Head(full) = h /\ Tail(full) = Append(w, node)
  BY <1>4, <1>5, HeadTailAppend, HeadTailProperties
<1>7. PICK s : s = Climb(p, h, w)
  OBVIOUS
<1>8. Follow(Prior(log, m), log, v) = s
  BY <1>1, <1>3, <1>5, <1>7, FollowAlong
<1>9. Follow(Prior(log, m), log, Append(v, node)) = Step(s, node)
  <2>1. Append(v, node) # <<>>
    OBVIOUS
  <2>2. Follow(Prior(log, m), log, Append(v, node)) = Climb(p, h, Append(w, node))
    BY <1>1, <1>3, <1>6, <2>1, FollowAlong
  <2>3. Climb(p, h, Append(w, node)) = Step(Climb(p, h, w), node)
    BY <1>6, ClimbAppend
  <2> QED
    BY <1>7, <2>2, <2>3
<1>10. Step(s, node).surplus = FALSE
  <2>1. Done(Follow(Prior(log, m), log, Subproof[log][m][TRUE]))
    BY Follows
  <2> QED
    BY <1>9, <2>1 DEF Done
<1> QED
  BY <1>8, <1>10, StepFacts

\* Without its last node a proof is not accepted.
LEMMA ShortRefused ==
  ASSUME NEW log \in Logs, NEW m \in 1 .. Len(log), m # Len(log)
  PROVE  LET end == Follow(Prior(log, m), log, Front(Subproof[log][m][TRUE])) IN
         end.at.sn # 0 \/ end.new # Tree[log]
<1>1. PICK proof, v : proof = Subproof[log][m][TRUE] /\ v = Front(proof)
  OBVIOUS
<1>2. proof \in Seq(Trees) /\ proof # <<>>
  BY <1>1, Follows
<1>3. v \in Seq(Trees) /\ \E node \in Trees : proof = Append(v, node)
  <2>1. Front(proof) \in Seq(Trees)
    BY <1>2, SplitLast
  <2>2. \E node \in Trees : proof = Append(Front(proof), node)
    BY <1>2, SplitLast
  <2> QED
    BY <1>1, <2>1, <2>2
<1>4. CASE v = <<>>
  <2>1. Follow(Prior(log, m), log, v).new = <<>>
    BY <1>4 DEF Follow
  <2>2. Tree[log] \in Trees
    BY DEF Trees
  <2> QED
    BY <1>1, <2>1, <2>2, TreeFacts
<1>5. CASE v # <<>>
  BY <1>1, <1>3, <1>5, ShortStops
<1> QED
  BY <1>4, <1>5

\* With one more node, whatever it is, a proof is not accepted.
LEMMA LongRefused ==
  ASSUME NEW log \in Logs, NEW m \in 1 .. Len(log), m # Len(log), NEW node
  PROVE  Follow(Prior(log, m), log, Append(Subproof[log][m][TRUE], node)).surplus
<1>1. PICK tree, p, v : tree = Tree[Prior(log, m)] /\ p = From(log, m) /\ v = Subproof[log][m][TRUE]
  OBVIOUS
<1>2. tree \in Trees /\ v \in Seq(Trees) /\ v # <<>>
  BY <1>1, PriorFacts, Follows DEF Trees
<1>3. PICK full, long : full = Along(log, m, v) /\ long = Along(log, m, Append(v, node))
  OBVIOUS
<1>4. full \in Seq(Trees) /\ full # <<>> /\ long = Append(full, node)
  <2>0. full = IF m \in Powers THEN <<tree>> \o v ELSE v
    BY <1>1, <1>3 DEF Along
  <2> DEFINE T == Trees \cup {node}
  <2>1. tree \in T /\ v \in Seq(T) /\ node \in T
    BY <1>2
  <2> HIDE DEF T
  <2>2. <<tree>> \o Append(v, node) = Append(<<tree>> \o v, node)
    BY <2>1
  <2>3. long = IF m \in Powers THEN <<tree>> \o Append(v, node) ELSE Append(v, node)
    BY <1>1, <1>3 DEF Along
  <2>4. long = Append(full, node)
    BY <2>0, <2>2, <2>3
  <2>5. <<tree>> \o v \in Seq(Trees) /\ <<tree>> \o v # <<>>
    BY <1>2
  <2> QED
    BY <1>2, <2>0, <2>4, <2>5
<1>5. PICK h, w : h = Head(full) /\ w = Tail(full)
  OBVIOUS
<1>6. w \in Seq(Trees) /\ Head(long) = h /\ Tail(long) = Append(w, node)
  BY <1>4, <1>5, HeadTailAppend, HeadTailProperties
<1>7. PICK s : s = Climb(p, h, w)
  OBVIOUS
<1>8. s.at.sn = 0
  <2>1. Follow(Prior(log, m), log, v) = s
    BY <1>1, <1>2, <1>3, <1>5, <1>7, FollowAlong
  <2>2. Done(Follow(Prior(log, m), log, v))
    BY <1>1, Follows
  <2> QED
    BY <2>1, <2>2 DEF Done
<1>9. Follow(Prior(log, m), log, Append(v, node)) = Step(s, node)
  <2>1. Append(v, node) # <<>>
    BY <1>2
  <2>2. Follow(Prior(log, m), log, Append(v, node)) = Climb(p, h, Append(w, node))
    BY <1>1, <1>3, <1>6, <2>1, FollowAlong
  <2>3. Climb(p, h, Append(w, node)) = Step(Climb(p, h, w), node)
    BY <1>6, ClimbAppend
  <2> QED
    BY <1>7, <2>2, <2>3
<1>10. Step(s, node).surplus
  BY <1>8 DEF Step
<1> QED
  BY <1>1, <1>9, <1>10

\* Two climbs apart in the new root stay apart when they take the same node.
LEMMA StepApart ==
  ASSUME NEW s, NEW t, NEW node, s.at = t.at, s.new # t.new
  PROVE  Step(s, node).at = Step(t, node).at /\ Step(s, node).new # Step(t, node).new
<1>1. CASE s.at.sn = 0
  BY <1>1 DEF Step
<1>2. CASE s.at.sn # 0 /\ (s.at.fn % 2 = 1 \/ s.at.fn = s.at.sn)
  <2>1. Step(s, node).new = <<node, s.new>> /\ Step(t, node).new = <<node, t.new>>
        /\ Step(s, node).at = Step(t, node).at
    BY <1>2 DEF Step
  <2> QED
    BY <2>1
<1>3. CASE s.at.sn # 0 /\ ~(s.at.fn % 2 = 1 \/ s.at.fn = s.at.sn)
  <2>1. Step(s, node).new = <<s.new, node>> /\ Step(t, node).new = <<t.new, node>>
        /\ Step(s, node).at = Step(t, node).at
    BY <1>3 DEF Step
  <2> QED
    BY <2>1
<1> QED
  BY <1>1, <1>2, <1>3

\* Climbs that have come apart at the same position stay apart.
LEMMA StayApart ==
  ASSUME NEW from, NEW a, NEW b, NEW v, NEW w, NEW N \in Nat, Len(v) = N, Len(w) = N,
         NEW k \in 0 .. N, \A i \in 1 .. N : i > k => v[i] = w[i],
         Climbing(from, a, v)[k].at = Climbing(from, b, w)[k].at,
         Climbing(from, a, v)[k].new # Climbing(from, b, w)[k].new
  PROVE  Climb(from, a, v).new # Climb(from, b, w).new
<1> DEFINE f == Climbing(from, a, v)
           g == Climbing(from, b, w)
           S == {i \in Nat : f[k + i].at = g[k + i].at /\ f[k + i].new # g[k + i].new}
<1>1. /\ \A i \in 1 .. N : f[i] = Step(f[i - 1], v[i])
      /\ \A i \in 1 .. N : g[i] = Step(g[i - 1], w[i])
      /\ f[k].at = g[k].at /\ f[k].new # g[k].new
      /\ Climb(from, a, v) = f[N] /\ Climb(from, b, w) = g[N]
  BY ClimbStep DEF Climb
<1> HIDE DEF f, g
<1>2. 0 \in S
  BY <1>1
<1>3. ASSUME NEW i \in Nat, i < N - k, i \in S PROVE i + 1 \in S
  <2>1. PICK j : j = k + i
    OBVIOUS
  <2>2. j + 1 \in 1 .. N /\ (j + 1) - 1 = j /\ k + (i + 1) = j + 1 /\ j + 1 > k
    BY <1>3, <2>1
  <2>3. f[j].at = g[j].at /\ f[j].new # g[j].new
    BY <1>3, <2>1
  <2>4. PICK node : node = v[j + 1]
    OBVIOUS
  <2>5. f[j + 1] = Step(f[j], node) /\ g[j + 1] = Step(g[j], node)
    BY <1>1, <2>2, <2>4
  <2>6. f[j + 1].at = g[j + 1].at /\ f[j + 1].new # g[j + 1].new
    BY <2>3, <2>5, StepApart
  <2> QED
    BY <2>2, <2>6
<1>4. 0 .. N - k \subseteq S
  <2>1. N - k \in Nat
    OBVIOUS
  <2> HIDE DEF S
  <2> QED
    BY <1>2, <1>3, <2>1, Inductive
<1>5. f[N].new # g[N].new
  <2>1. N - k \in 0 .. N - k /\ k + (N - k) = N
    OBVIOUS
  <2> QED
    BY <1>4, <2>1
<1> QED
  BY <1>1, <1>5

\* Climbs from different starts.
LEMMA StartApart ==
  ASSUME NEW from, NEW a, NEW b, a # b, NEW v, Len(v) \in Nat
  PROVE  Climb(from, a, v).new # Climb(from, b, v).new
<1>1. PICK s, t : s = Climbing(from, a, v)[0] /\ t = Climbing(from, b, v)[0]
  OBVIOUS
<1>2. s = Start(from, a) /\ t = Start(from, b)
  BY <1>1, ClimbStep
<1>3. s.at = t.at /\ s.new # t.new
  BY <1>2 DEF Start
<1>4. 0 \in 0 .. Len(v)
  OBVIOUS
<1> QED
  BY <1>1, <1>3, <1>4, StayApart

\* Climbs along paths of which one node differs.
LEMMA PathApart ==
  ASSUME NEW from, NEW a, NEW v, NEW w, NEW N \in Nat, Len(v) = N, Len(w) = N,
         NEW k \in 1 .. N, v[k] # w[k], \A i \in 1 .. N : i # k => v[i] = w[i],
         Climb(from, a, v).surplus = FALSE
  PROVE  Climb(from, a, v).new # Climb(from, a, w).new
<1>1. PICK s : s = Climbing(from, a, v)[k - 1]
  OBVIOUS
<1>2. s = Climbing(from, a, w)[k - 1]
  <2>1. k - 1 \in Nat /\ k - 1 <= N /\ \A i \in 1 .. k - 1 : v[i] = w[i]
    <3>1. \A i \in 1 .. k - 1 : i \in 1 .. N /\ i # k
      OBVIOUS
    <3> QED
      BY <3>1
  <2> QED
    BY <1>1, <2>1, SameClimb
<1>3. PICK x, y : x = v[k] /\ y = w[k]
  OBVIOUS
<1>4. Climbing(from, a, v)[k] = Step(s, x)
  BY <1>1, <1>3, ClimbStep
<1>5. Climbing(from, a, w)[k] = Step(s, y)
  BY <1>2, <1>3, ClimbStep
<1>6. Step(s, x).surplus = FALSE
  <2>1. Len(v) \in Nat /\ k \in 0 .. Len(v)
    OBVIOUS
  <2>2. Climbing(from, a, v)[k].surplus = FALSE
    BY <2>1, NoSurplusBefore
  <2> QED
    BY <1>4, <2>2
<1>7. s.at.sn # 0
  BY <1>6, StepFacts
<1>8. Step(s, x).at = Step(s, y).at /\ Step(s, x).new # Step(s, y).new
  <2>0. x # y
    BY <1>3
  <2>1. CASE s.at.fn % 2 = 1 \/ s.at.fn = s.at.sn
    <3>1. Step(s, x).new = <<x, s.new>> /\ Step(s, y).new = <<y, s.new>> /\ Step(s, x).at = Step(s, y).at
      BY <1>7, <2>1 DEF Step
    <3> QED
      BY <2>0, <3>1
  <2>2. CASE ~(s.at.fn % 2 = 1 \/ s.at.fn = s.at.sn)
    <3>1. Step(s, x).new = <<s.new, x>> /\ Step(s, y).new = <<s.new, y>> /\ Step(s, x).at = Step(s, y).at
      BY <1>7, <2>2 DEF Step
    <3> QED
      BY <2>0, <3>1
  <2> QED
    BY <2>1, <2>2
<1>9. k \in 0 .. N /\ \A i \in 1 .. N : i > k => v[i] = w[i]
  OBVIOUS
<1> QED
  BY <1>4, <1>5, <1>8, <1>9, StayApart

\* A proof with one node changed.
LEMMA OneChanged ==
  ASSUME NEW T, NEW v \in Seq(T), NEW i \in 1 .. Len(v), NEW changed, changed # v[i]
  PROVE  LET w == [v EXCEPT ![i] = changed] IN
         /\ w \in Seq(T \cup {changed}) /\ Len(w) = Len(v) /\ w # <<>>
         /\ w[i] # v[i] /\ \A j \in 1 .. Len(v) : j # i => w[j] = v[j]
<1> DEFINE U == T \cup {changed}
<1>1. v \in Seq(U) /\ changed \in U
  OBVIOUS
<1>2. PICK w : w = [v EXCEPT ![i] = changed]
  OBVIOUS
<1> HIDE DEF U
<1>3. w \in Seq(U)
  BY <1>1, <1>2, ExceptSeq
<1>4. Len(w) = Len(v)
  BY <1>1, <1>2, ExceptSeq
<1>5. \A j \in 1 .. Len(v) : w[j] = IF j = i THEN changed ELSE v[j]
  BY <1>1, <1>2, ExceptSeq
<1>6. w # <<>>
  <2>1. Len(w) # 0
    BY <1>4
  <2> QED
    BY <2>1
<1> QED
  BY <1>2, <1>3, <1>4, <1>5, <1>6 DEF U

\* A path of which the head, the start, or another node differs.
LEMMA AnyApart ==
  ASSUME NEW from, NEW T, NEW v \in Seq(T), NEW w \in Seq(T), NEW n \in Nat, Len(v) = n, Len(w) = n,
         NEW i \in 1 .. n, w[i] # v[i], \A j \in 1 .. n : j # i => w[j] = v[j],
         Climb(from, Head(v), Tail(v)).surplus = FALSE
  PROVE  Climb(from, Head(v), Tail(v)).new # Climb(from, Head(w), Tail(w)).new
<1>1. PICK a, b, tv, tw, N : a = Head(v) /\ b = Head(w) /\ tv = Tail(v) /\ tw = Tail(w) /\ N = n - 1
  OBVIOUS
<1>2. v # <<>> /\ w # <<>> /\ N \in Nat /\ n >= 1 /\ n = N + 1
  BY <1>1
<1>3. /\ Len(tv) = N /\ tv \in Seq(T) /\ a = v[1]
      /\ \A j \in 1 .. N : tv[j] = v[j + 1]
  BY <1>1, <1>2, HeadTailProperties
<1>4. /\ Len(tw) = N /\ tw \in Seq(T) /\ b = w[1]
      /\ \A j \in 1 .. N : tw[j] = w[j + 1]
  BY <1>1, <1>2, HeadTailProperties
<1>5. \A j \in 1 .. N : j + 1 \in 1 .. n /\ j + 1 # 1
  BY <1>2
<1>6. CASE i = 1
  <2>1. a # b
    BY <1>3, <1>4, <1>6
  <2>2. \A j \in 1 .. N : tv[j] = tw[j]
    BY <1>3, <1>4, <1>5, <1>6
  <2>3. tv = tw
    BY <1>3, <1>4, <2>2, SeqEqual
  <2>4. Len(tv) \in Nat
    BY <1>2, <1>3
  <2>5. Climb(from, a, tv).new # Climb(from, b, tv).new
    BY <2>1, <2>4, StartApart
  <2> QED
    BY <1>1, <2>3, <2>5
<1>7. CASE i # 1
  <2>1. PICK k : k = i - 1
    OBVIOUS
  <2>2. k \in 1 .. N /\ k + 1 = i /\ 1 \in 1 .. n
    BY <1>2, <1>7, <2>1
  <2>3. a = b
    BY <1>3, <1>4, <1>7, <2>2
  <2>4. tv[k] # tw[k]
    BY <1>3, <1>4, <2>2
  <2>5. \A j \in 1 .. N : j # k => tv[j] = tw[j]
    <3>1. \A j \in 1 .. N : j # k => j + 1 # i
      BY <2>2
    <3> QED
      BY <1>3, <1>4, <1>5, <3>1
  <2>6. Climb(from, a, tv).surplus = FALSE
    BY <1>1
  <2>7. Climb(from, a, tv).new # Climb(from, a, tw).new
    <3>1. N \in Nat /\ Len(tv) = N /\ Len(tw) = N /\ k \in 1 .. N
      BY <1>2, <1>3, <1>4, <2>2
    <3> QED
      BY <2>4, <2>5, <2>6, <3>1, PathApart
  <2> QED
    BY <1>1, <2>3, <2>7
<1> QED
  BY <1>6, <1>7

\* Whatever node is changed, the climb does not build the root.
LEMMA ChangedRefused ==
  ASSUME NEW log \in Logs, NEW m \in 1 .. Len(log), m # Len(log),
         NEW i \in 1 .. Len(Subproof[log][m][TRUE]), NEW changed, changed # Subproof[log][m][TRUE][i]
  PROVE  Follow(Prior(log, m), log, [Subproof[log][m][TRUE] EXCEPT ![i] = changed]).new # Tree[log]
<1>1. PICK v : v = Subproof[log][m][TRUE]
  OBVIOUS
<1>0. PICK tree, p : tree = Tree[Prior(log, m)] /\ p = From(log, m)
  OBVIOUS
<1>2. PICK w : w = [v EXCEPT ![i] = changed]
  OBVIOUS
<1>3. tree \in Trees /\ v \in Seq(Trees) /\ v # <<>>
  BY <1>0, <1>1, PriorFacts, Follows DEF Trees
<1>4. i \in 1 .. Len(v) /\ changed # v[i]
  BY <1>1
<1> DEFINE T == Trees \cup {changed}
<1>5. tree \in T /\ v \in Seq(T)
  BY <1>3
<1>6. w \in Seq(T)
  BY <1>2, <1>3, <1>4, OneChanged
<1> HIDE DEF T
<1>7. Len(w) = Len(v) /\ w # <<>> /\ w[i] # v[i] /\ \A j \in 1 .. Len(v) : j # i => w[j] = v[j]
  BY <1>2, <1>3, <1>4, OneChanged
<1>8. Follow(Prior(log, m), log, v).surplus = FALSE /\ Follow(Prior(log, m), log, v).new = Tree[log]
  BY <1>1, Follows DEF Done
<1>9. PICK n : n = Len(v)
  OBVIOUS
<1>10. n \in Nat
  BY <1>3, <1>9
<1>11. CASE m \in Powers
  <2>1. PICK av, aw : av = <<tree>> \o v /\ aw = <<tree>> \o w
    OBVIOUS
  <2>2. Head(av) = tree /\ Tail(av) = v
    BY <1>5, <2>1
  <2>3. Head(aw) = tree /\ Tail(aw) = w
    BY <1>5, <1>6, <2>1
  <2>4. Along(log, m, v) = av /\ Along(log, m, w) = aw
    BY <1>0, <1>11, <2>1 DEF Along
  <2>5. Follow(Prior(log, m), log, v) = Climb(p, tree, v)
    BY <1>0, <1>3, <2>2, <2>4, FollowAlong
  <2>6. Follow(Prior(log, m), log, w) = Climb(p, tree, w)
    BY <1>0, <1>7, <2>3, <2>4, FollowAlong
  <2>7. Climb(p, tree, v).surplus = FALSE
    BY <1>8, <2>5
  <2>8. Climb(p, tree, v).new # Climb(p, tree, w).new
    BY <1>4, <1>7, <1>9, <1>10, <2>7, PathApart
  <2> QED
    BY <1>1, <1>2, <1>8, <2>5, <2>6, <2>8
<1>12. CASE m \notin Powers
  <2>1. Along(log, m, v) = v /\ Along(log, m, w) = w
    BY <1>12 DEF Along
  <2>2. Follow(Prior(log, m), log, v) = Climb(p, Head(v), Tail(v))
    BY <1>0, <1>3, <2>1, FollowAlong
  <2>3. Follow(Prior(log, m), log, w) = Climb(p, Head(w), Tail(w))
    BY <1>0, <1>7, <2>1, FollowAlong
  <2>4. Climb(p, Head(v), Tail(v)).surplus = FALSE
    BY <1>8, <2>2
  <2>5. Climb(p, Head(v), Tail(v)).new # Climb(p, Head(w), Tail(w)).new
    BY <1>4, <1>5, <1>6, <1>7, <1>9, <1>10, <2>4, AnyApart
  <2> QED
    BY <1>1, <1>2, <1>8, <2>2, <2>3, <2>5
<1> QED
  BY <1>11, <1>12

\* Whether a consistency proof leads to the larger log, and from the smaller one.
Arrives(known, log, proof) ==
  LET end == Follow(known, log, proof) IN
  end.at.sn = 0 /\ ~end.surplus /\ end.new = Tree[log]

Connects(known, log, proof) ==
  Arrives(known, log, proof) /\ Follow(known, log, proof).old = Tree[known]

\* A mutilated consistency proof is refused: without its last node, with one
\* more behind it, or with another node in any one place, the climb does not
\* arrive, has nodes left, or ends in another root, even for a client that looks
\* at the new root only. For every log and every beginning of it: the three
\* mutations of consistency_vectors.py.
THEOREM MutilatedProofsRefused ==
  \A log \in Logs : \A m \in 1 .. Len(log) - 1 :
    LET known == SubSeq(log, 1, m)
        proof == Subproof[log][m][TRUE] IN
    /\ ~Arrives(known, log, Front(proof))
    /\ \A node : ~Arrives(known, log, Append(proof, node))
    /\ \A i \in 1 .. Len(proof) : \A node :
         node # proof[i] => ~Arrives(known, log, [proof EXCEPT ![i] = node])
<1> SUFFICES ASSUME NEW log \in Logs, NEW m \in 1 .. Len(log) - 1
             PROVE  LET known == SubSeq(log, 1, m)
                        proof == Subproof[log][m][TRUE] IN
                    /\ ~Arrives(known, log, Front(proof))
                    /\ \A node : ~Arrives(known, log, Append(proof, node))
                    /\ \A i \in 1 .. Len(proof) : \A node :
                         node # proof[i] => ~Arrives(known, log, [proof EXCEPT ![i] = node])
  OBVIOUS
<1>1. m \in 1 .. Len(log) /\ m # Len(log)
  BY LogFacts
<1>2. ~Arrives(Prior(log, m), log, Front(Subproof[log][m][TRUE]))
  BY <1>1, ShortRefused DEF Arrives
<1>3. ASSUME NEW node PROVE ~Arrives(Prior(log, m), log, Append(Subproof[log][m][TRUE], node))
  BY <1>1, LongRefused DEF Arrives
<1>4. ASSUME NEW i \in 1 .. Len(Subproof[log][m][TRUE]), NEW node, node # Subproof[log][m][TRUE][i]
      PROVE  ~Arrives(Prior(log, m), log, [Subproof[log][m][TRUE] EXCEPT ![i] = node])
  BY <1>1, <1>4, ChangedRefused DEF Arrives
<1> QED
  BY <1>2, <1>3, <1>4 DEF Prior

-----------------------------------------------------------------------------
(* The suite.                                                              *)

Joined(f, seqs, i) == IF i = 1 THEN seqs[i] ELSE f[i - 1] \o seqs[i]

Joins(f, seqs, m) == f = [i \in 1 .. m |-> Joined(f, seqs, i)]

\* There are the concatenations of the first sequences.
LEMMA JoinExists ==
  ASSUME NEW seqs, NEW N \in Nat
  PROVE  \E f : Joins(f, seqs, N)
<1> DEFINE Solves(f, m) == f = [i \in 1 .. m |-> Joined(f, seqs, i)]
           Solved == {m \in Nat : \E f : Solves(f, m)}
<1>1. 0 \in Solved
  <2> DEFINE f == [i \in 1 .. 0 |-> seqs[i]]
  <2>1. Solves(f, 0)
    OBVIOUS
  <2> QED
    BY <2>1
<1>2. ASSUME NEW m \in Nat, m \in Solved PROVE m + 1 \in Solved
  <2>1. PICK f : Solves(f, m)
    BY <1>2
  <2> DEFINE g == [i \in 1 .. m + 1 |-> Joined(f, seqs, i)]
  <2>2. \A i \in 1 .. m : g[i] = f[i]
    BY <2>1
  <2>3. ASSUME NEW i \in 1 .. m + 1 PROVE Joined(f, seqs, i) = Joined(g, seqs, i)
    <3> HIDE DEF g
    <3>1. CASE i = 1
      BY <3>1 DEF Joined
    <3>2. CASE i # 1
      <4>1. i - 1 \in 1 .. m
        BY <3>2
      <4>2. g[i - 1] = f[i - 1]
        BY <2>2, <4>1
      <4> QED
        BY <4>2 DEF Joined
    <3> QED
      BY <3>1, <3>2
  <2>4. g = [i \in 1 .. m + 1 |-> Joined(g, seqs, i)]
    <3> DEFINE h == [i \in 1 .. m + 1 |-> Joined(g, seqs, i)]
    <3>1. \A i \in 1 .. m + 1 : g[i] = h[i]
      BY <2>3
    <3>2. g = h
      <4> HIDE DEF Solved, Solves
      <4> QED
        BY <3>1
    <3> QED
      BY <3>2
  <2> HIDE DEF g
  <2> QED
    BY <2>4
<1> HIDE DEF Solved
<1>3. N \in Solved
  BY <1>1, <1>2, Inductive
<1> QED
  BY <1>3 DEF Solved, Joins

\* What is flattened is a sequence of the same things.
LEMMA Flattened ==
  ASSUME NEW T, NEW seqs \in Seq(Seq(T))
  PROVE  FlattenSeq(seqs) \in Seq(T)
<1>1. PICK n : n = Len(seqs)
  OBVIOUS
<1>2. n \in Nat /\ \A i \in 1 .. n : seqs[i] \in Seq(T)
  BY <1>1
<1>3. CASE n = 0
  <2>1. FlattenSeq(seqs) = seqs
    BY <1>1, <1>3 DEF FlattenSeq
  <2>2. seqs = <<>>
    BY <1>1, <1>3, EmptySeq
  <2>3. <<>> \in Seq(T)
    OBVIOUS
  <2> QED
    BY <2>1, <2>2, <2>3
<1>4. CASE n # 0
  <2> DEFINE f == CHOOSE g : Joins(g, seqs, n)
  <2>1. Joins(f, seqs, n)
    BY <1>2, JoinExists
  <2>2. FlattenSeq(seqs) = f[n]
    BY <1>1, <1>4 DEF FlattenSeq, Joins, Joined
  <2> HIDE DEF f
  <2>3. \A i \in 1 .. n : f[i] = Joined(f, seqs, i)
    BY <2>1 DEF Joins
  <2> DEFINE S == {i \in Nat : f[i + 1] \in Seq(T)}
  <2>4. 0 \in S
    <3>1. 1 \in 1 .. n /\ 0 + 1 = 1
      BY <1>2, <1>4
    <3>2. f[1] = seqs[1]
      BY <2>3, <3>1 DEF Joined
    <3> QED
      BY <1>2, <3>1, <3>2
  <2>5. ASSUME NEW i \in Nat, i < n - 1, i \in S PROVE i + 1 \in S
    <3>1. PICK j : j = (i + 1) + 1
      OBVIOUS
    <3>2. j \in 1 .. n /\ j # 1 /\ j - 1 = i + 1 /\ i + 1 \in Nat
      BY <1>2, <2>5, <3>1
    <3>3. f[j] = f[i + 1] \o seqs[j]
      BY <2>3, <3>2 DEF Joined
    <3>4. PICK x, y : x = f[i + 1] /\ y = seqs[j]
      OBVIOUS
    <3>5. x \in Seq(T) /\ y \in Seq(T)
      BY <1>2, <2>5, <3>2, <3>4
    <3>6. x \o y \in Seq(T)
      BY <3>5
    <3> QED
      BY <3>1, <3>2, <3>3, <3>4, <3>6
  <2> HIDE DEF S
  <2>6. 0 .. n - 1 \subseteq S
    <3>1. n - 1 \in Nat
      BY <1>2, <1>4
    <3> QED
      BY <2>4, <2>5, <3>1, Inductive
  <2>7. n - 1 \in S /\ (n - 1) + 1 = n
    BY <1>2, <1>4, <2>6
  <2> QED
    BY <2>2, <2>7 DEF S
<1> QED
  BY <1>3, <1>4

\* The cases of a size and a larger one: the proof as it is, and mutilated.
Grows(m, n) ==
  [Basic(Evidence(Sized(m)), Proving(Sized(n), 1)) EXCEPT
     !.mode = "proof", !.proof = Subproof[Sized(n)][m][TRUE]]

Refused(m, n, proof) == [[Grows(m, n) EXCEPT !.category = "LOG_INCONSISTENT"] EXCEPT !.proof = proof]

Mutilations(valid) ==
  {Front(valid), Append(valid, Zero)}
  \cup {[valid EXCEPT ![i] = Changed(valid[i])] : i \in DOMAIN valid}

CasesOf(m, n) ==
  {Grows(m, n)} \cup {Refused(m, n, proof) : proof \in Mutilations(Subproof[Sized(n)][m][TRUE])}

Cases ==
  {Continuing[i] : i \in 1 .. 15}
  \cup UNION {UNION {CasesOf(m, n) : m \in 1 .. n - 1} : n \in 1 .. MaxSize}

\* A log of every size up to MaxSize, each the beginning of the next.
LEMMA SizedFacts ==
  ASSUME NEW n \in 1 .. MaxSize
  PROVE  /\ Sized(n) \in Logs /\ Len(Sized(n)) = n
         /\ \A m \in 1 .. n : Sized(m) = Prior(Sized(n), m)
<1>1. \A k \in 1 .. MaxSize : Sized(k) \in Logs /\ Len(Sized(k)) = k
  <2> SUFFICES ASSUME NEW k \in 1 .. MaxSize PROVE Sized(k) \in Logs /\ Len(Sized(k)) = k
    OBVIOUS
  <2>1. \A i \in 1 .. k : (IF i = 1 THEN "issuance" ELSE Fillers[i - 1]) \in Leaves
    <3>1. \A i \in 1 .. k : i # 1 => i - 1 \in 1 .. Len(Fillers)
      BY FillersAssumption, SizeAssumption
    <3>2. \A i \in 1 .. k : i # 1 => Fillers[i - 1] \in Leaves
      BY <3>1, FillersAssumption, ElementOfSeq
    <3>3. "issuance" \in Leaves
      BY EntriesAssumption
    <3> QED
      BY <3>2, <3>3
  <2>2. k \in Nat
    BY SizeAssumption
  <2>3. Sized(k) \in Seq(Leaves) /\ Len(Sized(k)) = k
    BY <2>1, <2>2 DEF Sized
  <2> QED
    BY <2>3 DEF Logs
<1>2. ASSUME NEW m \in 1 .. n PROVE Sized(m) = Prior(Sized(n), m)
  <2>1. m \in 1 .. MaxSize /\ m \in 1 .. Len(Sized(n)) /\ Sized(n) \in Logs
    BY <1>1, SizeAssumption
  <2>2. PICK p : p = Prior(Sized(n), m)
    OBVIOUS
  <2>3. p \in Seq(Leaves) /\ Len(p) = m /\ \A i \in 1 .. m : p[i] = Sized(n)[i]
    BY <2>1, <2>2, PriorFacts, LogFacts
  <2>4. PICK q : q = Sized(m)
    OBVIOUS
  <2>5. q \in Seq(Leaves) /\ Len(q) = m
    BY <1>1, <2>1, <2>4, LogFacts
  <2>6. \A i \in 1 .. m : p[i] = q[i]
    <3> SUFFICES ASSUME NEW i \in 1 .. m PROVE p[i] = q[i]
      OBVIOUS
    <3>1. i \in 1 .. n
      BY SizeAssumption
    <3>2. Sized(n)[i] = Sized(m)[i]
      BY <3>1 DEF Sized
    <3> QED
      BY <2>3, <2>4, <3>2
  <2>7. p = q
    BY <2>3, <2>5, <2>6, SeqEqual
  <2> QED
    BY <2>2, <2>4, <2>7
<1> QED
  BY <1>1, <1>2

\* Consistency builds such cases.
LEMMA ConsistencyTyped ==
  ASSUME NEW n \in 1 .. MaxSize, NEW m \in 1 .. n - 1
  PROVE  Consistency(m, n) \in Seq(CasesOf(m, n))
<1>1. PICK valid : valid = Subproof[Sized(n)][m][TRUE]
  OBVIOUS
<1>2. valid \in Seq(Trees)
  <2>1. Sized(n) \in Logs /\ Len(Sized(n)) = n
    BY SizedFacts
  <2>2. m \in 1 .. Len(Sized(n)) /\ m # Len(Sized(n))
    BY <2>1, SizeAssumption
  <2> QED
    BY <1>1, <2>1, <2>2, Follows
<1>3. PICK grows : grows = Grows(m, n)
  OBVIOUS
<1>4. PICK refused : refused = [grows EXCEPT !.category = "LOG_INCONSISTENT"]
  OBVIOUS
<1>5. PICK front, more : /\ front = [refused EXCEPT !.proof = Front(valid)]
                         /\ more = [refused EXCEPT !.proof = Append(valid, Zero)]
  OBVIOUS
<1> DEFINE changed == [i \in DOMAIN valid |-> [refused EXCEPT !.proof = [valid EXCEPT ![i] = Changed(valid[i])]]]
<1>6. Consistency(m, n) = <<grows, front, more>> \o changed
  BY <1>1, <1>3, <1>4, <1>5 DEF Consistency, Grows
<1>7. \A proof : Refused(m, n, proof) = [refused EXCEPT !.proof = proof]
  BY <1>3, <1>4 DEF Refused
<1>8. front = Refused(m, n, Front(valid)) /\ more = Refused(m, n, Append(valid, Zero))
  BY <1>5, <1>7
<1>9. grows \in CasesOf(m, n) /\ front \in CasesOf(m, n) /\ more \in CasesOf(m, n)
  BY <1>1, <1>3, <1>8 DEF CasesOf, Mutilations
<1>10. \A i \in DOMAIN valid : changed[i] \in CasesOf(m, n)
  <2> SUFFICES ASSUME NEW i \in DOMAIN valid PROVE changed[i] \in CasesOf(m, n)
    OBVIOUS
  <2>1. changed[i] = Refused(m, n, [valid EXCEPT ![i] = Changed(valid[i])])
    BY <1>7
  <2>2. [valid EXCEPT ![i] = Changed(valid[i])] \in Mutilations(valid)
    BY DEF Mutilations
  <2> HIDE DEF changed
  <2> QED
    BY <1>1, <2>1, <2>2 DEF CasesOf
<1>11. DOMAIN changed = 1 .. Len(valid) /\ DOMAIN valid = 1 .. Len(valid) /\ Len(valid) \in Nat
  BY <1>2
<1>12. changed \in Seq(CasesOf(m, n))
  <2>1. changed = [i \in 1 .. Len(valid) |-> changed[i]]
    BY <1>11
  <2> HIDE DEF changed
  <2> QED
    BY <1>10, <1>11, <2>1
<1> HIDE DEF changed
<1>13. <<grows, front, more>> \in Seq(CasesOf(m, n))
  BY <1>9
<1> QED
  BY <1>6, <1>12, <1>13

\* The suite consists of those and the fifteen.
LEMMA SuiteTyped ==
  Suite \in Seq(Cases) /\ Len(Suite) >= 1
<1>0. MaxSize \in Nat
  BY SizeAssumption
<1>1. ASSUME NEW n \in 1 .. MaxSize
      PROVE  FlattenSeq([m \in 1 .. n - 1 |-> Consistency(m, n)]) \in Seq(Cases)
  <2> DEFINE s == [m \in 1 .. n - 1 |-> Consistency(m, n)]
  <2>1. \A m \in 1 .. n - 1 : s[m] \in Seq(Cases)
    <3> SUFFICES ASSUME NEW m \in 1 .. n - 1 PROVE Consistency(m, n) \in Seq(Cases)
      OBVIOUS
    <3>1. CasesOf(m, n) \subseteq Cases
      BY DEF Cases
    <3>2. Consistency(m, n) \in Seq(CasesOf(m, n))
      BY ConsistencyTyped
    <3> QED
      BY <3>1, <3>2, SeqMonotonic
  <2>2. s \in Seq(Seq(Cases))
    <3>1. n - 1 \in Nat /\ DOMAIN s = 1 .. n - 1 /\ s = [m \in 1 .. n - 1 |-> s[m]]
      BY <1>0
    <3> HIDE DEF s
    <3> QED
      BY <2>1, <3>1
  <2> HIDE DEF s
  <2>3. FlattenSeq(s) \in Seq(Cases)
    BY <2>2, Flattened
  <2> QED
    BY <2>3 DEF s
<1>2. ConsistencyCases \in Seq(Cases)
  <2> DEFINE s == [n \in 1 .. MaxSize |-> FlattenSeq([m \in 1 .. n - 1 |-> Consistency(m, n)])]
  <2>1. \A n \in 1 .. MaxSize : s[n] \in Seq(Cases)
    BY <1>1
  <2>2. s \in Seq(Seq(Cases))
    <3>1. s = [n \in 1 .. MaxSize |-> s[n]]
      OBVIOUS
    <3> HIDE DEF s
    <3> QED
      BY <1>0, <2>1, <3>1
  <2>3. ConsistencyCases = FlattenSeq(s)
    BY DEF ConsistencyCases
  <2> HIDE DEF s
  <2> QED
    BY <2>2, <2>3, Flattened
<1>3. Continuing \in Seq(Cases) /\ Len(Continuing) = 15
  <2>1. \A i \in 1 .. 15 : Continuing[i] \in Cases
    BY DEF Cases
  <2>2. Len(Continuing) = 15 /\ DOMAIN Continuing = 1 .. 15 /\ Continuing = [i \in 1 .. 15 |-> Continuing[i]]
    BY DEF Continuing
  <2> QED
    BY <2>1, <2>2
<1>4. PICK a, b : a = Continuing /\ b = ConsistencyCases
  OBVIOUS
<1>5. a \o b \in Seq(Cases) /\ Len(a \o b) >= 1
  <2>1. a \in Seq(Cases) /\ b \in Seq(Cases)
    BY <1>2, <1>3, <1>4
  <2>2. a \o b \in Seq(Cases) /\ Len(a \o b) = Len(a) + Len(b)
    BY <2>1, ConcatProperties
  <2>3. Len(a) = 15 /\ Len(b) \in Nat
    BY <1>3, <1>4, <2>1, LenProperties
  <2> QED
    BY <2>2, <2>3
<1> QED
  BY <1>4, <1>5 DEF Suite

-----------------------------------------------------------------------------
(* What the client of design 11 answers to a case: its verdict, by the     *)
(* case alone.                                                             *)

Claims(c) == c.candidate.signed /\ (c.mode = "scan" => c.scan = c.candidate.log)

Leads(c) == Connects(c.trusted.log, c.candidate.log, c.proof)

Lost ==
  [class |-> "verification", category |-> "CHECKPOINT_STORE_ERROR", transient |-> FALSE, cause |-> TRUE,
   diagnostics |-> <<>>]
Unfetched ==
  [class |-> "verification", category |-> "none", transient |-> TRUE, cause |-> TRUE, diagnostics |-> <<>>]
Contradicts(c, category) ==
  [class |-> "continuity", category |-> category, transient |-> FALSE, cause |-> FALSE,
   diagnostics |-> <<c.trusted.log, c.candidate.log>>]
Written(c) == IF c.fault = "write" THEN Lost ELSE NoError

Verdict(c) ==
  LET known == c.trusted.log
      log == c.candidate.log IN
  IF ~Claims(c) THEN Invalid
  ELSE IF c.fault = "load" THEN Lost
  ELSE IF known = None THEN Written(c)
  ELSE IF Len(log) < Len(known) THEN Contradicts(c, "LOG_ROLLBACK")
  ELSE IF Len(log) = Len(known) THEN (IF known = log THEN Written(c) ELSE Contradicts(c, "LOG_FORK"))
  ELSE IF c.mode = "missing" THEN Unavailable
  ELSE IF c.mode = "proof"
    THEN IF c.fault = "proof-fetch" THEN Unfetched
         ELSE IF Leads(c) THEN Written(c) ELSE Contradicts(c, "LOG_INCONSISTENT")
  ELSE IF IsPrefix(known, c.scan) THEN Written(c) ELSE Contradicts(c, "LOG_INCONSISTENT")

\* A case whose evidence is what it claims to be, but for the signature.
Sound(c) ==
  /\ c.trusted = nothing \/ c.trusted.signed
  /\ \A i \in DOMAIN c.candidate.paths : Included(c.candidate.log, i - 1, c.candidate.paths[i])

\* The expectations of a case are those of the verdict.
Expected(c) ==
  LET v == Verdict(c) IN
  /\ v.class # "dependency"
  /\ v = NoError <=> ~Rejected(c)
  /\ Rejected(c) => v.transient = (c.fault = "proof-fetch")
  /\ c.category # "none" => v.category = c.category
  /\ c.category \in Continuity => v.diagnostics = <<c.trusted.log, c.candidate.log>>
  /\ c.fault # "none" => v.cause = TRUE
  /\ c.mode = "missing" => v.class = "unavailable"
  /\ c.mode = "proof" =>
       c.fault # "load" /\ c.trusted.log # None /\ Len(c.candidate.log) > Len(c.trusted.log)

\* By the verdict: the candidate is accepted.
LEMMA Accepted ==
  ASSUME NEW c, Verdict(c) = NoError, c.category = "none", c.fault = "none", c.mode # "missing",
         c.mode = "proof" => c.trusted.log # None /\ Len(c.candidate.log) > Len(c.trusted.log)
  PROVE  Expected(c)
<1>1. PICK v : v = Verdict(c) /\ v = NoError
  OBVIOUS
<1>2. v.class = "none"
  BY <1>1 DEF NoError, Raise
<1>3. Rejected(c) = FALSE /\ c.category \notin Continuity
  BY DEF Rejected, Continuity
<1> HIDE DEF NoError
<1> QED
  BY <1>1, <1>2, <1>3 DEF Expected

\* The candidate contradicts the stored log.
LEMMA Contradicted ==
  ASSUME NEW c, Verdict(c) = Contradicts(c, c.category), c.category # "none", c.fault = "none",
         c.mode # "missing",
         c.mode = "proof" => c.trusted.log # None /\ Len(c.candidate.log) > Len(c.trusted.log)
  PROVE  Expected(c)
<1>1. PICK v : v = Verdict(c) /\ v = Contradicts(c, c.category)
  OBVIOUS
<1>2. /\ v.class = "continuity" /\ v.category = c.category /\ v.transient = FALSE
      /\ v.diagnostics = <<c.trusted.log, c.candidate.log>>
  BY <1>1 DEF Contradicts
<1>3. v # NoError
  BY <1>2 DEF NoError, Raise
<1>4. Rejected(c) = TRUE
  BY DEF Rejected
<1> HIDE DEF NoError
<1> QED
  BY <1>1, <1>2, <1>3, <1>4 DEF Expected

\* The evidence is not what it claims to be.
LEMMA Disproved ==
  ASSUME NEW c, Verdict(c) = Invalid, c.category = "INVALID_EVIDENCE", c.fault = "none", c.mode = "scan"
  PROVE  Expected(c)
<1>1. PICK v : v = Verdict(c) /\ v = Invalid
  OBVIOUS
<1>2. v.class = "verification" /\ v.category = "INVALID_EVIDENCE" /\ v.transient = FALSE
  BY <1>1 DEF Invalid, Raise
<1>3. v # NoError
  BY <1>2 DEF NoError, Raise
<1>4. Rejected(c) = TRUE /\ c.category \notin Continuity
  BY DEF Rejected, Continuity
<1> HIDE DEF NoError
<1> QED
  BY <1>1, <1>2, <1>3, <1>4 DEF Expected

\* The store cannot be read or written.
LEMMA StoreFailed ==
  ASSUME NEW c, Verdict(c) = Lost, c.category = "CHECKPOINT_STORE_ERROR", c.mode = "scan",
         c.fault # "none", c.fault # "proof-fetch"
  PROVE  Expected(c)
<1>1. PICK v : v = Verdict(c) /\ v = Lost
  OBVIOUS
<1>2. v.class = "verification" /\ v.category = "CHECKPOINT_STORE_ERROR" /\ v.transient = FALSE /\ v.cause = TRUE
  BY <1>1 DEF Lost
<1>3. v # NoError
  BY <1>2 DEF NoError, Raise
<1>4. Rejected(c) = TRUE /\ c.category \notin Continuity
  BY DEF Rejected, Continuity
<1> HIDE DEF NoError
<1> QED
  BY <1>1, <1>2, <1>3, <1>4 DEF Expected

\* Each audit path of a bundle leads to the root of its log.
LEMMA EvidenceSound ==
  ASSUME NEW log \in Logs
  PROVE  \A i \in DOMAIN Evidence(log).paths : Included(log, i - 1, Evidence(log).paths[i])
<1>1. DOMAIN Evidence(log).paths = 1 .. Len(log)
  BY DEF Evidence, Proving
<1>2. ASSUME NEW i \in 1 .. Len(log) PROVE Included(log, i - 1, Evidence(log).paths[i])
  <2>1. i - 1 \in 0 .. Len(log) - 1
    BY LogFacts
  <2>2. Evidence(log).paths[i] = AuditPath[log][i - 1]
    BY DEF Evidence, Proving
  <2> QED
    BY <2>1, <2>2, AuditPathsInclude
<1> QED
  BY <1>1, <1>2

\* So does the one path of a bundle that proves the first entry.
LEMMA FirstSound ==
  ASSUME NEW log \in Logs
  PROVE  \A i \in DOMAIN Proving(log, 1).paths : Included(log, i - 1, Proving(log, 1).paths[i])
<1>1. DOMAIN Proving(log, 1).paths = 1 .. 1
  BY DEF Proving
<1>2. ASSUME NEW i \in 1 .. 1 PROVE Included(log, i - 1, Proving(log, 1).paths[i])
  <2>1. i - 1 \in 0 .. Len(log) - 1
    BY LogFacts
  <2>2. Proving(log, 1).paths[i] = AuditPath[log][i - 1]
    BY DEF Proving
  <2> QED
    BY <2>1, <2>2, AuditPathsInclude
<1> QED
  BY <1>1, <1>2

\* The logs of the fifteen sequences.
LEMMA ShortLogs ==
  /\ <<"issuance">> \in Logs /\ <<"issuance", "rotation">> \in Logs /\ <<"alternate">> \in Logs
  /\ Len(<<"issuance">>) = 1 /\ Len(<<"issuance", "rotation">>) = 2 /\ Len(<<"alternate">>) = 1
  /\ <<"issuance">> # None /\ <<"alternate">> # None /\ <<"issuance", "rotation">> # None
  /\ <<"alternate">> # <<"issuance">>
<1>1. "issuance" \in Leaves /\ "rotation" \in Leaves /\ "alternate" \in Leaves
  BY EntriesAssumption
<1>2. 1 \in 1 .. MaxSize /\ 2 \in 1 .. MaxSize
  BY SizeAssumption
<1> QED
  BY <1>1, <1>2 DEF Logs, None

\* The checkpoints and bundles of the fifteen sequences.
LEMMA EvidenceFacts ==
  /\ first.log = <<"issuance">> /\ first.signed = TRUE
  /\ grown.log = <<"issuance", "rotation">> /\ grown.signed = TRUE
  /\ other.log = <<"alternate">> /\ other.signed = TRUE
  /\ forged.log = grown.log /\ forged.signed = FALSE /\ forged.paths = grown.paths
  /\ nothing.log = None /\ nothing.paths = <<>>
BY DEF first, grown, other, forged, nothing, Evidence, Proving

\* The candidates of the fifteen sequences prove what they claim.
LEMMA CandidatesSound ==
  /\ \A i \in DOMAIN first.paths : Included(first.log, i - 1, first.paths[i])
  /\ \A i \in DOMAIN grown.paths : Included(grown.log, i - 1, grown.paths[i])
  /\ \A i \in DOMAIN forged.paths : Included(forged.log, i - 1, forged.paths[i])
<1>1. first = Evidence(first.log) /\ grown = Evidence(grown.log) /\ first.log \in Logs /\ grown.log \in Logs
  BY EvidenceFacts, ShortLogs DEF first, grown
<1>2. \A i \in DOMAIN first.paths : Included(first.log, i - 1, first.paths[i])
  BY <1>1, EvidenceSound
<1>3. \A i \in DOMAIN grown.paths : Included(grown.log, i - 1, grown.paths[i])
  BY <1>1, EvidenceSound
<1> QED
  BY <1>2, <1>3, EvidenceFacts

\* A log of one entry is the beginning of another, or is not, by its entry.
LEMMA Beginning ==
  ASSUME NEW T, NEW s \in Seq(T), Len(s) >= 1
  PROVE  SubSeq(s, 1, 1) = <<s[1]>>
<1>1. PICK a, b : a = SubSeq(s, 1, 1) /\ b = <<s[1]>>
  OBVIOUS
<1>2. a \in Seq(T) /\ Len(a) = 1 /\ a[1] = s[1]
  BY <1>1
<1>3. b \in Seq(T) /\ Len(b) = 1 /\ b[1] = s[1]
  <2>1. s[1] \in T
    OBVIOUS
  <2> QED
    BY <1>1, <2>1
<1>4. \A i \in 1 .. Len(a) : a[i] = b[i]
  <2>1. \A i \in 1 .. Len(a) : i = 1
    BY <1>2
  <2> QED
    BY <1>2, <1>3, <2>1
<1> QED
  BY <1>1, <1>2, <1>3, <1>4, SeqEqual

\* The one-entry logs of the suite, against its log of two.
LEMMA Beginnings ==
  /\ SubSeq(<<"issuance", "rotation">>, 1, 1) = <<"issuance">>
  /\ IsPrefix(<<"issuance">>, <<"issuance", "rotation">>) = TRUE
  /\ IsPrefix(<<"alternate">>, <<"issuance", "rotation">>) = FALSE
<1>1. PICK a, b, s : a = <<"issuance">> /\ b = <<"alternate">> /\ s = <<"issuance", "rotation">>
  OBVIOUS
<1>2. /\ a \in Seq(Leaves) /\ b \in Seq(Leaves) /\ s \in Seq(Leaves)
      /\ Len(a) = 1 /\ Len(b) = 1 /\ Len(s) = 2
  BY <1>1, ShortLogs, LogFacts
<1>3. a[1] = "issuance" /\ b[1] = "alternate" /\ s[1] = "issuance"
  BY <1>1
<1>4. SubSeq(a, 1, 1) = a /\ SubSeq(s, 1, 1) = a /\ SubSeq(b, 1, 1) = b /\ a # b
  <2>1. 1 >= 1 /\ 2 >= 1
    OBVIOUS
  <2>2. SubSeq(a, 1, 1) = <<a[1]>>
    BY <1>2, <2>1, Beginning
  <2>3. SubSeq(b, 1, 1) = <<b[1]>>
    BY <1>2, <2>1, Beginning
  <2>4. SubSeq(s, 1, 1) = <<s[1]>>
    BY <1>2, <2>1, Beginning
  <2> QED
    BY <1>1, <1>3, <2>2, <2>3, <2>4
<1>5. IsPrefix(a, s) /\ ~IsPrefix(b, s)
  BY <1>2, <1>4 DEF IsPrefix
<1> QED
  BY <1>1, <1>4, <1>5

\* The proof of the growth from one entry to two, and 32 zero bytes for a proof.
LEMMA GrowthLeads ==
  LET known == <<"issuance">>
      log == <<"issuance", "rotation">>
      end == Follow(known, log, Growth) IN
  /\ end.at.sn = 0 /\ ~end.surplus /\ end.old = Tree[known] /\ end.new = Tree[log]
<1>1. PICK known, log : known = <<"issuance">> /\ log = <<"issuance", "rotation">>
  OBVIOUS
<1>2. log \in Logs /\ Len(log) = 2 /\ 1 \in 1 .. Len(log) - 1
  BY <1>1, ShortLogs
<1>3. SubSeq(log, 1, 1) = known
  BY <1>1, Beginnings
<1>4. Growth = Subproof[log][1][TRUE]
  BY <1>1, EvidenceFacts DEF Growth
<1>5. PICK end : end = Follow(SubSeq(log, 1, 1), log, Subproof[log][1][TRUE])
  OBVIOUS
<1>6. ~end.surplus /\ end.at.sn = 0 /\ end.old = Tree[SubSeq(log, 1, 1)] /\ end.new = Tree[log]
  BY <1>2, <1>5, ConsistencyProofsLead
<1> QED
  BY <1>1, <1>3, <1>4, <1>5, <1>6

\* What is left of a proof behind its head.
LEMMA OneBefore ==
  ASSUME NEW T, NEW a \in Seq(T), NEW b \in Seq(T), Len(a) = 1
  PROVE  Head(a \o b) = a[1] /\ Tail(a \o b) = b
<1>1. PICK w, n : w = a \o b /\ n = Len(b)
  OBVIOUS
<1>2. /\ n \in Nat /\ w \in Seq(T) /\ Len(w) = n + 1 /\ w[1] = a[1]
      /\ \A i \in 1 .. n : w[i + 1] = b[i]
  <2>1. /\ w \in Seq(T) /\ n \in Nat /\ Len(w) = 1 + n
        /\ \A i \in 1 .. 1 + n : w[i] = IF i <= 1 THEN a[i] ELSE b[i - 1]
    <3>1. PICK one : one = Len(a) /\ one = 1
      OBVIOUS
    <3>2. /\ w \in Seq(T) /\ Len(w) = one + n
          /\ \A i \in 1 .. one + n : w[i] = IF i <= one THEN a[i] ELSE b[i - one]
      BY <1>1, <3>1, ConcatProperties
    <3>3. n \in Nat
      BY <1>1
    <3> QED
      BY <3>1, <3>2, <3>3
  <2>2. w[1] = a[1]
    BY <2>1
  <2>3. ASSUME NEW i \in 1 .. n PROVE w[i + 1] = b[i]
    <3>1. i + 1 \in 1 .. 1 + n /\ ~(i + 1 <= 1) /\ (i + 1) - 1 = i
      BY <2>1
    <3> QED
      BY <2>1, <3>1
  <2> QED
    BY <2>1, <2>2, <2>3
<1>3. PICK v : v = Tail(w)
  OBVIOUS
<1>4. w # <<>>
  BY <1>2
<1>5. v \in Seq(T) /\ Len(v) = n /\ \A i \in 1 .. n : v[i] = w[i + 1]
  BY <1>2, <1>3, <1>4
<1>6. v = b
  BY <1>1, <1>2, <1>5, SeqEqual
<1>7. Head(w) = w[1]
  BY <1>2, <1>4
<1> QED
  BY <1>1, <1>2, <1>3, <1>6, <1>7

\* 32 zero bytes for a proof lead to another root.
LEMMA ZeroMisleads ==
  Follow(<<"issuance">>, <<"issuance", "rotation">>, <<Zero>>).new # Tree[<<"issuance", "rotation">>]
<1>1. PICK known, log, p, tree : /\ known = <<"issuance">> /\ log = <<"issuance", "rotation">>
                                 /\ p = [fn |-> 0, sn |-> 1] /\ tree = Tree[known]
  OBVIOUS
<1>2. known \in Logs /\ log \in Logs /\ Len(log) = 2 /\ Len(known) = 1
  BY <1>1, ShortLogs
<1>3. 1 \in Powers
  <2>1. 0 \in 0 .. MaxSize
    BY SizeAssumption
  <2> QED
    BY <2>1, Doubling DEF Powers
<1>4. SkipOdd[p] = p
  <2>1. p \in Positions /\ p.fn = 0
    BY <1>1, SizeAssumption DEF Positions
  <2>2. 0 % 2 = 0
    OBVIOUS
  <2> QED
    BY <2>1, <2>2, OddStep
<1>5. Follow(known, log, <<Zero>>) = Climb(p, tree, <<Zero>>)
  <2>1. PICK whole, a, b : whole = <<tree>> \o <<Zero>> /\ a = <<tree>> /\ b = <<Zero>>
    OBVIOUS
  <2>3. Head(whole) = tree /\ Tail(whole) = b
    <3> DEFINE T == {tree, Zero}
    <3>1. a \in Seq(T) /\ b \in Seq(T) /\ Len(a) = 1 /\ a[1] = tree
      BY <2>1
    <3> HIDE DEF T
    <3> QED
      BY <2>1, <3>1, OneBefore
  <2>2. <<Zero>> # <<>> /\ 1 - 1 = 0 /\ 2 - 1 = 1
    OBVIOUS
  <2> QED
    BY <1>1, <1>2, <1>3, <1>4, <2>1, <2>2, <2>3 DEF Follow
<1>6. Climb(p, tree, <<Zero>>) = Step(Start(p, tree), Zero)
  <2>1. Len(<<Zero>>) = 1 /\ 1 \in 1 .. 1 /\ <<Zero>>[1] = Zero /\ 1 - 1 = 0
    OBVIOUS
  <2> QED
    BY <2>1, ClimbStep DEF Climb
<1>7. Step(Start(p, tree), Zero).new = <<tree, Zero>>
  <2>1. p.sn # 0 /\ ~(p.fn % 2 = 1 \/ p.fn = p.sn)
    <3>1. 0 % 2 = 0
      OBVIOUS
    <3> QED
      BY <1>1, <3>1
  <2> QED
    BY <2>1 DEF Step, Start
<1>8. Tree[log] = <<Tree[Left(log)], Tree[Right(log)]>>
  <2>1. Len(log) # 1
    BY <1>2
  <2> QED
    BY <1>2, <2>1, TreeStep
<1>9. Tree[Right(log)] = <<"rotation">>
  <2>1. Split(2) = 1
    BY <1>3, SplitUnique
  <2>2. PICK q : q = Right(log)
    OBVIOUS
  <2>3. q \in Logs /\ Len(q) = 1 /\ q[1] = log[2]
    <3>1. Len(log) # 1
      BY <1>2
    <3>2. /\ q \in Logs /\ Len(q) = Len(log) - Split(Len(log))
          /\ \A i \in 1 .. Len(log) - Split(Len(log)) : q[i] = log[Split(Len(log)) + i]
      BY <1>2, <2>2, <3>1, Parts
    <3>3. 2 - 1 = 1 /\ 1 + 1 = 2 /\ 1 \in 1 .. 1
      OBVIOUS
    <3>4. Len(q) = 1 /\ \A i \in 1 .. 1 : q[i] = log[1 + i]
      BY <1>2, <2>1, <3>2, <3>3
    <3> QED
      BY <3>2, <3>3, <3>4
  <2>4. q \in Seq(Leaves) /\ q[1] = "rotation"
    BY <1>1, <2>3, LogFacts
  <2>5. q = <<"rotation">>
    <3>1. q = SubSeq(q, 1, 1)
      BY <2>3, <2>4
    <3>2. SubSeq(q, 1, 1) = <<q[1]>>
      BY <2>3, <2>4, Beginning
    <3> QED
      BY <2>4, <3>1, <3>2
  <2> QED
    BY <2>2, <2>3, <2>5, TreeStep
<1>10. Zero # Tree[Right(log)]
  BY <1>9 DEF Zero
<1> QED
  BY <1>1, <1>5, <1>6, <1>7, <1>8, <1>10

\* The verdicts on the fifteen sequences are those they are written for.
LEMMA ContinuingRight ==
  \A i \in 1 .. 15 : Sound(Continuing[i]) /\ Expected(Continuing[i])
<1>1. Sound(Continuing[1]) /\ Expected(Continuing[1])
  <2>1. PICK c : c = Continuing[1]
    OBVIOUS
  <2>2. /\ c.trusted = nothing /\ c.candidate = first /\ c.mode = "scan" /\ c.category = "none"
        /\ c.fault = "none" /\ c.scan = <<"issuance">> /\ c.proof = <<>>
    BY <2>1, EvidenceFacts DEF Continuing, Basic
  <2>3. /\ c.trusted.log = None /\ c.candidate.log = <<"issuance">> /\ c.candidate.signed = TRUE
    BY <2>2, EvidenceFacts
  <2>4. Claims(c) = TRUE
    BY <2>2, <2>3 DEF Claims
  <2>6. Verdict(c) = NoError
    BY <2>2, <2>3, <2>4, ShortLogs DEF Verdict, Written
  <2>7. Expected(c)
    BY <2>2, <2>3, <2>6, ShortLogs, Accepted
  <2>8. Sound(c)
    BY <2>2, EvidenceFacts, CandidatesSound DEF Sound
  <2> QED
    BY <2>1, <2>7, <2>8
<1>2. Sound(Continuing[2]) /\ Expected(Continuing[2])
  <2>1. PICK c : c = Continuing[2]
    OBVIOUS
  <2>2. /\ c.trusted = first /\ c.candidate = first /\ c.mode = "scan" /\ c.category = "none"
        /\ c.fault = "none" /\ c.scan = <<"issuance">> /\ c.proof = <<>>
    BY <2>1, EvidenceFacts DEF Continuing, Basic
  <2>3. /\ c.trusted.log = <<"issuance">> /\ c.candidate.log = <<"issuance">> /\ c.candidate.signed = TRUE
    BY <2>2, EvidenceFacts
  <2>4. Claims(c) = TRUE
    BY <2>2, <2>3 DEF Claims
  <2>6. Verdict(c) = NoError
    BY <2>2, <2>3, <2>4, ShortLogs DEF Verdict, Written
  <2>7. Expected(c)
    BY <2>2, <2>3, <2>6, ShortLogs, Accepted
  <2>8. Sound(c)
    BY <2>2, EvidenceFacts, CandidatesSound DEF Sound
  <2> QED
    BY <2>1, <2>7, <2>8
<1>3. Sound(Continuing[3]) /\ Expected(Continuing[3])
  <2>1. PICK c : c = Continuing[3]
    OBVIOUS
  <2>2. /\ c.trusted = first /\ c.candidate = grown /\ c.mode = "proof" /\ c.category = "none"
        /\ c.fault = "none" /\ c.scan = <<"issuance", "rotation">> /\ c.proof = Growth
    BY <2>1, EvidenceFacts DEF Continuing, Basic
  <2>3. /\ c.trusted.log = <<"issuance">> /\ c.candidate.log = <<"issuance", "rotation">> /\ c.candidate.signed = TRUE
    BY <2>2, EvidenceFacts
  <2>4. Claims(c) = TRUE
    BY <2>2, <2>3 DEF Claims
  <2>5. Leads(c) = TRUE
    BY <2>2, <2>3, GrowthLeads DEF Leads, Connects, Arrives
  <2>6. Verdict(c) = NoError
    BY <2>2, <2>3, <2>4, <2>5, ShortLogs DEF Verdict, Written
  <2>7. c.trusted.log # None /\ Len(c.candidate.log) > Len(c.trusted.log)
    BY <2>3, ShortLogs
  <2>8. Expected(c)
    BY <2>2, <2>6, <2>7, Accepted
  <2>9. Sound(c)
    BY <2>2, EvidenceFacts, CandidatesSound DEF Sound
  <2> QED
    BY <2>1, <2>8, <2>9
<1>4. Sound(Continuing[4]) /\ Expected(Continuing[4])
  <2>1. PICK c : c = Continuing[4]
    OBVIOUS
  <2>2. /\ c.trusted = first /\ c.candidate = grown /\ c.mode = "scan" /\ c.category = "none"
        /\ c.fault = "none" /\ c.scan = <<"issuance", "rotation">> /\ c.proof = <<>>
    BY <2>1, EvidenceFacts DEF Continuing, Basic
  <2>3. /\ c.trusted.log = <<"issuance">> /\ c.candidate.log = <<"issuance", "rotation">> /\ c.candidate.signed = TRUE
    BY <2>2, EvidenceFacts
  <2>4. Claims(c) = TRUE
    BY <2>2, <2>3 DEF Claims
  <2>5. IsPrefix(c.trusted.log, c.scan) = TRUE
    BY <2>2, <2>3, Beginnings
  <2>6. Verdict(c) = NoError
    BY <2>2, <2>3, <2>4, <2>5, ShortLogs DEF Verdict, Written
  <2>7. Expected(c)
    BY <2>2, <2>3, <2>6, ShortLogs, Accepted
  <2>8. Sound(c)
    BY <2>2, EvidenceFacts, CandidatesSound DEF Sound
  <2> QED
    BY <2>1, <2>7, <2>8
<1>5. Sound(Continuing[5]) /\ Expected(Continuing[5])
  <2>1. PICK c : c = Continuing[5]
    OBVIOUS
  <2>2. /\ c.trusted = grown /\ c.candidate = first /\ c.mode = "scan" /\ c.category = "LOG_ROLLBACK"
        /\ c.fault = "none" /\ c.scan = <<"issuance">> /\ c.proof = <<>>
    BY <2>1, EvidenceFacts DEF Continuing, Basic
  <2>3. /\ c.trusted.log = <<"issuance", "rotation">> /\ c.candidate.log = <<"issuance">> /\ c.candidate.signed = TRUE
    BY <2>2, EvidenceFacts
  <2>4. Claims(c) = TRUE
    BY <2>2, <2>3 DEF Claims
  <2>6. Verdict(c) = Contradicts(c, c.category)
    BY <2>2, <2>3, <2>4, ShortLogs DEF Verdict
  <2>7. Expected(c)
    BY <2>2, <2>3, <2>6, ShortLogs, Contradicted
  <2>8. Sound(c)
    BY <2>2, EvidenceFacts, CandidatesSound DEF Sound
  <2> QED
    BY <2>1, <2>7, <2>8
<1>6. Sound(Continuing[6]) /\ Expected(Continuing[6])
  <2>1. PICK c : c = Continuing[6]
    OBVIOUS
  <2>2. /\ c.trusted = other /\ c.candidate = first /\ c.mode = "scan" /\ c.category = "LOG_FORK"
        /\ c.fault = "none" /\ c.scan = <<"issuance">> /\ c.proof = <<>>
    BY <2>1, EvidenceFacts DEF Continuing, Basic
  <2>3. /\ c.trusted.log = <<"alternate">> /\ c.candidate.log = <<"issuance">> /\ c.candidate.signed = TRUE
    BY <2>2, EvidenceFacts
  <2>4. Claims(c) = TRUE
    BY <2>2, <2>3 DEF Claims
  <2>6. Verdict(c) = Contradicts(c, c.category)
    BY <2>2, <2>3, <2>4, ShortLogs DEF Verdict
  <2>7. Expected(c)
    BY <2>2, <2>3, <2>6, ShortLogs, Contradicted
  <2>8. Sound(c)
    BY <2>2, EvidenceFacts, CandidatesSound DEF Sound
  <2> QED
    BY <2>1, <2>7, <2>8
<1>7. Sound(Continuing[7]) /\ Expected(Continuing[7])
  <2>1. PICK c : c = Continuing[7]
    OBVIOUS
  <2>2. /\ c.trusted = first /\ c.candidate = grown /\ c.mode = "proof" /\ c.category = "LOG_INCONSISTENT"
        /\ c.fault = "none" /\ c.scan = <<"issuance", "rotation">> /\ c.proof = <<Zero>>
    BY <2>1, EvidenceFacts DEF Continuing, Basic
  <2>3. /\ c.trusted.log = <<"issuance">> /\ c.candidate.log = <<"issuance", "rotation">> /\ c.candidate.signed = TRUE
    BY <2>2, EvidenceFacts
  <2>4. Claims(c) = TRUE
    BY <2>2, <2>3 DEF Claims
  <2>5. Leads(c) = FALSE
    BY <2>2, <2>3, ZeroMisleads DEF Leads, Connects, Arrives
  <2>6. Verdict(c) = Contradicts(c, c.category)
    BY <2>2, <2>3, <2>4, <2>5, ShortLogs DEF Verdict
  <2>7. c.trusted.log # None /\ Len(c.candidate.log) > Len(c.trusted.log)
    BY <2>3, ShortLogs
  <2>8. Expected(c)
    BY <2>2, <2>6, <2>7, Contradicted
  <2>9. Sound(c)
    BY <2>2, EvidenceFacts, CandidatesSound DEF Sound
  <2> QED
    BY <2>1, <2>8, <2>9
<1>8. Sound(Continuing[8]) /\ Expected(Continuing[8])
  <2>1. PICK c : c = Continuing[8]
    OBVIOUS
  <2>2. /\ c.trusted = other /\ c.candidate = grown /\ c.mode = "scan" /\ c.category = "LOG_INCONSISTENT"
        /\ c.fault = "none" /\ c.scan = <<"issuance", "rotation">> /\ c.proof = <<>>
    BY <2>1, EvidenceFacts DEF Continuing, Basic
  <2>3. /\ c.trusted.log = <<"alternate">> /\ c.candidate.log = <<"issuance", "rotation">> /\ c.candidate.signed = TRUE
    BY <2>2, EvidenceFacts
  <2>4. Claims(c) = TRUE
    BY <2>2, <2>3 DEF Claims
  <2>5. IsPrefix(c.trusted.log, c.scan) = FALSE
    BY <2>2, <2>3, Beginnings
  <2>6. Verdict(c) = Contradicts(c, c.category)
    BY <2>2, <2>3, <2>4, <2>5, ShortLogs DEF Verdict
  <2>7. Expected(c)
    BY <2>2, <2>3, <2>6, ShortLogs, Contradicted
  <2>8. Sound(c)
    BY <2>2, EvidenceFacts, CandidatesSound DEF Sound
  <2> QED
    BY <2>1, <2>7, <2>8
<1>9. Sound(Continuing[9]) /\ Expected(Continuing[9])
  <2>1. PICK c : c = Continuing[9]
    OBVIOUS
  <2>2. /\ c.trusted = first /\ c.candidate = grown /\ c.mode = "scan" /\ c.category = "INVALID_EVIDENCE"
        /\ c.fault = "none" /\ c.scan = <<"issuance">> /\ c.proof = <<>>
    BY <2>1, EvidenceFacts DEF Continuing, Basic
  <2>3. /\ c.trusted.log = <<"issuance">> /\ c.candidate.log = <<"issuance", "rotation">> /\ c.candidate.signed = TRUE
    BY <2>2, EvidenceFacts
  <2>4. Claims(c) = FALSE
    <3>1. <<"issuance">> # <<"issuance", "rotation">>
      BY ShortLogs
    <3> QED
      BY <2>2, <2>3, <3>1 DEF Claims
  <2>6. Verdict(c) = Invalid
    BY <2>2, <2>3, <2>4, ShortLogs DEF Verdict
  <2>7. Expected(c)
    BY <2>2, <2>3, <2>6, ShortLogs, Disproved
  <2>8. Sound(c)
    BY <2>2, EvidenceFacts, CandidatesSound DEF Sound
  <2> QED
    BY <2>1, <2>7, <2>8
<1>10. Sound(Continuing[10]) /\ Expected(Continuing[10])
  <2>1. PICK c : c = Continuing[10]
    OBVIOUS
  <2>2. /\ c.trusted = first /\ c.candidate = grown /\ c.mode = "scan" /\ c.category = "INVALID_EVIDENCE"
        /\ c.fault = "none" /\ c.scan = <<"different", "rotation">> /\ c.proof = <<>>
    BY <2>1, EvidenceFacts DEF Continuing, Basic
  <2>3. /\ c.trusted.log = <<"issuance">> /\ c.candidate.log = <<"issuance", "rotation">> /\ c.candidate.signed = TRUE
    BY <2>2, EvidenceFacts
  <2>4. Claims(c) = FALSE
    <3>1. <<"different", "rotation">> # <<"issuance", "rotation">>
      BY ShortLogs
    <3> QED
      BY <2>2, <2>3, <3>1 DEF Claims
  <2>6. Verdict(c) = Invalid
    BY <2>2, <2>3, <2>4, ShortLogs DEF Verdict
  <2>7. Expected(c)
    BY <2>2, <2>3, <2>6, ShortLogs, Disproved
  <2>8. Sound(c)
    BY <2>2, EvidenceFacts, CandidatesSound DEF Sound
  <2> QED
    BY <2>1, <2>7, <2>8
<1>11. Sound(Continuing[11]) /\ Expected(Continuing[11])
  <2>1. PICK c : c = Continuing[11]
    OBVIOUS
  <2>2. /\ c.trusted = first /\ c.candidate = grown /\ c.mode = "missing" /\ c.category = "none"
        /\ c.fault = "none" /\ c.scan = <<"issuance", "rotation">> /\ c.proof = <<>>
    BY <2>1, EvidenceFacts DEF Continuing, Basic
  <2>3. /\ c.trusted.log = <<"issuance">> /\ c.candidate.log = <<"issuance", "rotation">> /\ c.candidate.signed = TRUE
    BY <2>2, EvidenceFacts
  <2>4. Claims(c) = TRUE
    BY <2>2, <2>3 DEF Claims
  <2>6. Verdict(c) = Unavailable
    BY <2>2, <2>3, <2>4, ShortLogs DEF Verdict
  <2>7. Expected(c)
    <3>1. PICK v : v = Verdict(c) /\ v = Unavailable
      BY <2>6
    <3>2. v.class = "unavailable" /\ v.transient = FALSE
      BY <3>1 DEF Unavailable, Raise
    <3>3. v # NoError
      BY <3>2 DEF NoError, Raise
    <3>4. Rejected(c) = TRUE /\ c.category \notin Continuity
      BY <2>2 DEF Rejected, Continuity
    <3> HIDE DEF NoError
    <3> QED
      BY <2>2, <2>3, <3>1, <3>2, <3>3, <3>4, ShortLogs DEF Expected
  <2>8. Sound(c)
    BY <2>2, EvidenceFacts, CandidatesSound DEF Sound
  <2> QED
    BY <2>1, <2>7, <2>8
<1>12. Sound(Continuing[12]) /\ Expected(Continuing[12])
  <2>1. PICK c : c = Continuing[12]
    OBVIOUS
  <2>2. /\ c.trusted = first /\ c.candidate = grown /\ c.mode = "proof" /\ c.category = "none"
        /\ c.fault = "proof-fetch" /\ c.scan = <<"issuance", "rotation">> /\ c.proof = <<>>
    BY <2>1, EvidenceFacts DEF Continuing, Basic
  <2>3. /\ c.trusted.log = <<"issuance">> /\ c.candidate.log = <<"issuance", "rotation">> /\ c.candidate.signed = TRUE
    BY <2>2, EvidenceFacts
  <2>4. Claims(c) = TRUE
    BY <2>2, <2>3 DEF Claims
  <2>6. Verdict(c) = Unfetched
    BY <2>2, <2>3, <2>4, ShortLogs DEF Verdict
  <2>7. c.trusted.log # None /\ Len(c.candidate.log) > Len(c.trusted.log)
    BY <2>3, ShortLogs
  <2>8. Expected(c)
    <3>1. PICK v : v = Verdict(c) /\ v = Unfetched
      BY <2>6
    <3>2. v.class = "verification" /\ v.transient = TRUE /\ v.cause = TRUE
      BY <3>1 DEF Unfetched
    <3>3. v # NoError
      BY <3>2 DEF NoError, Raise
    <3>5. (c.fault = "proof-fetch") = TRUE
      BY <2>2
    <3>4. Rejected(c) = TRUE /\ c.category \notin Continuity
      BY <2>2 DEF Rejected, Continuity
    <3> HIDE DEF NoError
    <3> QED
      BY <2>2, <2>7, <3>1, <3>2, <3>3, <3>4, <3>5 DEF Expected
  <2>9. Sound(c)
    BY <2>2, EvidenceFacts, CandidatesSound DEF Sound
  <2> QED
    BY <2>1, <2>8, <2>9
<1>13. Sound(Continuing[13]) /\ Expected(Continuing[13])
  <2>1. PICK c : c = Continuing[13]
    OBVIOUS
  <2>2. /\ c.trusted = first /\ c.candidate = grown /\ c.mode = "scan" /\ c.category = "CHECKPOINT_STORE_ERROR"
        /\ c.fault = "load" /\ c.scan = <<"issuance", "rotation">> /\ c.proof = <<>>
    BY <2>1, EvidenceFacts DEF Continuing, Basic
  <2>3. /\ c.trusted.log = <<"issuance">> /\ c.candidate.log = <<"issuance", "rotation">> /\ c.candidate.signed = TRUE
    BY <2>2, EvidenceFacts
  <2>4. Claims(c) = TRUE
    BY <2>2, <2>3 DEF Claims
  <2>6. Verdict(c) = Lost
    BY <2>2, <2>3, <2>4, ShortLogs DEF Verdict
  <2>7. Expected(c)
    BY <2>2, <2>3, <2>6, ShortLogs, StoreFailed
  <2>8. Sound(c)
    BY <2>2, EvidenceFacts, CandidatesSound DEF Sound
  <2> QED
    BY <2>1, <2>7, <2>8
<1>14. Sound(Continuing[14]) /\ Expected(Continuing[14])
  <2>1. PICK c : c = Continuing[14]
    OBVIOUS
  <2>2. /\ c.trusted = first /\ c.candidate = grown /\ c.mode = "scan" /\ c.category = "CHECKPOINT_STORE_ERROR"
        /\ c.fault = "write" /\ c.scan = <<"issuance", "rotation">> /\ c.proof = <<>>
    BY <2>1, EvidenceFacts DEF Continuing, Basic
  <2>3. /\ c.trusted.log = <<"issuance">> /\ c.candidate.log = <<"issuance", "rotation">> /\ c.candidate.signed = TRUE
    BY <2>2, EvidenceFacts
  <2>4. Claims(c) = TRUE
    BY <2>2, <2>3 DEF Claims
  <2>5. IsPrefix(c.trusted.log, c.scan) = TRUE
    BY <2>2, <2>3, Beginnings
  <2>6. Verdict(c) = Lost
    BY <2>2, <2>3, <2>4, <2>5, ShortLogs DEF Verdict, Written
  <2>7. Expected(c)
    BY <2>2, <2>3, <2>6, ShortLogs, StoreFailed
  <2>8. Sound(c)
    BY <2>2, EvidenceFacts, CandidatesSound DEF Sound
  <2> QED
    BY <2>1, <2>7, <2>8
<1>15. Sound(Continuing[15]) /\ Expected(Continuing[15])
  <2>1. PICK c : c = Continuing[15]
    OBVIOUS
  <2>2. /\ c.trusted = first /\ c.candidate = forged /\ c.mode = "scan" /\ c.category = "INVALID_EVIDENCE"
        /\ c.fault = "none" /\ c.scan = <<"issuance", "rotation">> /\ c.proof = <<>>
    BY <2>1, EvidenceFacts DEF Continuing, Basic
  <2>3. /\ c.trusted.log = <<"issuance">> /\ c.candidate.log = <<"issuance", "rotation">> /\ c.candidate.signed = FALSE
    BY <2>2, EvidenceFacts
  <2>4. Claims(c) = FALSE
    BY <2>2, <2>3 DEF Claims
  <2>6. Verdict(c) = Invalid
    BY <2>2, <2>3, <2>4, ShortLogs DEF Verdict
  <2>7. Expected(c)
    BY <2>2, <2>3, <2>6, ShortLogs, Disproved
  <2>8. Sound(c)
    BY <2>2, EvidenceFacts, CandidatesSound DEF Sound
  <2> QED
    BY <2>1, <2>7, <2>8
<1> QED
  <2>1. \A i \in 1 .. 15 :
          i = 1 \/ i = 2 \/ i = 3 \/ i = 4 \/ i = 5 \/ i = 6 \/ i = 7 \/ i = 8
          \/ i = 9 \/ i = 10 \/ i = 11 \/ i = 12 \/ i = 13 \/ i = 14 \/ i = 15
    OBVIOUS
  <2> QED
    BY <1>1, <1>2, <1>3, <1>4, <1>5, <1>6, <1>7, <1>8, <1>9, <1>10, <1>11, <1>12, <1>13, <1>14, <1>15, <2>1

\* The cases of a size and a larger one.
LEMMA GrowsFacts ==
  ASSUME NEW n \in 1 .. MaxSize, NEW m \in 1 .. n - 1
  PROVE  LET c == Grows(m, n) IN
         /\ c.trusted.log = Sized(m) /\ c.trusted.signed = TRUE
         /\ c.candidate = Proving(Sized(n), 1) /\ c.candidate.log = Sized(n) /\ c.candidate.signed = TRUE
         /\ c.mode = "proof" /\ c.category = "none" /\ c.fault = "none"
         /\ c.proof = Subproof[Sized(n)][m][TRUE]
BY DEF Grows, Basic, Evidence, Proving

\* Their verdict hangs on whether the proof leads from the one log to the other.
LEMMA ByTheProof ==
  ASSUME NEW n \in 1 .. MaxSize, NEW m \in 1 .. n - 1, NEW c,
         c.trusted.log = Sized(m), c.trusted.signed = TRUE,
         c.candidate = Proving(Sized(n), 1), c.candidate.log = Sized(n), c.candidate.signed = TRUE,
         c.mode = "proof", c.fault = "none",
         \/ c.category = "none" /\ Leads(c) = TRUE
         \/ c.category = "LOG_INCONSISTENT" /\ Leads(c) = FALSE
  PROVE  Sound(c) /\ Expected(c)
<1>1. m \in Nat /\ n \in Nat /\ m >= 1 /\ m < n /\ m \in 1 .. MaxSize
  BY SizeAssumption
<1>2. Len(Sized(m)) = m /\ Len(Sized(n)) = n /\ Sized(n) \in Logs
  BY <1>1, SizedFacts
<1>3. c.trusted.log # None
  <2>1. Len(<<>>) = 0
    OBVIOUS
  <2> QED
    BY <1>1, <1>2, <2>1 DEF None
<1>4. Len(c.candidate.log) > Len(c.trusted.log)
  BY <1>1, <1>2
<1>5. ~(Len(c.candidate.log) < Len(c.trusted.log)) /\ Len(c.candidate.log) # Len(c.trusted.log)
  BY <1>1, <1>2
<1>6. Claims(c) = TRUE
  BY DEF Claims
<1>7. Sound(c)
  BY <1>2, FirstSound DEF Sound
<1>8. Expected(c)
  <2>1. CASE c.category = "none" /\ Leads(c) = TRUE
    <3>1. Verdict(c) = NoError
      BY <1>3, <1>5, <1>6, <2>1 DEF Verdict, Written
    <3> QED
      BY <1>3, <1>4, <2>1, <3>1, Accepted
  <2>2. CASE c.category = "LOG_INCONSISTENT" /\ Leads(c) = FALSE
    <3>1. Verdict(c) = Contradicts(c, c.category)
      BY <1>3, <1>5, <1>6, <2>2 DEF Verdict
    <3> QED
      BY <1>3, <1>4, <2>2, <3>1, Contradicted
  <2> QED
    BY <2>1, <2>2
<1> QED
  BY <1>7, <1>8

\* A proof as it is leads there.
LEMMA WholeLeads ==
  ASSUME NEW n \in 1 .. MaxSize, NEW m \in 1 .. n - 1
  PROVE  Leads(Grows(m, n)) = TRUE
<1>1. PICK log : log = Sized(n)
  OBVIOUS
<1>2. log \in Logs /\ m \in 1 .. Len(log) /\ m # Len(log) /\ Sized(m) = Prior(log, m)
  <2>1. m \in 1 .. n /\ m # n
    BY SizeAssumption
  <2> QED
    BY <1>1, <2>1, SizedFacts
<1>3. PICK end : end = Follow(Prior(log, m), log, Subproof[log][m][TRUE])
  OBVIOUS
<1>4. end.surplus = FALSE /\ end.at.sn = 0 /\ end.old = Tree[Prior(log, m)] /\ end.new = Tree[log]
  BY <1>2, <1>3, Follows DEF Done
<1>5. PICK c : c = Grows(m, n)
  OBVIOUS
<1>6. c.trusted.log = Prior(log, m) /\ c.candidate.log = log /\ c.proof = Subproof[log][m][TRUE]
  BY <1>1, <1>2, <1>5, GrowsFacts
<1>7. Follow(c.trusted.log, c.candidate.log, c.proof) = end
  BY <1>3, <1>6
<1> QED
  BY <1>4, <1>5, <1>6, <1>7 DEF Leads, Connects, Arrives

\* A mutilated one does not.
LEMMA MutilatedMisleads ==
  ASSUME NEW n \in 1 .. MaxSize, NEW m \in 1 .. n - 1,
         NEW proof \in Mutilations(Subproof[Sized(n)][m][TRUE])
  PROVE  Arrives(Sized(m), Sized(n), proof) = FALSE
<1>1. PICK log, whole : log = Sized(n) /\ whole = Subproof[log][m][TRUE]
  OBVIOUS
<1>2. log \in Logs /\ m \in 1 .. Len(log) /\ m # Len(log) /\ Sized(m) = Prior(log, m)
  <2>1. m \in 1 .. n /\ m # n
    BY SizeAssumption
  <2> QED
    BY <1>1, <2>1, SizedFacts
<1>3. PICK end : end = Follow(Prior(log, m), log, proof)
  OBVIOUS
<1>4. ~(end.at.sn = 0 /\ ~end.surplus /\ end.new = Tree[log])
  <2>1. CASE proof = Front(whole)
    <3>1. end.at.sn # 0 \/ end.new # Tree[log]
      BY <1>1, <1>2, <1>3, <2>1, ShortRefused
    <3> QED
      BY <3>1
  <2>2. CASE proof = Append(whole, Zero)
    <3>1. end.surplus
      BY <1>1, <1>2, <1>3, <2>2, LongRefused
    <3> QED
      BY <3>1
  <2>3. ASSUME NEW i \in DOMAIN whole, proof = [whole EXCEPT ![i] = Changed(whole[i])]
        PROVE  end.new # Tree[log]
    <3>1. whole \in Seq(Trees)
      BY <1>1, <1>2, Follows
    <3>2. i \in 1 .. Len(whole) /\ whole[i] \in Trees
      BY <3>1
    <3>3. PICK node : node = whole[i]
      OBVIOUS
    <3>4. Changed(node) # node
      BY <3>2, <3>3, TreeFacts DEF Changed
    <3>5. PICK changed : changed = Changed(node)
      OBVIOUS
    <3> QED
      BY <1>1, <1>2, <1>3, <2>3, <3>2, <3>3, <3>4, <3>5, ChangedRefused
  <2> QED
    BY <1>1, <2>1, <2>2, <2>3 DEF Mutilations
<1> QED
  BY <1>1, <1>2, <1>3, <1>4 DEF Arrives

\* The expectations are right: those of the fifteen sequences and of the proofs
\* between any two sizes.
LEMMA CasesRight ==
  \A c \in Cases : Sound(c) /\ Expected(c)
<1>1. ASSUME NEW n \in 1 .. MaxSize, NEW m \in 1 .. n - 1, NEW c \in CasesOf(m, n)
      PROVE  Sound(c) /\ Expected(c)
  <2>1. CASE c = Grows(m, n)
    BY <2>1, GrowsFacts, WholeLeads, ByTheProof
  <2>2. ASSUME NEW proof \in Mutilations(Subproof[Sized(n)][m][TRUE]), c = Refused(m, n, proof)
        PROVE  Sound(c) /\ Expected(c)
    <3>1. /\ c.trusted.log = Sized(m) /\ c.trusted.signed = TRUE
          /\ c.candidate = Proving(Sized(n), 1) /\ c.candidate.log = Sized(n) /\ c.candidate.signed = TRUE
          /\ c.mode = "proof" /\ c.category = "LOG_INCONSISTENT" /\ c.fault = "none"
      BY <2>2 DEF Refused, Grows, Basic, Evidence, Proving
    <3>2. Leads(c) = FALSE
      <4>1. c.proof = proof
        BY <2>2 DEF Refused
      <4> QED
        BY <3>1, <4>1, MutilatedMisleads DEF Leads, Connects
    <3> QED
      BY <3>1, <3>2, ByTheProof
  <2> QED
    BY <2>1, <2>2 DEF CasesOf
<1> QED
  BY <1>1, ContinuingRight DEF Cases

\* In no case does it take the smaller log's root to tell a wrong proof from a
\* right one.
Told(c) ==
  c.mode = "proof" /\ c.fault # "proof-fetch" =>
    (Leads(c) <=> Arrives(c.trusted.log, c.candidate.log, c.proof))

\* The two of the fifteen with a proof are told by the root of the larger log.
LEMMA ContinuingTold ==
  \A i \in 1 .. 15 : Told(Continuing[i])
<1>1. Told(Continuing[3])
  <2>1. PICK c : c = Continuing[3]
    OBVIOUS
  <2>2. c.trusted = first /\ c.candidate = grown /\ c.proof = Growth
    BY <2>1, EvidenceFacts DEF Continuing, Basic
  <2>3. c.trusted.log = <<"issuance">> /\ c.candidate.log = <<"issuance", "rotation">>
    BY <2>2, EvidenceFacts
  <2>4. Leads(c)
    BY <2>2, <2>3, GrowthLeads DEF Leads, Connects, Arrives
  <2> QED
    BY <2>1, <2>4 DEF Told, Leads, Connects
<1>2. Told(Continuing[7])
  <2>1. PICK c : c = Continuing[7]
    OBVIOUS
  <2>2. c.trusted = first /\ c.candidate = grown /\ c.proof = <<Zero>>
    BY <2>1, EvidenceFacts DEF Continuing, Basic
  <2>3. c.trusted.log = <<"issuance">> /\ c.candidate.log = <<"issuance", "rotation">>
    BY <2>2, EvidenceFacts
  <2>4. ~Arrives(c.trusted.log, c.candidate.log, c.proof)
    BY <2>2, <2>3, ZeroMisleads DEF Arrives
  <2> QED
    BY <2>1, <2>4 DEF Told, Leads, Connects
<1>3. /\ Continuing[1].mode = "scan" /\ Continuing[2].mode = "scan" /\ Continuing[4].mode = "scan"
      /\ Continuing[5].mode = "scan" /\ Continuing[6].mode = "scan" /\ Continuing[8].mode = "scan"
      /\ Continuing[9].mode = "scan" /\ Continuing[10].mode = "scan" /\ Continuing[11].mode = "missing"
      /\ Continuing[12].fault = "proof-fetch" /\ Continuing[13].mode = "scan"
      /\ Continuing[14].mode = "scan" /\ Continuing[15].mode = "scan"
  BY DEF Continuing, Basic
<1>4. \A i \in 1 .. 15 :
        i = 1 \/ i = 2 \/ i = 3 \/ i = 4 \/ i = 5 \/ i = 6 \/ i = 7 \/ i = 8
        \/ i = 9 \/ i = 10 \/ i = 11 \/ i = 12 \/ i = 13 \/ i = 14 \/ i = 15
  OBVIOUS
<1>5. ASSUME NEW i \in 1 .. 15, i # 3, i # 7 PROVE Told(Continuing[i])
  <2>1. Continuing[i].mode # "proof" \/ Continuing[i].fault = "proof-fetch"
    BY <1>3, <1>4, <1>5
  <2> QED
    BY <2>1 DEF Told
<1> QED
  BY <1>1, <1>2, <1>5

\* And so are the proofs between any two sizes.
LEMMA CasesTold ==
  \A c \in Cases : Told(c)
<1>1. ASSUME NEW n \in 1 .. MaxSize, NEW m \in 1 .. n - 1, NEW c \in CasesOf(m, n)
      PROVE  Told(c)
  <2>1. CASE c = Grows(m, n)
    <3>1. Leads(c)
      BY <2>1, WholeLeads
    <3> QED
      BY <3>1 DEF Told, Leads, Connects
  <2>2. ASSUME NEW proof \in Mutilations(Subproof[Sized(n)][m][TRUE]), c = Refused(m, n, proof)
        PROVE  Told(c)
    <3>1. c.trusted.log = Sized(m) /\ c.candidate.log = Sized(n) /\ c.proof = proof
      BY <2>2 DEF Refused, Grows, Basic, Evidence, Proving
    <3>2. ~Arrives(c.trusted.log, c.candidate.log, c.proof)
      BY <3>1, MutilatedMisleads
    <3> QED
      BY <3>2 DEF Told, Leads, Connects
  <2> QED
    BY <2>1, <2>2 DEF CasesOf
<1> QED
  BY <1>1, ContinuingTold DEF Cases

-----------------------------------------------------------------------------
(* A correct SDK, and one that does not compare the old root.              *)

Harmless == {"none", "ignores the old root"}

\* It makes errors of its own of those of the store and of the proof source.
LEMMA OwnErrors ==
  ASSUME defect \in Harmless
  PROVE  StoreError = Lost /\ FetchError = Unfetched
<1>1. /\ Leaks = FALSE
      /\ (defect # "drops the cause") = TRUE /\ (defect # "calls every failure permanent") = TRUE
  BY DEF Leaks, Has, Harmless
<1>2. StoreError = [Raise("verification", "CHECKPOINT_STORE_ERROR") EXCEPT !.cause = TRUE]
  BY <1>1 DEF StoreError
<1>3. FetchError = [Raise("verification", "none") EXCEPT !.cause = TRUE, !.transient = TRUE]
  BY <1>1 DEF FetchError
<1> QED
  BY <1>2, <1>3 DEF Lost, Unfetched, Raise

\* It answers a case with the verdict.
LEMMA ContinuityByTheCase ==
  ASSUME defect \in Harmless, NEW c, Told(c), store = c.trusted.log
  PROVE  ContinuityError(c.candidate, c.mode, c.scan, c.proof, c.fault) =
           LET known == c.trusted.log
               log == c.candidate.log IN
           IF c.fault = "load" THEN Lost
           ELSE IF known = None THEN NoError
           ELSE IF Len(log) < Len(known) THEN Contradicts(c, "LOG_ROLLBACK")
           ELSE IF Len(log) = Len(known) THEN (IF known = log THEN NoError ELSE Contradicts(c, "LOG_FORK"))
           ELSE IF c.mode = "missing" THEN Unavailable
           ELSE IF c.mode = "proof"
             THEN IF c.fault = "proof-fetch" THEN Unfetched
                  ELSE IF Leads(c) THEN NoError ELSE Contradicts(c, "LOG_INCONSISTENT")
           ELSE IF IsPrefix(known, c.scan) THEN NoError ELSE Contradicts(c, "LOG_INCONSISTENT")
<1>1. \A d : d \notin Harmless => Has(d) = FALSE
  BY DEF Has
<1>2. StoreError = Lost
  BY OwnErrors
<1>3. FetchError = Unfetched
  BY OwnErrors
<1>4. \A category : Contradiction(category, c.candidate) = Contradicts(c, category)
  <2> SUFFICES ASSUME NEW category
               PROVE  Contradiction(category, c.candidate) = Contradicts(c, category)
    OBVIOUS
  <2>1. PICK d : d = <<c.trusted.log, c.candidate.log>>
    OBVIOUS
  <2>2. (IF defect = "gives no diagnostics" THEN <<>> ELSE <<store, c.candidate.log>>) = d
    BY <2>1 DEF Harmless
  <2>3. Contradiction(category, c.candidate) = [Raise("continuity", category) EXCEPT !.diagnostics = d]
    BY <2>2 DEF Contradiction
  <2> QED
    BY <2>1, <2>3 DEF Contradicts, Raise
<1>5. c.mode = "proof" /\ c.fault # "proof-fetch" =>
        (ProofHolds(c.trusted.log, c.candidate.log, c.proof) <=> Leads(c))
  <2>1. PICK end : end = Follow(c.trusted.log, c.candidate.log, c.proof)
    OBVIOUS
  <2>2. /\ Has("accepts any proof") = FALSE /\ Has("passes over surplus nodes") = FALSE
        /\ Has("ignores the new root") = FALSE
    BY <1>1 DEF Harmless
  <2>3. ProofHolds(c.trusted.log, c.candidate.log, c.proof) =>
          Arrives(c.trusted.log, c.candidate.log, c.proof)
    BY <2>1, <2>2 DEF ProofHolds, Arrives
  <2>4. Leads(c) => ProofHolds(c.trusted.log, c.candidate.log, c.proof)
    BY <2>1, <2>2 DEF ProofHolds, Leads, Connects, Arrives
  <2> QED
    BY <2>3, <2>4 DEF Told
<1>6. c.fault # "load" => Known(c.fault) = c.trusted.log
  BY DEF Known
<1>7. /\ Has("takes a failed load for first contact") = FALSE /\ Has("accepts a rollback") = FALSE
      /\ Has("accepts another root") = FALSE /\ Has("does without evidence") = FALSE
      /\ Has("never asks for a proof") = FALSE /\ Has("accepts any prefix") = FALSE
  BY <1>1 DEF Harmless
<1>8. CASE c.fault = "load"
  BY <1>2, <1>7, <1>8 DEF ContinuityError
<1>9. CASE c.fault # "load"
  <2>1. PICK known, log, scan : known = c.trusted.log /\ log = c.candidate.log /\ scan = c.scan
    OBVIOUS
  <2>2. ContinuityError(c.candidate, c.mode, c.scan, c.proof, c.fault) =
          IF known = None THEN NoError
          ELSE IF Len(log) < Len(known) THEN Contradiction("LOG_ROLLBACK", c.candidate)
          ELSE IF Len(log) = Len(known)
            THEN IF known = log THEN NoError ELSE Contradiction("LOG_FORK", c.candidate)
          ELSE IF c.mode = "missing" THEN Unavailable
          ELSE IF c.mode = "proof"
            THEN IF c.fault = "proof-fetch" THEN FetchError
                 ELSE IF ProofHolds(known, log, c.proof) THEN NoError
                 ELSE Contradiction("LOG_INCONSISTENT", c.candidate)
          ELSE IF IsPrefix(known, scan) THEN NoError ELSE Contradiction("LOG_INCONSISTENT", c.candidate)
    BY <1>6, <1>7, <1>9, <2>1 DEF ContinuityError
  <2> QED
    BY <1>3, <1>4, <1>5, <1>9, <2>1, <2>2
<1> QED
  BY <1>8, <1>9

\* No error is none.
LEMMA Errors ==
  /\ Lost # NoError /\ Unfetched # NoError /\ Unavailable # NoError
  /\ \A c, category : Contradicts(c, category) # NoError
<1>1. NoError.class = "none" /\ Unavailable.class = "unavailable"
  BY DEF NoError, Unavailable, Raise
<1>2. Lost.class = "verification" /\ Unfetched.class = "verification"
  BY DEF Lost, Unfetched
<1>3. \A c, category : Contradicts(c, category).class = "continuity"
  BY DEF Contradicts
<1> HIDE DEF NoError
<1> QED
  BY <1>1, <1>2, <1>3

\* The evidence before the continuity, and the write last.
LEMMA OutcomeIsVerdict ==
  ASSUME defect \in Harmless, NEW c, Sound(c), Told(c), store = c.trusted.log
  PROVE  Outcome(c.candidate, c.mode, c.scan, c.proof, c.fault) = Verdict(c)
<1>1. PICK e : e = ContinuityError(c.candidate, c.mode, c.scan, c.proof, c.fault)
  OBVIOUS
<1>2. /\ Has("looks at continuity first") = FALSE /\ Has("ignores a failed write") = FALSE
      /\ Has("accepts an unsigned checkpoint") = FALSE /\ Has("trusts the scan it is given") = FALSE
  BY DEF Has, Harmless
<1>3. BadEvidence(c.candidate, c.mode, c.scan) <=> ~Claims(c)
  BY <1>2 DEF BadEvidence, Claims, Sound
<1>4. StoreError = Lost
  BY OwnErrors
<1>5. Outcome(c.candidate, c.mode, c.scan, c.proof, c.fault) =
        IF ~Claims(c) THEN Invalid ELSE IF e # NoError THEN e ELSE Written(c)
  BY <1>1, <1>2, <1>3, <1>4 DEF Outcome, Written
<1>6. ContinuityError(c.candidate, c.mode, c.scan, c.proof, c.fault) =
           LET known == c.trusted.log
               log == c.candidate.log IN
           IF c.fault = "load" THEN Lost
           ELSE IF known = None THEN NoError
           ELSE IF Len(log) < Len(known) THEN Contradicts(c, "LOG_ROLLBACK")
           ELSE IF Len(log) = Len(known) THEN (IF known = log THEN NoError ELSE Contradicts(c, "LOG_FORK"))
           ELSE IF c.mode = "missing" THEN Unavailable
           ELSE IF c.mode = "proof"
             THEN IF c.fault = "proof-fetch" THEN Unfetched
                  ELSE IF Leads(c) THEN NoError ELSE Contradicts(c, "LOG_INCONSISTENT")
           ELSE IF IsPrefix(known, c.scan) THEN NoError ELSE Contradicts(c, "LOG_INCONSISTENT")
  BY ContinuityByTheCase
<1> QED
  BY <1>1, <1>5, <1>6, Errors DEF Verdict

\* And leaves in the store what the expectation says.
Kept(c) == IF Rejected(c) THEN c.trusted.log ELSE c.candidate.log

\* The store holds what the expectation says.
LEMMA StoreIsKept ==
  ASSUME defect \in Harmless, NEW c, Expected(c), store = c.trusted.log
  PROVE  Advanced(c.candidate, Verdict(c), c.fault) = Kept(c)
<1>1. Has("keeps the old checkpoint") = FALSE /\ Has("stores before it checks") = FALSE
  BY DEF Has, Harmless
<1>2. Verdict(c) = NoError <=> ~Rejected(c)
  BY DEF Expected
<1>3. ~Rejected(c) => c.fault # "write"
  BY DEF Rejected
<1> QED
  BY <1>1, <1>2, <1>3 DEF Advanced, Kept

\* A case in proof mode is not decided without a proof.
LEMMA ProofIsAsked ==
  ASSUME defect \in Harmless, NEW c, Expected(c), store = c.trusted.log, c.mode = "proof"
  PROVE  AsksForProof(c.candidate, c.mode, c.fault)
<1>1. Has("never asks for a proof") = FALSE
  BY DEF Has, Harmless
<1>2. c.fault # "load" /\ c.trusted.log # None /\ Len(c.candidate.log) > Len(c.trusted.log)
  BY DEF Expected
<1> QED
  BY <1>1, <1>2 DEF AsksForProof, Known

\* The trusted evidence is accepted, and stored.
LEMMA SeedIsAccepted ==
  ASSUME defect \in Harmless, NEW c, Sound(c), c.trusted # nothing, store = None
  PROVE  /\ Outcome(c.trusted, "scan", c.trusted.log, <<>>, "none") = NoError
         /\ Advanced(c.trusted, NoError, "none") = c.trusted.log
<1>1. /\ Has("looks at continuity first") = FALSE /\ Has("ignores a failed write") = FALSE
      /\ Has("accepts an unsigned checkpoint") = FALSE /\ Has("keeps the old checkpoint") = FALSE
  BY DEF Has, Harmless
<1>2. c.trusted.signed
  BY DEF Sound
<1>3. ContinuityError(c.trusted, "scan", c.trusted.log, <<>>, "none") = NoError
  BY DEF ContinuityError, Known
<1>4. ~BadEvidence(c.trusted, "scan", c.trusted.log)
  BY <1>2 DEF BadEvidence
<1>5. Outcome(c.trusted, "scan", c.trusted.log, <<>>, "none") = NoError
  BY <1>1, <1>3, <1>4 DEF Outcome
<1>6. Advanced(c.trusted, NoError, "none") = c.trusted.log
  BY <1>1 DEF Advanced
<1> QED
  BY <1>5, <1>6

\* What holds of a correct SDK on the way through a case.
Underway ==
  /\ phase = "seed" => store = None
  /\ phase \in {"seed", "verify"} => requests = 0
  /\ phase = "verify" => store = case.trusted.log
  /\ phase = "read" =>
       /\ error = Verdict(case)
       /\ store = Kept(case)
       /\ case.mode = "proof" => requests > 0
  /\ phase = "judge" => Passes

Correct ==
  defect \in Harmless =>
    /\ failures = {}
    /\ at \in 1 .. Len(Suite)
    /\ Underway

\* It holds before the first case.
LEMMA InitCorrect == Init => Correct
<1> SUFFICES ASSUME Init PROVE failures = {} /\ at \in 1 .. Len(Suite) /\ Underway
  BY DEF Correct
<1>1. Len(Suite) \in Nat /\ Len(Suite) >= 1
  BY SuiteTyped
<1>2. at \in 1 .. Len(Suite)
  BY <1>1 DEF Init
<1> QED
  BY <1>2 DEF Init, Underway

\* The case at work is one of the suite.
LEMMA CaseRight ==
  ASSUME at \in 1 .. Len(Suite)
  PROVE  Sound(case) /\ Told(case) /\ Expected(case)
<1>1. case \in Cases
  BY SuiteTyped DEF case
<1> QED
  BY <1>1, CasesRight, CasesTold

\* The fields of an answer to a case, when the SDK's error is the verdict.
LEMMA AnswerPasses ==
  ASSUME NEW c, Expected(c), NEW v, v = Verdict(c), NEW a,
         DOMAIN a = {"ok", "error", "errorCategory", "transient", "causePreserved", "condition",
                     "diagnostics", "stored", "proofRequested"},
         a.ok = (v = NoError), a.error = (IF v = NoError THEN "none" ELSE "CheckpointError"),
         a.errorCategory = v.category, a.transient = v.transient, a.causePreserved = v.cause,
         a.condition = (IF v.class = "unavailable" THEN "consistency_unavailable" ELSE "none"),
         a.diagnostics = v.diagnostics, a.stored = Kept(c),
         c.mode = "proof" => a.proofRequested = TRUE
  PROVE  \A f \in Named(c) : f \in DOMAIN a /\ a[f] = Values(c)[f]
<1>1. PICK w : w = Values(c)
  OBVIOUS
<1>2. /\ w.ok = ~Rejected(c) /\ w.stored = Kept(c) /\ w.error = "CheckpointError"
      /\ w.transient = (c.fault = "proof-fetch") /\ w.errorCategory = c.category
      /\ w.diagnostics = <<c.trusted.log, c.candidate.log>> /\ w.causePreserved = TRUE
      /\ w.proofRequested = TRUE /\ w.condition = "consistency_unavailable"
  BY <1>1 DEF Values, Kept
<1>3. v = NoError <=> ~Rejected(c)
  BY DEF Expected
<1>4. a.ok = w.ok /\ a.stored = w.stored
  BY <1>2, <1>3
<1>5. Rejected(c) => a.error = w.error /\ a.transient = w.transient
  BY <1>2, <1>3 DEF Expected
<1>6. c.category # "none" => a.errorCategory = w.errorCategory
  BY <1>2 DEF Expected
<1>7. c.category \in Continuity => a.diagnostics = w.diagnostics
  BY <1>2 DEF Expected
<1>8. c.fault # "none" => a.causePreserved = w.causePreserved
  BY <1>2 DEF Expected
<1>9. c.mode = "missing" => a.condition = w.condition
  BY <1>2 DEF Expected
<1>10. c.mode = "proof" => a.proofRequested = w.proofRequested
  BY <1>2
<1>11. ASSUME NEW f \in Named(c) PROVE f \in DOMAIN a /\ a[f] = w[f]
  BY <1>4, <1>5, <1>6, <1>7, <1>8, <1>9, <1>10, <1>11 DEF Named
<1> QED
  BY <1>1, <1>11

\* Every step of the adapter keeps it: the trusted evidence is stored, the error is
\* the verdict, the answer has the expected fields, and nothing is added to failures.
LEMMA StepCorrect ==
  ASSUME Correct, [Next]_vars
  PROVE  Correct'
<1> SUFFICES ASSUME defect' \in Harmless
             PROVE  failures' = {} /\ at' \in 1 .. Len(Suite) /\ Underway'
  BY DEF Correct
<1>1. defect \in Harmless
  BY DEF vars, Next, Seed, VerifyCandidate, Read, Judge
<1>2. failures = {} /\ at \in 1 .. Len(Suite) /\ Underway
  BY <1>1 DEF Correct
<1>3. PICK c : c = case
  OBVIOUS
<1>4. Sound(c) /\ Told(c) /\ Expected(c)
  BY <1>2, <1>3, CaseRight
<1>5. at' = at => case' = c
  BY <1>3 DEF case
<1>6. CASE UNCHANGED vars
  <2>1. at' = at /\ case' = c /\ Passes' = Passes
    BY <1>5, <1>6 DEF vars, Passes, case
  <2> QED
    BY <1>2, <1>3, <1>6, <2>1 DEF vars, Underway
<1>7. CASE Seed
  <2>1. /\ phase = "seed" /\ at' = at /\ failures' = failures /\ requests' = requests /\ case' = c
        /\ store = None /\ requests = 0
    BY <1>2, <1>5, <1>7 DEF Seed, Underway
  <2>2. phase' = "verify" /\ store' = c.trusted.log
    <3>1. CASE c.trusted = nothing
      BY <1>3, <1>7, <2>1, <3>1 DEF Seed, nothing
    <3>2. CASE c.trusted # nothing
      <4>1. /\ Outcome(c.trusted, "scan", c.trusted.log, <<>>, "none") = NoError
            /\ Advanced(c.trusted, NoError, "none") = c.trusted.log
        BY <1>1, <1>4, <2>1, <3>2, SeedIsAccepted
      <4> QED
        BY <1>3, <1>7, <3>2, <4>1 DEF Seed
    <3> QED
      BY <3>1, <3>2
  <2> QED
    BY <1>2, <2>1, <2>2 DEF Underway
<1>8. CASE VerifyCandidate
  <2>1. /\ phase = "verify" /\ phase' = "read" /\ at' = at /\ failures' = failures /\ case' = c
        /\ store = c.trusted.log /\ requests = 0
    BY <1>2, <1>3, <1>5, <1>8 DEF VerifyCandidate, Underway
  <2>2. PICK v : v = Verdict(c)
    OBVIOUS
  <2>3. Outcome(c.candidate, c.mode, c.scan, c.proof, c.fault) = v
    BY <1>1, <1>4, <2>1, <2>2, OutcomeIsVerdict
  <2>4. error' = v /\ store' = Advanced(c.candidate, v, c.fault)
    BY <1>3, <1>8, <2>3 DEF VerifyCandidate
  <2>5. store' = Kept(c)
    BY <1>1, <1>4, <2>1, <2>2, <2>4, StoreIsKept
  <2>6. c.mode = "proof" => requests' > 0
    <3> SUFFICES ASSUME c.mode = "proof" PROVE requests' > 0
      OBVIOUS
    <3>1. AsksForProof(c.candidate, c.mode, c.fault)
      BY <1>1, <1>4, <2>1, ProofIsAsked
    <3>2. requests' = 0 + 1
      BY <1>3, <1>8, <2>1, <3>1 DEF VerifyCandidate
    <3> QED
      BY <3>2
  <2> QED
    BY <1>2, <2>1, <2>2, <2>4, <2>5, <2>6 DEF Underway
<1>9. CASE Read
  <2>1. /\ phase = "read" /\ phase' = "judge" /\ at' = at /\ failures' = failures /\ case' = c
        /\ store = Kept(c) /\ error = Verdict(c) /\ (c.mode = "proof" => requests > 0)
    BY <1>2, <1>3, <1>5, <1>9 DEF Read, Underway
  <2>2. store' = store
    BY <1>1, <1>9 DEF Read, Has, Harmless
  <2>3. PICK v : v = error /\ v = Verdict(c)
    BY <2>1
  <2>4. answer' =
       [ok |-> v = NoError,
        error |-> IF v = NoError THEN "none"
                  ELSE IF Recognized THEN "CheckpointError" ELSE "AdapterError",
        errorCategory |-> v.category,
        transient |-> v.transient,
        causePreserved |-> v.cause,
        condition |-> IF v.class = "unavailable" THEN "consistency_unavailable" ELSE "none",
        diagnostics |-> v.diagnostics,
        stored |-> Kept(c),
        proofRequested |-> requests > 0]
    BY <1>9, <2>1, <2>2, <2>3 DEF Read
  <2>5. Recognized
    BY <1>4, <2>3 DEF Recognized, Expected
  <2>6. Passes'
    <3>1. PICK a, r : a = answer' /\ r = (requests > 0)
      OBVIOUS
    <3>2. DOMAIN a = {"ok", "error", "errorCategory", "transient", "causePreserved", "condition",
                      "diagnostics", "stored", "proofRequested"}
      BY <2>4, <3>1
    <3>3. /\ a.ok = (v = NoError) /\ a.error = (IF v = NoError THEN "none" ELSE "CheckpointError")
          /\ a.errorCategory = v.category /\ a.transient = v.transient /\ a.causePreserved = v.cause
          /\ a.condition = (IF v.class = "unavailable" THEN "consistency_unavailable" ELSE "none")
          /\ a.diagnostics = v.diagnostics /\ a.stored = Kept(c) /\ a.proofRequested = (requests > 0)
      BY <2>4, <2>5, <3>1
    <3>4. c.mode = "proof" => a.proofRequested = TRUE
      BY <2>1, <3>3
    <3>5. \A f \in Named(c) : f \in DOMAIN a /\ a[f] = Values(c)[f]
      BY <1>4, <2>3, <3>2, <3>3, <3>4, AnswerPasses
    <3> QED
      BY <2>1, <3>1, <3>5 DEF Passes
  <2> QED
    BY <1>2, <2>1, <2>6 DEF Underway
<1>10. CASE Judge
  <2>1. phase = "judge" /\ Passes
    BY <1>2, <1>10 DEF Judge, Underway
  <2>2. failures' = {} /\ store' = None /\ requests' = 0 /\ phase' \in {"seed", "end"}
    BY <1>2, <1>10, <2>1 DEF Judge
  <2>3. at' \in 1 .. Len(Suite)
    <3>1. Len(Suite) \in Nat
      BY SuiteTyped
    <3> QED
      BY <1>2, <1>10, <3>1 DEF Judge
  <2> QED
    BY <2>2, <2>3 DEF Underway
<1> QED
  BY <1>6, <1>7, <1>8, <1>9, <1>10 DEF Next

\* A correct SDK passes every case of the checkpoint suites: the expectations of
\* the fifteen sequences and of the proofs and mutilated proofs between any two
\* sizes are those of a verifier that follows design 11. For every MaxSize.
THEOREM CorrectSdkPassesAlways == Spec => []CorrectSdkPasses
<1>1. Init => Correct
  BY InitCorrect
<1>2. Correct /\ [Next]_vars => Correct'
  BY StepCorrect
<1>3. Correct => CorrectSdkPasses
  BY DEF Correct, CorrectSdkPasses, Harmless
<1> QED
  BY <1>1, <1>2, <1>3, PTL DEF Spec

\* And so does an SDK that never compares the root it trusts with the one a
\* consistency proof begins with: no case of any size can tell, since every case
\* with a proof has a trusted log that is the beginning of the candidate's.
THEOREM OldRootIsNeverTested == Spec => [](defect = "ignores the old root" => failures = {})
<1>1. Init => Correct
  BY InitCorrect
<1>2. Correct /\ [Next]_vars => Correct'
  BY StepCorrect
<1>3. Correct => (defect = "ignores the old root" => failures = {})
  BY DEF Correct, Harmless
<1> QED
  BY <1>1, <1>2, <1>3, PTL DEF Spec

-----------------------------------------------------------------------------
(* Whatever is wrong with the SDK.                                         *)

\* An answer that names a stored checkpoint was read from the store after the
\* verdict that it names. One that does not is of an adapter that failed.
ReadBack ==
  phase = "judge" /\ "stored" \in DOMAIN answer =>
    answer.stored = store /\ (answer.ok <=> error = NoError)

\* Every step keeps that.
LEMMA StepReadBack ==
  ASSUME ReadBack, [Next]_vars
  PROVE  ReadBack'
<1>1. CASE UNCHANGED vars
  BY <1>1 DEF vars, ReadBack, NoError, Raise
<1>2. CASE Seed
  <2>1. CASE answer' = [ok |-> FALSE, error |-> "AdapterError"]
    BY <2>1 DEF ReadBack
  <2>2. CASE phase' = "verify"
    BY <2>2 DEF ReadBack
  <2> QED
    BY <1>2, <2>1, <2>2 DEF Seed
<1>3. CASE VerifyCandidate
  BY <1>3 DEF VerifyCandidate, ReadBack
<1>4. CASE Read
  <2>1. answer'.stored = store' /\ error' = error
    BY <1>4 DEF Read
  <2>2. answer'.ok <=> error = NoError
    BY <1>4 DEF Read
  <2>3. NoError' = NoError
    BY DEF NoError, Raise
  <2> QED
    BY <2>1, <2>2, <2>3 DEF ReadBack
<1>5. CASE Judge
  BY <1>5 DEF Judge, ReadBack
<1> QED
  BY <1>1, <1>2, <1>3, <1>4, <1>5 DEF Next

\* No case passes on a store that a rejected candidate has advanced, or that an
\* accepted one has not: through every adapter, for every defect and fault, and
\* for logs of any size.
THEOREM PassMeansRetainedAlways == Spec => []PassMeansRetained
<1>1. Init => ReadBack
  BY DEF Init, ReadBack
<1>2. ReadBack /\ [Next]_vars => ReadBack'
  BY StepReadBack
<1>3. ReadBack => PassMeansRetained
  <2> SUFFICES ASSUME ReadBack, phase = "judge", Passes
               PROVE  store = IF error # NoError THEN case.trusted.log ELSE case.candidate.log
    BY DEF PassMeansRetained
  <2>1. "ok" \in Named(case) /\ "stored" \in Named(case)
    BY DEF Named
  <2>2. /\ "stored" \in DOMAIN answer
        /\ answer.ok = Values(case).ok
        /\ answer.stored = Values(case).stored
    BY <2>1 DEF Passes
  <2>3. /\ Values(case).ok = ~Rejected(case)
        /\ Values(case).stored = IF Rejected(case) THEN case.trusted.log ELSE case.candidate.log
    BY DEF Values
  <2>4. answer.stored = store /\ (answer.ok <=> error = NoError)
    BY <2>2 DEF ReadBack
  <2> QED
    BY <2>2, <2>3, <2>4
<1> QED
  BY <1>1, <1>2, <1>3, PTL DEF Spec
=============================================================================
