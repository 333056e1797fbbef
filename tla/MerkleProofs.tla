---------------------------- MODULE MerkleProofs ----------------------------
(***************************************************************************)
(* Merkle trees and their proofs, as the generators build them by halving  *)
(* (generate_c2sp_fixtures.py, consistency_vectors.py) and, external, as   *)
(* RFC 9162 has a client climb them. A hash is what it hashes: <<x>> for a *)
(* leaf, <<left, right>> for a node.                                       *)
(***************************************************************************)
EXTENDS Naturals, Sequences

CONSTANTS Leaves,  \* what a log may hold
          MaxSize  \* of a log; 17 in consistency_vectors.py

ASSUME SizeAssumption == MaxSize \in Nat /\ MaxSize >= 2

Logs == {log \in Seq(Leaves) : Len(log) \in 1 .. MaxSize}

Power[i \in 0 .. MaxSize] == IF i = 0 THEN 1 ELSE 2 * Power[i - 1]
Powers == {Power[i] : i \in 0 .. MaxSize}

\* The largest power of two below n.
Split(n) == CHOOSE k \in Powers : k < n /\ n <= 2 * k

Left(log) == SubSeq(log, 1, Split(Len(log)))
Right(log) == SubSeq(log, Split(Len(log)) + 1, Len(log))

Tree[log \in Logs] ==
  IF Len(log) = 1 THEN log ELSE <<Tree[Left(log)], Tree[Right(log)]>>

\* For a leaf by its index: the siblings on the way from there up to the root.
AuditPath[log \in Logs] ==
  [index \in 0 .. Len(log) - 1 |->
     IF Len(log) = 1 THEN <<>>
     ELSE IF index < Split(Len(log)) THEN Append(AuditPath[Left(log)][index], Tree[Right(log)])
     ELSE Append(AuditPath[Right(log)][index - Split(Len(log))], Tree[Left(log)])]

\* What proves that the first m leaves are a prefix; complete as long as those
\* m leaves are a subtree that the client knows.
Subproof[log \in Logs] ==
  [m \in 1 .. Len(log) |-> [complete \in BOOLEAN |->
     IF m = Len(log) THEN (IF complete THEN <<>> ELSE <<Tree[log]>>)
     ELSE IF m <= Split(Len(log)) THEN Append(Subproof[Left(log)][m][complete], Tree[Right(log)])
     ELSE Append(Subproof[Right(log)][m - Split(Len(log))][FALSE], Tree[Left(log)])]]

-----------------------------------------------------------------------------
(* Climbing (external): fn and sn are the positions of a leaf and of the   *)
(* last leaf on the level reached, old and new the roots built so far.     *)

Positions == [fn : 0 .. MaxSize, sn : 0 .. MaxSize]

Up(p) == [fn |-> p.fn \div 2, sn |-> p.sn \div 2]

\* Up past the levels where the node is a left child without a sibling.
SkipEven[p \in Positions] ==
  IF p.fn % 2 = 0 /\ p.fn # 0 THEN SkipEven[Up(p)] ELSE p

\* Up past the levels where it is a right child.
SkipOdd[p \in Positions] ==
  IF p.fn % 2 = 1 THEN SkipOdd[Up(p)] ELSE p

Step(s, node) ==
  IF s.at.sn = 0
    THEN [at |-> s.at, old |-> s.old, new |-> s.new, surplus |-> TRUE]
  ELSE IF s.at.fn % 2 = 1 \/ s.at.fn = s.at.sn
    THEN [at |-> Up(SkipEven[s.at]), old |-> <<node, s.old>>, new |-> <<node, s.new>>, surplus |-> s.surplus]
  ELSE [at |-> Up(s.at), old |-> s.old, new |-> <<s.new, node>>, surplus |-> s.surplus]

\* The states on the way: after each node of the path.
Climbing(from, start, path) ==
  LET state[i \in 0 .. Len(path)] ==
        IF i = 0 THEN [at |-> from, old |-> start, new |-> start, surplus |-> FALSE]
        ELSE Step(state[i - 1], path[i])
  IN state

Climb(from, start, path) == Climbing(from, start, path)[Len(path)]

Included(log, index, path) ==
  LET end == Climb([fn |-> index, sn |-> Len(log) - 1], <<log[index + 1]>>, path) IN
  ~end.surplus /\ end.at.sn = 0 /\ end.new = Tree[log]

\* Where a consistency proof between two logs leads. A log whose size is a
\* power of two is a subtree: the proof begins with its root.
Follow(known, log, proof) ==
  LET path == IF Len(known) \in Powers THEN <<Tree[known]>> \o proof ELSE proof
      from == SkipOdd[[fn |-> Len(known) - 1, sn |-> Len(log) - 1]] IN
  IF proof = <<>> THEN [at |-> from, old |-> <<>>, new |-> <<>>, surplus |-> FALSE]
  ELSE Climb(from, Head(path), Tail(path))
=============================================================================
