--------------------------- MODULE MCEventReduce ---------------------------
(***************************************************************************)
(* EventReduce on every log of up to LogLen candidates over the candidates *)
(* of `main' in c2sp_event_identity_check.py: a genesis, a rotation and    *)
(* revocations that continue it, a second genesis, forks, and rotations    *)
(* with one chain field wrong, each signed by the keys in force, and the   *)
(* copies of them with a signature missing or invalid. And on every word   *)
(* of up to MaxLen over the seven of them (one with another bad signature) *)
(* that are the alphabet of selection_enumeration.py: every rotation and   *)
(* revocation among those names the one genesis.                           *)
(***************************************************************************)
EXTENDS SelectionAgreement, TLC

CONSTANT LogLen   \* longest log

MCId == {"issue", "reissue", "rotate", "fork", "skipLink", "badSeq",
         "prohibited", "unlinked", "badState", "badThumb", "revoke",
         "revokeNext", "afterRevoke", "migrate"}

S0 == [status |-> "ACTIVE", entity |-> "E", operational |-> "K1"]
S1 == [S0 EXCEPT !.operational = "K2"]
SRevoked == [S0 EXCEPT !.status = "REVOKED"]

Blank == [type |-> "ISSUANCE", seq |-> 0, prev |-> NoId, prevState |-> NoState,
          prohibited |-> FALSE, ek |-> "E", ku |-> "K1",
          prevThumb |-> "K1", newKu |-> "K2"]
FirstRotation == [Blank EXCEPT !.type = "KEY_ROTATION", !.seq = 1,
                               !.prev = "issue", !.prevState = S0]
FirstRevocation == [FirstRotation EXCEPT !.type = "REVOCATION"]

MCPayload ==
  [issue |-> Blank,
   reissue |-> Blank,
   rotate |-> FirstRotation,
   fork |-> [FirstRotation EXCEPT !.newKu = "K3"],
   skipLink |-> [FirstRotation EXCEPT !.seq = 2, !.prevState = S1, !.prevThumb = "K2"],
   badSeq |-> [FirstRotation EXCEPT !.seq = 4],
   prohibited |-> [FirstRotation EXCEPT !.prohibited = TRUE],
   unlinked |-> [FirstRotation EXCEPT !.prev = NoId],
   badState |-> [FirstRotation EXCEPT !.prevState = S1],
   badThumb |-> [FirstRotation EXCEPT !.prevThumb = "K3"],
   revoke |-> FirstRevocation,
   revokeNext |-> [FirstRevocation EXCEPT !.seq = 2, !.prev = "rotate", !.prevState = S1],
   afterRevoke |-> [FirstRotation EXCEPT !.seq = 2, !.prev = "revoke", !.prevState = SRevoked],
   migrate |-> [Blank EXCEPT !.type = "MIGRATION"]]

Signed(i, sigs) == [id |-> i, sigs |-> sigs]

Rotating(i, signer) == Signed(i, [prev_op |-> signer, new_op |-> MCPayload[i].newKu])

Candidates ==
  {Signed("issue", [ae |-> "E", op |-> "K1"]),
   Signed("issue", [ae |-> "E", op |-> BadSig]),
   Signed("reissue", [ae |-> "E", op |-> "K1"]),
   Signed("rotate", [prev_op |-> "K1", new_op |-> BadSig]),
   Signed("rotate", [prev_op |-> "K1"]),
   Signed("revoke", [ae |-> "E"]),
   Signed("revokeNext", [ae |-> "E"]),
   Signed("migrate", [ae |-> "E"])}
  \cup {Rotating(i, "K1") : i \in {"rotate", "fork", "skipLink", "badSeq", "prohibited",
                                   "unlinked", "badState", "badThumb", "afterRevoke"}}

Letter0(i, kind, sigs, authenticated) ==
  [entry |-> Signed(i, sigs), kind |-> kind, authenticated |-> authenticated]

MCAlphabet ==
  "I" :> Letter0("issue", "I", [ae |-> "E", op |-> "K1"], TRUE)
  @@ "R" :> Letter0("rotate", "R", [prev_op |-> "K1", new_op |-> "K2"], TRUE)
  @@ "FORK" :> Letter0("fork", "R", [prev_op |-> "K1", new_op |-> "K3"], TRUE)
  @@ "V" :> Letter0("revoke", "V", [ae |-> "E"], TRUE)
  @@ "bad-R" :> Letter0("rotate", "R", [prev_op |-> "K1", new_op |-> BadSig], FALSE)
  @@ "partial-R" :> Letter0("rotate", "R", [prev_op |-> "K1"], FALSE)
  @@ "forged-M" :> Letter0("migrate", "M", [ae |-> BadSig], FALSE)

MCInputs == BoundedSeq(Candidates, LogLen) \cup Words
=============================================================================
