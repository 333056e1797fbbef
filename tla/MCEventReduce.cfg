SPECIFICATION Spec
CONSTANTS
  Id <- MCId
  NoId = NoId
  Key = {"E", "K1", "K2", "K3"}
  BadSig = BadSig
  NoState = NoState
  Payload <- MCPayload
  Alphabet <- MCAlphabet
  MaxLen = 5
  LogLen = 4
  Inputs <- MCInputs
INVARIANTS
  TypeOK
  LinearHistory
  AuthorizedHistory
  TerminalIsFinal
  NoSignedForkOmitted
  SelectionsAgree
PROPERTY
  ImplementsLifecycle
CHECK_DEADLOCK FALSE
