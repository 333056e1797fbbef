CONSTANTS
  Suites <- MCSuites
  Versions <- MCVersions
  Template = "b"
  MaxChanges = 3
SPECIFICATION MCSpec
INVARIANTS
  DigestCertifiesWire
  RunUsesCurrentEvidence
  CheckedRunIsReproducible
  EveryVectorFileIsUsed
  OneRegenerationSuffices
