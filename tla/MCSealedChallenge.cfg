CONSTANTS
  Absent = Absent
  Torn = Torn
  Publics <- MCPublics
  Ids <- MCIds
  Defect <- MCDefect
  TruthOf <- MCTruthOf
  Algorithm <- MCAlgorithm
  Suites <- MCSuites
  Substitutes <- MCSubstitutes
  Scenarios <- MCScenarios
  Built <- MCBuilt
SPECIFICATION ChallengeSpec
INVARIANTS
  PassIsEarned
  BundleIsWhatWasJudged
PROPERTY
  QuietChallengeIsAccepted
