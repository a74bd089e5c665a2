SPECIFICATION Spec
CONSTANTS
  Auditors = {a1, a2}
  Artifacts = {"cache", "backup"}
  Backups = {"backup"}
  Graphs <- MCGraphs
  Never = Never
  Envelopes <- MCEnvelopes
  Files <- MCFiles
  Epochs = {1, 2}
  MaxAge = 1
  Recordable = {1}
  MaxRuns = 3
INVARIANTS
  AcceptedOnce
  EvidenceBacksItsRun
PROPERTY AuditsEnd
CHECK_DEADLOCK FALSE
