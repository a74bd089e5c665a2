SPECIFICATION Spec
CONSTANTS
  Auditors = {a1}
  Artifacts = {"cache", "backup"}
  Backups = {"backup"}
  Graphs <- MCGraphs
  Never = Never
  Envelopes <- MCEnvelopes
  Files <- MCFiles
  Epochs = {1, 2}
  MaxAge = 1
  Recordable = {1}
  MaxRuns = 1
PROPERTY RecordedIsNotAccepted
CHECK_DEADLOCK FALSE
