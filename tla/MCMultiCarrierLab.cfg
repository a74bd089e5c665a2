SPECIFICATION MCSpec
CONSTANTS
  Subjects <- MCSubjects
  Deletions = 2
  Trials <- MCTrials
  MaxCrashes = 2
  Studies <- MCStudies
  Timings <- MCTimings
  MaxRuns = 2
INVARIANTS
  PredictionMatchesStores
  ReadersSeeOneGeneration
  ReceiptsAreTrue
  MeasuredErasureIsReal
  StudyCleansUp
PROPERTY ImplementsWorld
