SPECIFICATION PlansSpec
CONSTANTS
  Nodes <- MCNodes
  Edges <- MCEdges
  Channels <- MCChannels
  Names <- MCNames
  NameOf <- MCNameOf
  Actions <- MCActions
  Problems <- MCProblems
  Requests <- MCRequests
  Artifacts <- MCArtifacts
  Remediations <- MCRemediations
  MaxExact = 4
  Tasks <- MCTasks
INVARIANTS
  PlansAreBest
  ErasedDataStaysOut
  RefusalHasAReason
  GreedyFindsACut
CHECK_DEADLOCK FALSE
