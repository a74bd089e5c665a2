SPECIFICATION PipelineSpec
CONSTANTS
  Nodes <- MCNodes
  Operations <- MCOperations
  Edges <- MCEdges
  SourceOf <- MCSourceOf
  TargetOf <- MCTargetOf
  OperationOf <- MCOperationOf
  Ids <- MCIds
  Graph <- MCGraph
  Probes <- MCProbes
  Experiment <- MCExperiment
  Trials <- MCTrials
  Requests <- MCRequests
  Catalogues <- MCCatalogues
  Offers <- MCOffers
  DriftEdges <- MCDriftEdges
  MaxExactControls = 4
  Lifetime = 1
  MaxEpoch = 2
  MaxDrifts = 2
INVARIANTS
  ConfidentIsRight
  StopsOnlyWhenInseparable
  CertifiedStaysErased
  PolicyIsRight
