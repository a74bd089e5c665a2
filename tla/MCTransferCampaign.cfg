SPECIFICATION CampaignSpec
CONSTANTS
  MaxFull = 2
  MaxSmoke = 3
  Catalogues <- MCCatalogues
INVARIANTS
  ReportedErasureIsReal
  EvidenceIsOwn
  LeaksAreDockers
  PassIsOfOneCore
  QuietRunPasses
  SearchFindsOraclePlan
