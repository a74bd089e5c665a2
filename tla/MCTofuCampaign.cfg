CONSTANTS
  Protocols <- MCProtocols
  Worlds <- MCWorlds
  Measures <- MCMeasures
  Scenarios <- MCScenarios
  Tables <- MCTables
  Alphas = 5
  Width = 3
SPECIFICATION TofuSpec
INVARIANTS
  AcceptedIsDue
  RanItsProtocol
  ConfirmationIsBlind
  QuietRunIsAccepted
  SelectionIsRobust
