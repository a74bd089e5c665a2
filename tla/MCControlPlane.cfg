SPECIFICATION ControlSpec
CONSTANTS
  Customers = {"demo", "other"}
  Pages = {p1, p2}
  Demo = "demo"
  Begun = {4}
  MaxCalls = 3
INVARIANTS
  LogIsLifecycle
  ScreenIsThePast
PROPERTIES
  StaleApprovalIsRefused
CHECK_DEADLOCK FALSE
