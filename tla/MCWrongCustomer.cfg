SPECIFICATION ControlSpec
CONSTANTS
  Customers = {"demo", "other"}
  Pages = {p1}
  Demo = "demo"
  Begun = {0}
  MaxCalls = 3
PROPERTY ApprovalIsForShownCustomer
CHECK_DEADLOCK FALSE
