SPECIFICATION Spec
CONSTANTS
  MaxRequests = 1
  MaxAssignments = 1
  MaxTours = 1
  Properties = {"p1"}
  Agents = {"g1"}
  NoAgent = "noAgent"
  FallbackIds = {"f1"}
  NoFallback = "noFallback"
  Types = {"tour_pass"}
PROPERTY TerminalRequestsStay
CHECK_DEADLOCK FALSE
