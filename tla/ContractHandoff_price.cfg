SPECIFICATION HandoffSpec
CONSTANTS
  Offers = {o1}
  Prices = {1, 2}
  NoPrice = NoPrice
  Outputs = {}
  MaxCounters = 1
  Calls = {c1}
  Events = {"sent"}
  Decided = {}
  WebhooksNameContract = TRUE
INVARIANT ContractAtAgreedPrice
CHECK_DEADLOCK FALSE
