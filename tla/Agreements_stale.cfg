SPECIFICATION Spec
CONSTANTS
  MaxAgreements = 2
  Rooms = {"r1"}
  Buyers = {"b1"}
  BuyerOf <- OneRoom
INVARIANT EligibleMeansSigned
CHECK_DEADLOCK FALSE
