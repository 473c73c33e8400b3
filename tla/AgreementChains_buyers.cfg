SPECIFICATION Spec
CONSTANTS
  MaxAgreements = 3
  Rooms = {"r1", "r2", "r3"}
  Buyers = {"b1", "b2"}
  BuyerOf <- TwoBuyers
INVARIANTS TablesSound EligibleRowGoverned ReadersAgree
PROPERTIES EligibilityFollowsLifecycle ClosedRowsFrozen ImplementsLineages
CHECK_DEADLOCK FALSE
