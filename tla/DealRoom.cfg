SPECIFICATION DealRoomSpec
CONSTANTS
  MaxAgreements = 3
  Rooms = {"r1"}
  Buyers = {"b1"}
  BuyerOf <- OneRoom
  MaxDrafts = 2
  MaxVersion = 3
  Windows = {"w1"}
  EditedRoom = "r1"
  Terms = {"t1", "t2"}
  Scenarios = {"t2"}
  Blank = "blank"
  Offers = {o1}
  Prices = {1, 2}
  NoPrice = NoPrice
  Outputs = {e1}
  MaxCounters = 3
  Calls = {c1, c2}
  Events = {"sent", "signed", "declined"}
  Decided = {"terminated"}
  WebhooksNameContract = TRUE
  Catalog <- TwoEngines
  LegacyRows <- OldPricing
  EngineTypes = {"pricing", "offer"}
  Versions = {"v1", "v2"}
  Confidence = {"mid", "high"}
  Jobs = {"e1"}
  MaxOutputs = 2
  MaxAdjudications = 2
SYMMETRY CallSymmetry
INVARIANTS CockpitSound EditorTruthful NegotiationSound HandoffSound EnginesSound
PROPERTY ReviewIsOfTheSubmission
CHECK_DEADLOCK FALSE
