SPECIFICATION RecordsSpec
CONSTANTS
  Persons = {"b1", "b2"}
  Staff = {"s1"}
  SharedRooms = {"r1"}
  HolderOf <- OneHolder
  MaxLinks = 2
  MaxLinkEvents = 6
  MaxMinute = 3
  DealRooms = {"r1", "r2"}
  SellerOffers = {"o1"}
  RoomOfOffer <- OneOffer
  NoOffer = "none"
  ActionOf <- TwoActions
  Counters = {"offer_countered"}
  DedupeWindow = 2
  MaxTokens = 1
  MaxResponses = 3
  MaxClock = 3
  Files = {f1}
  Slugs = {s1}
  FactValues = {v1}
  NoFact = NoFact
  MaxJobs = 2
  MaxFacts = 2
  Amounts <- Commissions
  Threshold = 50
  Price = 1000
  Credits = {0, 35}
  Scopes = {"room"}
  MaxEntries = 2
  MaxReports = 1
  MaxValidations = 1
  Calendar = {1, 13, 14}
  FieldMaps <- ThreeContracts
  Secondary <- LenderReview
  Dates = {8}
  MaxExtractions = 2
  MaxManual = 1
  MaxEdits = 2
  Reasons = {"r"}
  NoReason = "none"
  Owners = {"w1", "w2"}
  MaxTasks = 2
  MaxMoment = 8
  DedupeKeys = {"tour", "price"}
  PriorityOf <- Importance
  MaxEmissions = 4
  MaxActs = 3
  Users = {"b1", "b2"}
  NoUser = "nobody"
  MaxShells = 2
  MaxOps = 2
  Deals = {"d1", "d2"}
  NoDeal = "none"
  MaxCalls = 2
  Showings = {"a1"}
  AgentOf <- OneAgent
  Fees = {75, 100}
  DefaultFee = 75
  MaxConfigs = 2
  MaxMonth = 2
  MaxNotes = 5
INVARIANTS OutsidersSound FileReviewSound LedgerSound ClosingSound UpdatesSound PhoneSound PayoutsSound
CHECK_DEADLOCK FALSE
