SPECIFICATION RefusedSpec
CONSTANTS
  Persons = {"b1"}
  Staff = {"s1"}
  SharedRooms = {"r1"}
  HolderOf <- OneHolder
  MaxLinks = 0
  MaxLinkEvents = 0
  MaxMinute = 1
  DealRooms = {"r1"}
  SellerOffers = {"o1"}
  RoomOfOffer <- OneOffer
  NoOffer = "none"
  ActionOf <- TwoActions
  Counters = {"offer_countered"}
  DedupeWindow = 2
  MaxTokens = 1
  MaxResponses = 2
  MaxClock = 3
INVARIANT DeniedAttemptsRecorded
CHECK_DEADLOCK FALSE
