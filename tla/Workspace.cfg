SPECIFICATION WorkspaceSpec
CONSTANTS
  Rooms = {r1, r2}
  Types = {"pricing", "offer"}
  SynthesisVersions = {"v1"}
  OfferRooms = {r1}
  MaxOutputs = 2
  MaxCases = 2
  FairValues = {0, 90, 91}
  Scores = {0, 40}
  Waits = {30, 100}
  Rivals = {0, 10}
  Budgets = {0, 95}
  ReviewShift = 1
  Sources = {"comps"}
  EmptyAtFirst = {"comps"}
  MaxVersion = 2
  MaxBriefs = 2
  MaxRuns = 2
  DocTypes = {"loan_estimate"}
  LenderOutcomes = {"review_required"}
  WithheldKinds = {"none", "review_required"}
  Brokers = {"b1"}
  Admins = {"a1"}
  Items = {"i1"}
  Versions = {1, 2}
  SettingValues = {"x", "y"}
  SettingRole = "broker"
  MaxNotes = 4
  MaxAudit = 4
  Agents = {g1}
  Nobody = Nobody
  MaxClock = 5
  MaxInstant = 3
  MaxSpan = 2
  MaxWindows = 2
  MaxVisits = 3
  Homes = {"h1", "h2", "h3"}
  Condos = {"h1", "h2", "h3"}
  MidPriced = {"h1", "h2"}
  Wishes = {"pool"}
  Sentiments = {"positive", "negative"}
  Readiness = {"ready"}
  PricingSignals = {"above"}
  Leans = {"negative"}
  MaxWatchlist = 2
  MaxCompared = 3
  MaxHalfLives = 1
  MaxTours = 1
  MaxFacts = 3
  MissingTones = {"none", "pending"}
  Leanings <- SomeLeanings
  Documentary = {"document", "milestone"}
  ListingUrls = {"url"}
  Addresses = {"addr"}
  MaxListings = 2
  MaxIntakes = 2
INVARIANTS CasesSound StrategySound BriefsSound AdviceSound StaffSeesTrue BuyerRemembered IntakeAgrees
CHECK_DEADLOCK FALSE
