SPECIFICATION OperationsSpec
CONSTANTS
  Sources = {s1}
  Urls = {u1}
  Triggers = {t1, t2}
  Workers = {w1, w2}
  MaxAttempts = 2
  MaxBrowserAttempts = 1
  Ttl = 1
  RepeatedCalls = FALSE
  MaxRows = 2
  MaxHour = 1
  MaxFetches = 2
  Fields = {name, phone}
  Values = {v1, v2}
  NoValue = NoValue
  MaxTime = 4
  MaxObserved = 3
  Sessions = {d1, d2}
  Leads = {l1, l2}
  Touches = {ad, direct}
  DirectTouch = direct
  Homes = {h1}
  Nobody = Nobody
  MaxTouches = 3
  MaxPerWindow = 2
  WindowTicks = 2
  BaseBlock = 1
  MaxBlock = 3
  FailureBlockThreshold = 2
  MaxTick = 5
  MaxFailures = 4
  Sids = {"m1", "m2", "m3"}
  Listings = {"link"}
  NoConsent = "none"
  Requests = {"q1", "q2"}
  Retries = 1
  MaxConcurrent = 2
  MaxPerMinute = 1
  Window = 1
  Budget = 3
  FallbackCost = 2
  Costs = {1, 3}
  LastMonth = 2
  MaxRequests = 1
  MaxAssignments = 2
  MaxTours = 2
  Properties = {p1, p2}
  Agents = {g1, g2}
  NoAgent = NoAgent
  FallbackIds = {f1}
  NoFallback = NoFallback
  Types = {"tour_pass"}
SYMMETRY OperationsSymmetry
INVARIANTS JobsSound RecordTrue AttributionTrue SmsSound FetchesSound AssignmentsSound PaidExactlyOnce
PROPERTIES OutcomesFinal FieldsNeverRegress
CHECK_DEADLOCK FALSE
