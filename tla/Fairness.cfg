SPECIFICATION FairnessSpec
CONSTANTS
  Offers = {o1}
  Prices = {1, 2}
  NoPrice = NoPrice
  Outputs = {}
  MaxCounters = 2
  Calls = {c1}
  Events = {"sent", "signed"}
  Decided = {"terminated"}
  WebhooksNameContract = TRUE
  Sources = {s1}
  Urls = {u1}
  Triggers = {t1}
  Workers = {w1, w2}
  MaxAttempts = 2
  MaxBrowserAttempts = 2
  Ttl = 1
  RepeatedCalls = TRUE
  MaxRows = 1
  MaxHour = 0
  MaxFetches = 3
  Requests = {"q1", "q2"}
  Retries = 1
  MaxConcurrent = 1
  MaxPerMinute = 1
  Window = 1
  Budget = 3
  FallbackCost = 2
  Costs = {1, 3}
  LastMonth = 1
INVARIANT AttemptsCapped
PROPERTIES RunsSettle SignatureRecorded JobsSettle FetchesEnd
CHECK_DEADLOCK FALSE
