SPECIFICATION LeadSpec
CONSTANTS
  Sessions = {d1, d2}
  Leads = {l1}
  Touches = {ad, direct}
  DirectTouch = direct
  Homes = {h1}
  Nobody = Nobody
  MaxTouches = 2
INVARIANT OneRowPerUser
CHECK_DEADLOCK FALSE
