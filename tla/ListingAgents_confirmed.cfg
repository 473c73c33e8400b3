SPECIFICATION AgentSpec
CONSTANTS
  Fields = {name}
  Values = {v1, v2}
  NoValue = NoValue
  MaxTime = 3
  MaxObserved = 3
INVARIANT NewestWins
CHECK_DEADLOCK FALSE
