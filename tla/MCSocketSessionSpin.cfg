SPECIFICATION LiveSpec
CONSTANTS
  Accounts = {a1, a2}
  Serving = {a1, a2}
  Horizon = 1
  Fallback = 1
  Failures = {"rateLimited"}
  Budget = 1
  Pinnings = {FALSE}
  MaxChanges = 0
  None = None
PROPERTY TurnEnds
