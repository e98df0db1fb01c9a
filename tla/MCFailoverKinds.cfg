SPECIFICATION LiveSpec
CONSTANTS
  Accounts = {a1, a2}
  Serving = {a1, a2}
  Horizon = 2
  Fallback = 1
  Failures = {"unauthorized", "payment", "transient"}
  Requests = {r1}
  Kinds = {"new", "selected", "explicit", "bare", "implicit"}
  Limit = 1
  Budget = 2
  StickyThread = TRUE
  TokensFresh = FALSE
  Signatures = TRUE
  MaxChanges = 0
  None = None
INVARIANT WaitWithinBudget
PROPERTY AttemptOnce
PROPERTY RetryAfterEarned
PROPERTY NamedAccountKept
PROPERTY Answered
PROPERTY CancelEnds
