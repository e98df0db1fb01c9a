SPECIFICATION Spec
CONSTANTS
  Accounts = {a1, a2}
  Serving = {a1, a2}
  Horizon = 1
  Fallback = 1
  Failures = {"rateLimited"}
  Requests = {r1}
  Kinds = {"explicit"}
  Limit = 1
  Budget = 1
  StickyThread = FALSE
  TokensFresh = TRUE
  Signatures = FALSE
  MaxChanges = 0
  None = None
PROPERTY ExplicitPinned
