SPECIFICATION Spec
CONSTANTS
  Accounts = {a1, a2}
  Serving = {a1, a2}
  Horizon = 1
  Fallback = 1
  Failures = {"payment", "transient"}
  Requests = {r1, r2}
  Kinds = {"new", "bare"}
  Limit = 1
  Budget = 1
  StickyThread = TRUE
  TokensFresh = TRUE
  Signatures = FALSE
  MaxChanges = 1
  None = None
SYMMETRY Symmetry
INVARIANT LeaseExact
PROPERTY CanceledBlamesOnlyItsOwn
