SPECIFICATION LiveSpec
CONSTANTS
  Accounts = {a1, a2}
  Serving = {a1, a2}
  Horizon = 2
  Fallback = 1
  Failures = {"unauthorized", "payment", "transient"}
  Budget = 2
  Pinnings = {TRUE, FALSE}
  MaxChanges = 1
  None = None
INVARIANT StreamMatchesLease
INVARIANT SlotOnlyInTurn
INVARIANT TurnWaitWithinBudget
PROPERTY NoReuseAfterFailure
PROPERTY TurnAttemptOnce
PROPERTY ContinuationStays
PROPERTY ContinuationEnds
