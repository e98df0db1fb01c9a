SPECIFICATION LoginSpec
CONSTANTS
  Callers = {c1, c2}
  MaxTokens = 3
  Logins = {l1}
  None = None
SYMMETRY Symmetry
INVARIANT TokenUsable
INVARIANT ReplacedTokenNotReused
PROPERTY ExpiredForAReason
PROPERTY LoginTold
