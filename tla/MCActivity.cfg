SPECIFICATION MCSpec
CONSTANTS
  Ids = {i1, i2}
  Accounts = {a1}
  Subscribers = {s1}
  Buffer = 2
  PageSize = 1
  MaxLines = 3
  Reached = {"streaming"}
  None = None
  Parents = {p1}
  MaxAttempts = 3
SYMMETRY Symmetry
INVARIANT StreamExact
INVARIANT PagesMissNothing
INVARIANT GenerationsTold
PROPERTY StreamForward
