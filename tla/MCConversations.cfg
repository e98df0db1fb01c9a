SPECIFICATION Spec
CONSTANTS
  Requests = {q}
  Models = {m1, m2}
  MaxResponses = 3
  ClaudeRequests = {r1, r2}
  OtherKeys = {o1, o2}
  Omissions <- MCOmissions
  MaxEntries = 2
  MaxBytes = 16
  MaxAnswers = 3
  q = q
  m1 = m1
  m2 = m2
  r1 = r1
  r2 = r2
  o1 = o1
  o2 = o2
SYMMETRY Symmetry
INVARIANT SentTheConversation
INVARIANT ReplayRestores
PROPERTY ReplayKept
\* the bounds are reached
CHECK_DEADLOCK FALSE
