SPECIFICATION Spec
CONSTANTS
  Endpoints = {"anthropic", "chat", "completions", "responses"}
  Plans <- MCPlans
  Structured = {TRUE, FALSE}
  ItemIds <- MCItemIds
  CallIds <- MCCallIds
INVARIANT ProtocolFollowed
INVARIANT StreamedAsOneShot
INVARIANT DoneItemsStand
\* a finished response stops
CHECK_DEADLOCK FALSE
