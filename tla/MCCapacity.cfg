SPECIFICATION LiveSpec
CONSTANTS
  Accounts = {a1, a2}
  Callers = {c1, c2, c3, c4}
  Limit = 2
  NoAccount = NoAccount
INVARIANT IInv
INVARIANT SlotAccounting
INVARIANT QueueExact
INVARIANT NoIdleSlot
INVARIANT NoEntryLeak
PROPERTY NoOvertaking
PROPERTY NoSlotAfterClose
PROPERTY ImplementsFifoSlots
PROPERTY Served
PROPERTY ShutdownAnswers
