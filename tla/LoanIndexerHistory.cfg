\* Two loans, so that events share ledgers and a retirement has two chunks; one restart replays
\* everything; pages hold every event.
SPECIFICATION FairSpec
CONSTANTS
  Loan = {x, y}
  Poll = {p}
  Request = {r}
  None = None
  PageLimit = 4
  MaxOps = 1
  START_LEDGER = 1
  MaxLedger = 3
  MaxRestarts = 1
INVARIANTS
  IndexerTypeOK
  MirrorNeverAhead
  
PROPERTIES
  
  EventsAreReached
\* The bounded chain may come to rest with nothing left to poll.
CHECK_DEADLOCK FALSE
